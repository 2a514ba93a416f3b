----------------------------- MODULE CfgProofs -----------------------------
(***************************************************************************)
(* What Cfg promises of the control flow graph, for functions of any size: *)
(* branches, edges and PHI entries agree after every step of every pass,   *)
(* a function is refused only for the reasons it may be, and what it does  *)
(* is what it did as parsed.                                               *)
(*                                                                         *)
(* The agreement alone is not inductive.  break_critical_edges looks at    *)
(* edges that construct_cfg listed before the first of them was split:     *)
(* that a listed edge is still there needs the list and the edges to be    *)
(* without repetitions, and that an id is left for the new block needs the *)
(* branches of several targets still to be visited to be counted.  The     *)
(* later passes need the PHIs to be gone, which exit_ssa does one block at *)
(* a time.                                                                 *)
(*                                                                         *)
(* That behaviour is kept is proved with one solution V of the equations   *)
(* between what blocks execute, found once for the function as parsed      *)
(* (SolutionExists): FlowInv says that in every state what each block that *)
(* is left executes, followed by V of the block it goes to, is V of that   *)
(* block.  Any solution is what the traces of the final graph show         *)
(* (SolutionTraced), provided that blocks which execute nothing are        *)
(* ranked, R, by the jumps to the next block that executes something.      *)
(* Until coalesce it has not been chosen which moves disappear: FlowInv is *)
(* stated for every set it may choose.  EarlyInv is what the passes before *)
(* the PHIs are gone need for that; Leading, EntryLeft and EntryHeld say   *)
(* why the function still starts where it did.                             *)
(***************************************************************************)
EXTENDS Cfg, SeqLemmas, FiniteSetTheorems

(* prog is a function that the parser can deliver. *)
ProgOK ==
  /\ prog.to \in [1..NumBBs -> Targets]
  /\ prog.phis \subseteq 1..NumBBs

(* The entries of a PHI are those it was parsed with: their number and     *)
(* the blocks they came from stay, and two of them name one block only if  *)
(* they did so in the function as parsed.                                  *)
EntriesParsed ==
  \A b \in Ids : phi[b] # <<>> =>
    /\ b \in prog.phis
    /\ Len(phi[b]) = Len(Into(prog.to, b))
    /\ \A i \in 1..Len(phi[b]) :
         /\ phi[b][i].orig = Into(prog.to, b)[i]
         /\ phi[b][i].pred <= if_num_bbs
         /\ \A j \in 1..Len(phi[b]) :
              phi[b][i].pred = phi[b][j].pred => phi[b][i].orig = phi[b][j].orig

(* The edges are the branches of the blocks in the list, which go to       *)
(* blocks in the list.                                                     *)
GraphOK(bbs, edges, tos) ==
  /\ \A a, c : Holds(edges, <<a, c>>) <=> Holds(bbs, a) /\ Holds(tos[a], c)
  /\ \A a, c : Holds(bbs, a) /\ Holds(tos[a], c) => Holds(bbs, c)

Names(entries, p) == \E i \in 1..Len(entries) : entries[i].pred = p

(* The PHIs of a block in the list have entries for the edges into it. *)
PhisOK(bbs, edges, ph) ==
  \A b : Holds(bbs, b) /\ ph[b] # <<>> => \A p : Names(ph[b], p) <=> Holds(edges, <<p, b>>)

(* exit_ssa has not yet visited the blocks that still have PHIs. *)
PhisLeft ==
  /\ phase = "ssa" => \A b : Holds(if_bbs, b) /\ phi[b] # <<>> => Holds(todo, b)
  /\ phase \in {"dead", "coalesce", "empty", "abort", "spinning", "done"} =>
       \A b : Holds(if_bbs, b) => phi[b] = <<>>

(* Edges still to be visited that may need a new block. *)
Pending(edges) == {e \in Ids \X Ids : Holds(edges, e) /\ Len(prog.to[e[1]]) > 1}

(* The edges listed by construct_cfg and not visited are still edges, and  *)
(* there are ids enough to split them all.                                 *)
EdgesListed ==
  /\ Distinct(if_edges)
  /\ Distinct(todo)
  /\ \A e : Holds(todo, e) => e[1] \in 1..NumBBs /\ Holds(if_edges, e)
  /\ \A b \in 1..NumBBs : Len(to[b]) = Len(prog.to[b])
  /\ IsFiniteSet(Pending(todo))
  /\ if_num_bbs + Cardinality(Pending(todo)) <= NumBBs + 2 * MaxMulti

Reasons ==
  /\ phase = "error" => HasPhiTwice
  /\ phase = "abort" => prog.byval # {}

CfgInv ==
  /\ TypeOK
  /\ GraphOK(if_bbs, if_edges, to)
  /\ PhisOK(if_bbs, if_edges, phi)
  /\ ProgOK /\ EntriesParsed /\ PhisLeft /\ Reasons
  /\ if_num_bbs >= NumBBs
  /\ phase = "critical" => EdgesListed
  /\ phase \in {"critical", "ssa"} => if_bbs # <<>>

-----------------------------------------------------------------------------
(* The operators of Cfg on sequences, by the elements they leave. *)

LEMMA DroppingHolds ==
  ASSUME NEW S, NEW s \in Seq(S), NEW gone
  PROVE  /\ Dropping(s, gone) \in Seq(S)
         /\ \A x : Holds(Dropping(s, gone), x) <=> Holds(s, x) /\ x \notin gone
<1> DEFINE d == [i \in 1..Len(s) |-> IF s[i] \in gone THEN <<>> ELSE <<s[i]>>]
<1>1. Len(s) \in Nat /\ \A i \in 1..Len(s) : s[i] \in S
  BY ElementOfSeq
<1>2. \A i \in 1..Len(s) : (IF s[i] \in gone THEN <<>> ELSE <<s[i]>>) \in Seq(S)
  BY <1>1
<1>3. d \in Seq(Seq(S)) /\ Len(d) = Len(s)
  BY <1>1, <1>2
<1>4. \A i \in 1..Len(s) : d[i] = IF s[i] \in gone THEN <<>> ELSE <<s[i]>>
  OBVIOUS
<1>5. Dropping(s, gone) = FlattenSeq(d)
  BY DEF Dropping
<1> HIDE DEF d
<1>6. /\ FlattenSeq(d) \in Seq(S)
      /\ \A x : Holds(FlattenSeq(d), x) <=> \E i \in 1..Len(d) : Holds(d[i], x)
  BY <1>3, FlattenHolds
<1>7. ASSUME NEW i \in 1..Len(s), NEW x PROVE Holds(d[i], x) <=> s[i] \notin gone /\ s[i] = x
  <2>1. CASE s[i] \in gone
    <3>1. d[i] = <<>>
      BY <1>4, <2>1, Zenon
    <3>2. Len(<<>>) = 0 /\ 1..0 = {}
      OBVIOUS
    <3>3. ~Holds(d[i], x)
      BY <3>1, <3>2 DEF Holds
    <3> QED BY <3>3, <2>1
  <2>2. CASE s[i] \notin gone
    <3>1. d[i] = <<s[i]>>
      BY <1>4, <2>2
    <3>2. Len(<<s[i]>>) = 1 /\ <<s[i]>>[1] = s[i] /\ 1..1 = {1}
      OBVIOUS
    <3> QED BY <3>1, <3>2, <2>2 DEF Holds
  <2> QED BY <2>1, <2>2
<1>8. \A x : Holds(FlattenSeq(d), x) <=> \E i \in 1..Len(s) : s[i] \notin gone /\ s[i] = x
  BY <1>3, <1>6, <1>7, Zenon
<1>9. \A x : Holds(FlattenSeq(d), x) <=> Holds(s, x) /\ x \notin gone
  <2>1. \A x : (\E i \in 1..Len(s) : s[i] \notin gone /\ s[i] = x) <=> Holds(s, x) /\ x \notin gone
    BY Zenon DEF Holds
  <2> QED BY <1>8, <2>1, Zenon
<1> QED BY <1>5, <1>6, <1>9, Zenon

LEMMA WithoutHolds ==
  ASSUME NEW S, NEW s \in Seq(S), NEW b
  PROVE  /\ Without(s, b) \in Seq(S)
         /\ \A x : Holds(Without(s, b), x) <=> Holds(s, x) /\ x # b
BY DroppingHolds DEF Without

LEMMA ReplacedHolds ==
  ASSUME NEW S, NEW s \in Seq(S), NEW a, NEW b \in S
  PROVE  /\ Replaced(s, a, b) \in Seq(S)
         /\ Len(Replaced(s, a, b)) = Len(s)
         /\ \A i \in 1..Len(s) : Replaced(s, a, b)[i] = IF s[i] = a THEN b ELSE s[i]
         /\ \A x : Holds(Replaced(s, a, b), x) <=> (Holds(s, x) /\ x # a) \/ (x = b /\ Holds(s, a))
<1>1. Len(s) \in Nat /\ \A i \in 1..Len(s) : s[i] \in S
  BY ElementOfSeq
<1>2. \A i \in 1..Len(s) : (IF s[i] = a THEN b ELSE s[i]) \in S
  BY <1>1
<1>3. Replaced(s, a, b) \in Seq(S) /\ Len(Replaced(s, a, b)) = Len(s)
  BY <1>1, <1>2 DEF Replaced
<1>4. \A i \in 1..Len(s) : Replaced(s, a, b)[i] = IF s[i] = a THEN b ELSE s[i]
  BY DEF Replaced
<1>5. \A x : Holds(Replaced(s, a, b), x) <=> (Holds(s, x) /\ x # a) \/ (x = b /\ Holds(s, a))
  BY <1>3, <1>4 DEF Holds
<1> QED BY <1>3, <1>4, <1>5

LEMMA FromMovedHolds ==
  ASSUME NEW s \in Seq(Ids \X Ids), NEW b, NEW c \in Ids
  PROVE  /\ FromMoved(s, b, c) \in Seq(Ids \X Ids)
         /\ \A x, y : Holds(FromMoved(s, b, c), <<x, y>>) <=>
                        \/ Holds(s, <<x, y>>) /\ x # b
                        \/ x = c /\ Holds(s, <<b, y>>)
<1> DEFINE r == FromMoved(s, b, c)
<1>1. Len(s) \in Nat /\ \A i \in 1..Len(s) : s[i] \in Ids \X Ids
  BY ElementOfSeq
<1>2. \A i \in 1..Len(s) : s[i] = <<s[i][1], s[i][2]>> /\ s[i][1] \in Ids /\ s[i][2] \in Ids
  BY <1>1
<1>3. \A i \in 1..Len(s) : (IF s[i][1] = b THEN <<c, s[i][2]>> ELSE s[i]) \in Ids \X Ids
  BY <1>1, <1>2
<1>4. r \in Seq(Ids \X Ids) /\ Len(r) = Len(s)
  BY <1>1, <1>3 DEF FromMoved
<1>5. \A i \in 1..Len(s) : r[i] = IF s[i][1] = b THEN <<c, s[i][2]>> ELSE s[i]
  BY DEF FromMoved
<1> HIDE DEF r
<1>6. ASSUME NEW x, NEW y
      PROVE  Holds(r, <<x, y>>) <=> \/ Holds(s, <<x, y>>) /\ x # b
                                    \/ x = c /\ Holds(s, <<b, y>>)
  <2>1. ASSUME NEW i \in 1..Len(s), r[i] = <<x, y>>
        PROVE  \/ Holds(s, <<x, y>>) /\ x # b
               \/ x = c /\ Holds(s, <<b, y>>)
    <3>1. CASE s[i][1] = b
      <4>1. <<c, s[i][2]>> = <<x, y>>
        BY <1>5, <2>1, <3>1, Zenon
      <4>2. s[i] = <<b, y>> /\ x = c
        BY <4>1, <1>2, <3>1
      <4> QED BY <4>2 DEF Holds
    <3>2. CASE s[i][1] # b
      <4>1. s[i] = <<x, y>>
        BY <1>5, <2>1, <3>2, Zenon
      <4>2. x # b
        BY <4>1, <3>2
      <4> QED BY <4>1, <4>2 DEF Holds
    <3> QED BY <3>1, <3>2
  <2>2. ASSUME NEW i \in 1..Len(s), s[i] = <<x, y>>, x # b PROVE Holds(r, <<x, y>>)
    <3>1. s[i][1] # b
      BY <2>2
    <3>2. r[i] = <<x, y>>
      BY <1>5, <2>2, <3>1, Zenon
    <3> QED BY <1>4, <3>2 DEF Holds
  <2>3. ASSUME NEW i \in 1..Len(s), s[i] = <<b, y>>, x = c PROVE Holds(r, <<x, y>>)
    <3>1. s[i][1] = b /\ s[i][2] = y
      BY <2>3
    <3>2. r[i] = <<x, y>>
      BY <1>5, <2>3, <3>1, Zenon
    <3> QED BY <1>4, <3>2 DEF Holds
  <2> QED BY <1>4, <2>1, <2>2, <2>3 DEF Holds
<1> QED BY <1>4, <1>6, Zenon DEF r

LEMMA ToMovedHolds ==
  ASSUME NEW s \in Seq(Ids \X Ids), NEW b, NEW c \in Ids
  PROVE  /\ ToMoved(s, b, c) \in Seq(Ids \X Ids)
         /\ \A x, y : Holds(ToMoved(s, b, c), <<x, y>>) <=>
                        \/ Holds(s, <<x, y>>) /\ y # b
                        \/ y = c /\ Holds(s, <<x, b>>)
<1> DEFINE r == ToMoved(s, b, c)
<1>1. Len(s) \in Nat /\ \A i \in 1..Len(s) : s[i] \in Ids \X Ids
  BY ElementOfSeq
<1>2. \A i \in 1..Len(s) : s[i] = <<s[i][1], s[i][2]>> /\ s[i][1] \in Ids /\ s[i][2] \in Ids
  BY <1>1
<1>3. \A i \in 1..Len(s) : (IF s[i][2] = b THEN <<s[i][1], c>> ELSE s[i]) \in Ids \X Ids
  BY <1>1, <1>2
<1>4. r \in Seq(Ids \X Ids) /\ Len(r) = Len(s)
  BY <1>1, <1>3 DEF ToMoved
<1>5. \A i \in 1..Len(s) : r[i] = IF s[i][2] = b THEN <<s[i][1], c>> ELSE s[i]
  BY DEF ToMoved
<1> HIDE DEF r
<1>6. ASSUME NEW x, NEW y
      PROVE  Holds(r, <<x, y>>) <=> \/ Holds(s, <<x, y>>) /\ y # b
                                    \/ y = c /\ Holds(s, <<x, b>>)
  <2>1. ASSUME NEW i \in 1..Len(s), r[i] = <<x, y>>
        PROVE  \/ Holds(s, <<x, y>>) /\ y # b
               \/ y = c /\ Holds(s, <<x, b>>)
    <3>1. CASE s[i][2] = b
      <4>1. <<s[i][1], c>> = <<x, y>>
        BY <1>5, <2>1, <3>1, Zenon
      <4>2. s[i] = <<x, b>> /\ y = c
        BY <4>1, <1>2, <3>1
      <4> QED BY <4>2 DEF Holds
    <3>2. CASE s[i][2] # b
      <4>1. s[i] = <<x, y>>
        BY <1>5, <2>1, <3>2, Zenon
      <4>2. y # b
        BY <4>1, <3>2
      <4> QED BY <4>1, <4>2 DEF Holds
    <3> QED BY <3>1, <3>2
  <2>2. ASSUME NEW i \in 1..Len(s), s[i] = <<x, y>>, y # b PROVE Holds(r, <<x, y>>)
    <3>1. s[i][2] # b
      BY <2>2
    <3>2. r[i] = <<x, y>>
      BY <1>5, <2>2, <3>1, Zenon
    <3> QED BY <1>4, <3>2 DEF Holds
  <2>3. ASSUME NEW i \in 1..Len(s), s[i] = <<x, b>>, y = c PROVE Holds(r, <<x, y>>)
    <3>1. s[i][2] = b /\ s[i][1] = x
      BY <2>3
    <3>2. r[i] = <<x, y>>
      BY <1>5, <2>3, <3>1, Zenon
    <3> QED BY <1>4, <3>2 DEF Holds
  <2> QED BY <1>4, <2>1, <2>2, <2>3 DEF Holds
<1> QED BY <1>4, <1>6, Zenon DEF r

(* A block inserted before another. *)
LEMMA InsertedHolds ==
  ASSUME NEW S, NEW s \in Seq(S), NEW i \in 1..Len(s), NEW e \in S
  PROVE  /\ InsertAt(s, i, e) \in Seq(S)
         /\ Len(InsertAt(s, i, e)) = Len(s) + 1
         /\ \A x : Holds(InsertAt(s, i, e), x) <=> Holds(s, x) \/ x = e
<1> DEFINE r == InsertAt(s, i, e)
<1>1. Len(s) \in Nat /\ i \in 1..(Len(s) + 1)
  OBVIOUS
<1>2. r \in Seq(S) /\ IsInsertion(r, s, i, e)
  BY <1>1, InsertAtFacts
<1> HIDE DEF r
<1>3. /\ Len(r) = Len(s) + 1
      /\ \A j \in 1..(i-1) : r[j] = s[j]
      /\ r[i] = e
      /\ \A j \in (i+1)..(Len(s)+1) : r[j] = s[j-1]
  BY <1>2 DEF IsInsertion
<1>4. ASSUME NEW j \in 1..Len(r) PROVE Holds(s, r[j]) \/ r[j] = e
  <2>1. \/ j \in 1..(i-1) /\ j \in 1..Len(s)
        \/ j = i
        \/ j \in (i+1)..(Len(s)+1) /\ j - 1 \in 1..Len(s)
    BY <1>1, <1>3
  <2> QED BY <1>3, <2>1 DEF Holds
<1>5. Holds(r, e)
  BY <1>1, <1>3 DEF Holds
<1>6. ASSUME NEW j \in 1..Len(s) PROVE Holds(r, s[j])
  <2>1. CASE j \in 1..(i-1)
    BY <1>1, <1>3, <2>1 DEF Holds
  <2>2. CASE j \notin 1..(i-1)
    <3>1. j + 1 \in (i+1)..(Len(s)+1) /\ (j + 1) - 1 = j /\ j + 1 \in 1..(Len(s) + 1)
      BY <1>1, <2>2
    <3>2. r[j + 1] = s[j]
      BY <3>1, <1>3
    <3> QED BY <3>1, <3>2, <1>3 DEF Holds
  <2> QED BY <2>1, <2>2
<1>7. \A x : Holds(r, x) <=> Holds(s, x) \/ x = e
  BY <1>4, <1>5, <1>6, Zenon DEF Holds
<1> QED BY <1>2, <1>3, <1>7 DEF r

(* The elements of a list but for the first. *)
LEMMA TailHolds ==
  ASSUME NEW S, NEW s \in Seq(S), s # <<>>
  PROVE  /\ Tail(s) \in Seq(S) /\ Head(s) \in S
         /\ \A x : Holds(s, x) <=> Holds(Tail(s), x) \/ x = Head(s)
         /\ Distinct(s) => Distinct(Tail(s)) /\ ~Holds(Tail(s), Head(s))
<1>1. /\ Tail(s) \in Seq(S) /\ Head(s) \in S /\ Head(s) = s[1]
      /\ Len(s) \in Nat /\ Len(s) >= 1 /\ Len(Tail(s)) = Len(s) - 1
      /\ \A k \in 1..(Len(s) - 1) : Tail(s)[k] = s[k + 1]
  OBVIOUS
<1>2. \A k \in 1..(Len(s) - 1) : k + 1 \in 1..Len(s) /\ k + 1 # 1
  BY <1>1
<1>3. \A k \in 1..Len(s) : k = 1 \/ (k - 1 \in 1..(Len(s) - 1) /\ (k - 1) + 1 = k)
  BY <1>1
<1>4. 1 \in 1..Len(s)
  BY <1>1
<1>5. \A k, l \in 1..(Len(s) - 1) : k + 1 = l + 1 => k = l
  BY <1>1
<1>6. ASSUME NEW k \in 1..Len(s) PROVE Holds(Tail(s), s[k]) \/ s[k] = Head(s)
  <2>1. CASE k = 1
    BY <1>1, <2>1
  <2>2. CASE k # 1
    <3>1. k - 1 \in 1..(Len(s) - 1) /\ (k - 1) + 1 = k
      BY <1>3, <2>2
    <3>2. Tail(s)[k - 1] = s[k]
      BY <1>1, <3>1
    <3> QED BY <1>1, <3>1, <3>2 DEF Holds
  <2> QED BY <2>1, <2>2
<1>7. ASSUME NEW k \in 1..Len(Tail(s)) PROVE Holds(s, Tail(s)[k])
  BY <1>1, <1>2 DEF Holds
<1>8. Holds(s, Head(s))
  BY <1>1, <1>4 DEF Holds
<1>9. \A x : Holds(s, x) <=> Holds(Tail(s), x) \/ x = Head(s)
  BY <1>6, <1>7, <1>8, Zenon DEF Holds
<1>10. ASSUME Distinct(s) PROVE Distinct(Tail(s)) /\ ~Holds(Tail(s), Head(s))
  <2>1. \A k, l \in 1..(Len(s) - 1) : s[k + 1] = s[l + 1] => k + 1 = l + 1
    BY <1>2, <1>10 DEF Distinct
  <2>2. \A k \in 1..(Len(s) - 1) : s[k + 1] # s[1]
    BY <1>2, <1>4, <1>10 DEF Distinct
  <2>3. Distinct(Tail(s))
    BY <1>1, <1>5, <2>1 DEF Distinct
  <2>4. ~Holds(Tail(s), Head(s))
    BY <1>1, <2>2 DEF Holds
  <2> QED BY <2>3, <2>4
<1> QED BY <1>1, <1>9, <1>10
-----------------------------------------------------------------------------
(* The graph, by its edges. *)

LEMMA PredForm ==
  ASSUME NEW edges \in Seq(Ids \X Ids), NEW b, NEW p
  PROVE  p \in {edges[i][1] : i \in {j \in 1..Len(edges) : edges[j][2] = b}} <=> Holds(edges, <<p, b>>)
<1>1. \A i \in 1..Len(edges) : edges[i] = <<edges[i][1], edges[i][2]>>
  BY ElementOfSeq
<1>2. ASSUME NEW i \in 1..Len(edges), edges[i][2] = b, edges[i][1] = p PROVE Holds(edges, <<p, b>>)
  BY <1>1, <1>2 DEF Holds
<1>3. ASSUME NEW i \in 1..Len(edges), edges[i] = <<p, b>> PROVE edges[i][2] = b /\ edges[i][1] = p
  BY <1>3
<1> QED BY <1>2, <1>3 DEF Holds

LEMMA GraphForm ==
  ASSUME NEW bbs \in Seq(Ids), NEW edges \in Seq(Ids \X Ids), NEW tos, GraphOK(bbs, edges, tos)
  PROVE  /\ {edges[i] : i \in 1..Len(edges)}
              = UNION {{<<b, tos[b][i]>> : i \in 1..Len(tos[b])} : b \in {bbs[i] : i \in 1..Len(bbs)}}
         /\ \A b \in {bbs[i] : i \in 1..Len(bbs)} : \A i \in 1..Len(tos[b]) :
              tos[b][i] \in {bbs[k] : k \in 1..Len(bbs)}
<1>1. \A i \in 1..Len(edges) : edges[i] = <<edges[i][1], edges[i][2]>>
  BY ElementOfSeq
<1> DEFINE B == {bbs[i] : i \in 1..Len(bbs)}
           E == {edges[i] : i \in 1..Len(edges)}
           U == UNION {{<<b, tos[b][i]>> : i \in 1..Len(tos[b])} : b \in B}
<1>2. \A x : x \in B <=> Holds(bbs, x)
  BY DEF Holds
<1>3. \A x : x \in E <=> Holds(edges, x)
  BY DEF Holds
<1>4. \A x : x \in U <=> \E b \in B : \E i \in 1..Len(tos[b]) : x = <<b, tos[b][i]>>
  OBVIOUS
<1>5. \A b : \A i \in 1..Len(tos[b]) : Holds(tos[b], tos[b][i])
  BY DEF Holds
<1> HIDE DEF B, E, U
<1>6. ASSUME NEW x \in E PROVE x \in U
  <2>1. PICK i \in 1..Len(edges) : edges[i] = x
    BY <1>3, <1>6 DEF Holds
  <2>2. Holds(edges, <<x[1], x[2]>>) /\ x = <<x[1], x[2]>>
    BY <1>1, <2>1 DEF Holds
  <2>3. Holds(bbs, x[1]) /\ Holds(tos[x[1]], x[2])
    BY <2>2 DEF GraphOK
  <2>4. PICK k \in 1..Len(tos[x[1]]) : tos[x[1]][k] = x[2]
    BY <2>3 DEF Holds
  <2> QED BY <1>2, <1>4, <2>2, <2>3, <2>4
<1>7. ASSUME NEW x \in U PROVE x \in E
  <2>1. PICK b \in B : \E i \in 1..Len(tos[b]) : x = <<b, tos[b][i]>>
    BY <1>4, <1>7
  <2>2. PICK i \in 1..Len(tos[b]) : x = <<b, tos[b][i]>>
    BY <2>1
  <2>3. Holds(edges, <<b, tos[b][i]>>)
    BY <1>2, <1>5 DEF GraphOK
  <2> QED BY <1>3, <2>2, <2>3
<1>8. E = U
  BY <1>6, <1>7
<1>9. \A b \in B : \A i \in 1..Len(tos[b]) : tos[b][i] \in B
  BY <1>2, <1>5 DEF GraphOK
<1> QED BY <1>8, <1>9 DEF B, E, U

(* The blocks and the edges before and after nb splits the edge from -> t. *)
Gains(bbs2, bbs, nb) == \A x : Holds(bbs2, x) <=> Holds(bbs, x) \/ x = nb

SplitPair(edges, from, t, nb, a, c) ==
  \/ a = nb /\ c = t
  \/ Holds(edges, <<a, c>>) /\ ~(a = from /\ c = t)
  \/ a = from /\ c = nb

IsSplit(edges2, edges, from, t, nb) ==
  \A a, c : Holds(edges2, <<a, c>>) <=> SplitPair(edges, from, t, nb, a, c)

Fresh(edges, nb) == \A x : ~Holds(edges, <<x, nb>>) /\ ~Holds(edges, <<nb, x>>)

SplitOf(edges, from, t, nb) == << <<nb, t>> >> \o Replaced(edges, <<from, t>>, <<from, nb>>)

Rebranched(tos, from, t, nb) == [tos EXCEPT ![nb] = <<t>>, ![from] = Replaced(@, t, nb)]

(* An edge is split by a new block. *)
LEMMA SplitGraph ==
  ASSUME NEW bbs \in Seq(Ids), NEW edges \in Seq(Ids \X Ids), NEW tos \in [Ids -> Seq(Ids)],
         GraphOK(bbs, edges, tos),
         NEW from \in Ids, NEW t \in Ids, NEW nb \in Ids,
         Holds(edges, <<from, t>>), ~Holds(bbs, nb),
         NEW bbs2 \in Seq(Ids), Gains(bbs2, bbs, nb),
         NEW edges2, IsSplit(edges2, edges, from, t, nb)
  PROVE  GraphOK(bbs2, edges2, Rebranched(tos, from, t, nb))
<1> DEFINE tos2 == Rebranched(tos, from, t, nb)
<1>1. Holds(bbs, from) /\ Holds(tos[from], t) /\ Holds(bbs, t) /\ from # nb
  BY DEF GraphOK
<1>2. /\ tos2[nb] = <<t>>
      /\ tos2[from] = Replaced(tos[from], t, nb)
      /\ \A a \in Ids : a # nb /\ a # from => tos2[a] = tos[a]
  BY <1>1 DEF Rebranched
<1> HIDE DEF tos2
<1>3. \A c : Holds(tos2[nb], c) <=> c = t
  <2>1. Len(<<t>>) = 1 /\ <<t>>[1] = t /\ 1..1 = {1}
    OBVIOUS
  <2> QED BY <1>2, <2>1 DEF Holds
<1>4. \A c : Holds(tos2[from], c) <=> (Holds(tos[from], c) /\ c # t) \/ c = nb
  BY <1>1, <1>2, ReplacedHolds
<1>5. \A a : Holds(bbs2, a) => a \in Ids
  BY ElementOfSeq DEF Holds
<1>6. \A a, c : Holds(edges, <<a, c>>) <=> Holds(bbs, a) /\ Holds(tos[a], c)
  BY DEF GraphOK
<1>7. \A a, c : Holds(bbs, a) /\ Holds(tos[a], c) => Holds(bbs, c)
  BY DEF GraphOK
<1>8. \A a : Holds(bbs2, a) /\ a # nb /\ a # from => tos2[a] = tos[a]
  BY <1>2, <1>5, Zenon
<1>a. \A x : Holds(bbs2, x) <=> Holds(bbs, x) \/ x = nb
  BY DEF Gains
<1>b. \A a, c : Holds(edges2, <<a, c>>) <=> SplitPair(edges, from, t, nb, a, c)
  BY Zenon DEF IsSplit
<1>9. ASSUME NEW a, NEW c PROVE Holds(edges2, <<a, c>>) <=> Holds(bbs2, a) /\ Holds(tos2[a], c)
  <2>4. Holds(edges2, <<a, c>>) <=> \/ a = nb /\ c = t
                                    \/ Holds(edges, <<a, c>>) /\ ~(a = from /\ c = t)
                                    \/ a = from /\ c = nb
    BY <1>b, Zenon DEF SplitPair
  <2>5. Holds(edges, <<a, c>>) <=> Holds(bbs, a) /\ Holds(tos[a], c)
    BY <1>6, Zenon
  <2>6. Holds(bbs2, a) <=> Holds(bbs, a) \/ a = nb
    BY <1>a, Zenon
  <2>1. CASE a = nb
    <3>1. Holds(tos2[a], c) <=> c = t
      BY <1>3, <2>1, Zenon
    <3>2. ~Holds(bbs, a) /\ a # from
      BY <1>1, <2>1
    <3> QED BY <2>1, <2>4, <2>5, <2>6, <3>1, <3>2, Zenon
  <2>2. CASE a = from
    <3>1. Holds(tos2[a], c) <=> (Holds(tos[a], c) /\ c # t) \/ c = nb
      BY <1>4, <2>2, Zenon
    <3>2. Holds(bbs, a) /\ a # nb
      BY <1>1, <2>2
    <3> QED BY <2>2, <2>4, <2>5, <2>6, <3>1, <3>2, Zenon
  <2>3. CASE a # nb /\ a # from
    <3>1. Holds(bbs2, a) => tos2[a] = tos[a]
      BY <1>8, <2>3, Zenon
    <3> QED BY <2>3, <2>4, <2>5, <2>6, <3>1, Zenon
  <2> QED BY <2>1, <2>2, <2>3
<1>10. ASSUME NEW a, NEW c, Holds(bbs2, a), Holds(tos2[a], c) PROVE Holds(bbs2, c)
  <2>1. CASE a = nb
    BY <1>1, <1>3, <1>10, <1>a, <2>1, Zenon
  <2>2. CASE a = from
    BY <1>1, <1>4, <1>7, <1>10, <1>a, <2>2, Zenon
  <2>3. CASE a # nb /\ a # from
    BY <1>7, <1>8, <1>10, <1>a, <2>3, Zenon
  <2> QED BY <2>1, <2>2, <2>3
<1> QED BY <1>9, <1>10 DEF GraphOK, tos2

(* The PHIs of the target follow the edge that was split. *)
LEMMA SplitPhis ==
  ASSUME NEW bbs, NEW edges, NEW ph \in [Ids -> Seq([pred : Ids, orig : 1..NumBBs])],
         PhisOK(bbs, edges, ph),
         NEW from \in Ids, NEW t \in Ids, NEW nb \in Ids,
         Holds(edges, <<from, t>>), from # nb, t # nb, ph[nb] = <<>>,
         ~Holds(edges, <<nb, t>>), Holds(bbs, t),
         NEW bbs2 \in Seq(Ids), Gains(bbs2, bbs, nb),
         NEW edges2, IsSplit(edges2, edges, from, t, nb)
  PROVE  PhisOK(bbs2, edges2, [ph EXCEPT ![t] = PhiMoved(@, from, nb)])
<1> DEFINE ph2 == [ph EXCEPT ![t] = PhiMoved(@, from, nb)]
<1>1. \A b : Holds(bbs2, b) => b \in Ids
  BY ElementOfSeq DEF Holds
<1>2. ph2[t] = PhiMoved(ph[t], from, nb) /\ \A b \in Ids : b # t => ph2[b] = ph[b]
  OBVIOUS
<1> HIDE DEF ph2
<1>a. \A x : Holds(bbs2, x) <=> Holds(bbs, x) \/ x = nb
  BY DEF Gains
<1>b. \A a, c : Holds(edges2, <<a, c>>) <=> SplitPair(edges, from, t, nb, a, c)
  BY Zenon DEF IsSplit
<1>3. /\ Len(ph2[t]) = Len(ph[t])
      /\ \A i \in 1..Len(ph[t]) : ph2[t][i].pred = IF ph[t][i].pred = from THEN nb ELSE ph[t][i].pred
  BY <1>2 DEF PhiMoved
<1>4. ph2[t] # <<>> => ph[t] # <<>>
  BY <1>3
<1>5. \A p : Names(ph2[t], p) <=> (Names(ph[t], p) /\ p # from) \/ (p = nb /\ Names(ph[t], from))
  BY <1>3 DEF Names
<1>6. SUFFICES ASSUME NEW b, Holds(bbs2, b), ph2[b] # <<>>, NEW p
               PROVE  Names(ph2[b], p) <=> Holds(edges2, <<p, b>>)
  BY Zenon DEF PhisOK, ph2
<1>7. CASE b = t
  <2>1. \A q : Names(ph[t], q) <=> Holds(edges, <<q, t>>)
    BY <1>4, <1>6, <1>7, Zenon DEF PhisOK
  <2>2. Holds(edges2, <<p, t>>) <=> \/ p = nb
                                    \/ Holds(edges, <<p, t>>) /\ p # from
    <3>1. Holds(edges2, <<p, t>>) <=> SplitPair(edges, from, t, nb, p, t)
      BY <1>b, Zenon
    <3> QED BY <3>1, Zenon DEF SplitPair
  <2>3. Names(ph2[t], p) <=> (Names(ph[t], p) /\ p # from) \/ (p = nb /\ Names(ph[t], from))
    BY <1>5
  <2>4. Names(ph[t], p) <=> Holds(edges, <<p, t>>)
    BY <2>1, Zenon
  <2>5. Names(ph[t], from)
    BY <2>1, Zenon
  <2> QED BY <1>7, <2>2, <2>3, <2>4, <2>5, Zenon
<1>8. CASE b # t
  <2>1. ph2[b] = ph[b] /\ b # nb
    BY <1>1, <1>2, <1>6, <1>8, Zenon
  <2>2. \A q : Names(ph[b], q) <=> Holds(edges, <<q, b>>)
    BY <1>6, <1>a, <2>1, Zenon DEF PhisOK
  <2>3. Holds(edges2, <<p, b>>) <=> Holds(edges, <<p, b>>)
    <3>1. Holds(edges2, <<p, b>>) <=> \/ p = nb /\ b = t
                                      \/ Holds(edges, <<p, b>>) /\ ~(p = from /\ b = t)
                                      \/ p = from /\ b = nb
      BY <1>b, Zenon DEF SplitPair
    <3> QED BY <1>8, <2>1, <3>1, Zenon
  <2> QED BY <2>1, <2>2, <2>3, Zenon
<1> QED BY <1>7, <1>8

(* A block that no other branches to is destroyed with its edges. *)
LEMMA DestroyGraph ==
  ASSUME NEW bbs \in Seq(Ids), NEW edges \in Seq(Ids \X Ids), NEW tos,
         GraphOK(bbs, edges, tos), NEW b \in Ids,
         \A a : Holds(edges, <<a, b>>) => a = b
  PROVE  GraphOK(Without(bbs, b), Dropping(edges, ({b} \X Ids) \cup (Ids \X {b})), tos)
<1> DEFINE bbs2 == Without(bbs, b)
           edges2 == Dropping(edges, ({b} \X Ids) \cup (Ids \X {b}))
<1>1. \A x : Holds(bbs2, x) <=> Holds(bbs, x) /\ x # b
  BY WithoutHolds
<1>2. \A x : Holds(edges2, x) <=> Holds(edges, x) /\ x \notin ({b} \X Ids) \cup (Ids \X {b})
  BY DroppingHolds
<1> HIDE DEF bbs2, edges2
<1>3. \A e : Holds(edges, e) => e \in Ids \X Ids
  BY ElementOfSeq DEF Holds
<1>4. \A a, c \in Ids : <<a, c>> \notin ({b} \X Ids) \cup (Ids \X {b}) <=> a # b /\ c # b
  OBVIOUS
<1>5. \A a, c : Holds(edges2, <<a, c>>) <=> Holds(edges, <<a, c>>) /\ a # b /\ c # b
  <2> TAKE a, c
  <2>1. Holds(edges, <<a, c>>) => a \in Ids /\ c \in Ids
    BY <1>3
  <2>2. Holds(edges2, <<a, c>>) <=>
          Holds(edges, <<a, c>>) /\ <<a, c>> \notin ({b} \X Ids) \cup (Ids \X {b})
    BY <1>2, Zenon
  <2> QED BY <1>4, <2>1, <2>2, Zenon
<1>6. GraphOK(bbs2, edges2, tos)
  BY <1>1, <1>5, Zenon DEF GraphOK
<1> QED BY <1>6 DEF bbs2, edges2

(* A block is merged with the only one that branches to it. *)
LEMMA MergeGraph ==
  ASSUME NEW bbs \in Seq(Ids), NEW edges \in Seq(Ids \X Ids), NEW tos \in [Ids -> Seq(Ids)],
         GraphOK(bbs, edges, tos), NEW b \in Ids, NEW from \in Ids, from # b,
         Holds(edges, <<from, b>>), \A a : Holds(edges, <<a, b>>) => a = from,
         Len(tos[from]) = 1,
         NEW edges2, edges2 = FromMoved(Without(edges, <<from, b>>), b, from)
  PROVE  /\ edges2 \in Seq(Ids \X Ids)
         /\ GraphOK(Without(bbs, b), edges2, [tos EXCEPT ![from] = tos[b]])
<1> DEFINE rest == Without(edges, <<from, b>>)
           bbs2 == Without(bbs, b)
           tos2 == [tos EXCEPT ![from] = tos[b]]
<1>1. rest \in Seq(Ids \X Ids) /\ \A x : Holds(rest, x) <=> Holds(edges, x) /\ x # <<from, b>>
  BY WithoutHolds
<1>2. edges2 = FromMoved(rest, b, from)
  OBVIOUS
<1>3. \A x : Holds(bbs2, x) <=> Holds(bbs, x) /\ x # b
  BY WithoutHolds
<1>4. tos2[from] = tos[b] /\ \A a \in Ids : a # from => tos2[a] = tos[a]
  OBVIOUS
<1> HIDE DEF rest, bbs2, tos2
<1>5. /\ edges2 \in Seq(Ids \X Ids)
      /\ \A x, y : Holds(edges2, <<x, y>>) <=> \/ Holds(rest, <<x, y>>) /\ x # b
                                               \/ x = from /\ Holds(rest, <<b, y>>)
  <2>1. /\ FromMoved(rest, b, from) \in Seq(Ids \X Ids)
        /\ \A x, y : Holds(FromMoved(rest, b, from), <<x, y>>) <=>
                       \/ Holds(rest, <<x, y>>) /\ x # b
                       \/ x = from /\ Holds(rest, <<b, y>>)
    <3>1. rest \in Seq(Ids \X Ids) /\ from \in Ids
      BY <1>1, Zenon
    <3> QED BY <3>1, FromMovedHolds, ZenonT(60)
  <2> QED BY <1>2, <2>1, Zenon
<1>6. \A x, y : <<x, y>> # <<from, b>> <=> ~(x = from /\ y = b)
  OBVIOUS
<1>7. \A x, y : Holds(edges2, <<x, y>>) <=>
                  \/ Holds(edges, <<x, y>>) /\ ~(x = from /\ y = b) /\ x # b
                  \/ x = from /\ Holds(edges, <<b, y>>)
  BY <1>1, <1>5, <1>6, Zenon
<1>8. \A y : Holds(tos[from], y) => y = b
  <2>1. Holds(tos[from], b)
    BY DEF GraphOK
  <2>2. 1..Len(tos[from]) = {1}
    OBVIOUS
  <2> QED BY <2>1, <2>2 DEF Holds
<1>9. \A a : Holds(bbs, a) => a \in Ids
  BY ElementOfSeq DEF Holds
<1>10. \A a, c : Holds(edges, <<a, c>>) <=> Holds(bbs, a) /\ Holds(tos[a], c)
  BY DEF GraphOK
<1>11. \A a, c : Holds(bbs, a) /\ Holds(tos[a], c) => Holds(bbs, c)
  BY DEF GraphOK
<1>12. Holds(bbs, from) /\ Holds(bbs, b)
  BY <1>10, <1>11
<1>13. ASSUME NEW x, NEW y PROVE Holds(edges2, <<x, y>>) <=> Holds(bbs2, x) /\ Holds(tos2[x], y)
  <2>1. CASE x = from
    BY <1>3, <1>4, <1>7, <1>8, <1>10, <1>12, <2>1, Zenon
  <2>2. CASE x # from
    BY <1>3, <1>4, <1>7, <1>9, <1>10, <2>2, Zenon
  <2> QED BY <2>1, <2>2
<1>14. ASSUME NEW x, NEW y, Holds(bbs2, x), Holds(tos2[x], y) PROVE Holds(bbs2, y)
  <2>1. CASE x = from
    BY <1>3, <1>4, <1>10, <1>11, <1>12, <1>14, <2>1, Zenon
  <2>2. CASE x # from
    BY <1>3, <1>4, <1>9, <1>10, <1>11, <1>14, <2>2, Zenon
  <2> QED BY <2>1, <2>2
<1>15. GraphOK(bbs2, edges2, tos2)
  BY <1>13, <1>14, Zenon DEF GraphOK
<1> QED BY <1>5, <1>15 DEF bbs2, tos2

(* What branches to an empty block branches to its target. *)
LEMMA RemoveGraph ==
  ASSUME NEW bbs \in Seq(Ids), NEW edges \in Seq(Ids \X Ids), NEW tos \in [Ids -> Seq(Ids)],
         GraphOK(bbs, edges, tos), NEW b \in Ids, NEW nb \in Ids, nb # b, tos[b] = <<nb>>,
         NEW tos2, tos2 = [p \in Ids |-> IF Holds(edges, <<p, b>>) THEN Replaced(tos[p], b, nb) ELSE tos[p]],
         NEW edges2, edges2 = ToMoved(Without(edges, <<b, nb>>), b, nb)
  PROVE  /\ edges2 \in Seq(Ids \X Ids)
         /\ GraphOK(Without(bbs, b), edges2, tos2)
<1> DEFINE kept == Without(edges, <<b, nb>>)
           bbs2 == Without(bbs, b)
<1>1. kept \in Seq(Ids \X Ids) /\ \A x : Holds(kept, x) <=> Holds(edges, x) /\ x # <<b, nb>>
  BY WithoutHolds
<1>2. edges2 = ToMoved(kept, b, nb)
  OBVIOUS
<1>3. \A x : Holds(bbs2, x) <=> Holds(bbs, x) /\ x # b
  BY WithoutHolds
<1> HIDE DEF kept, bbs2
<1>4. /\ edges2 \in Seq(Ids \X Ids)
      /\ \A x, y : Holds(edges2, <<x, y>>) <=> \/ Holds(kept, <<x, y>>) /\ y # b
                                               \/ y = nb /\ Holds(kept, <<x, b>>)
  <2>1. /\ ToMoved(kept, b, nb) \in Seq(Ids \X Ids)
        /\ \A x, y : Holds(ToMoved(kept, b, nb), <<x, y>>) <=>
                       \/ Holds(kept, <<x, y>>) /\ y # b
                       \/ y = nb /\ Holds(kept, <<x, b>>)
    BY <1>1, ToMovedHolds, Zenon
  <2> QED BY <1>2, <2>1, Zenon
<1>5. \A x, y : <<x, y>> # <<b, nb>> <=> ~(x = b /\ y = nb)
  OBVIOUS
<1>6. \A x, y : Holds(edges2, <<x, y>>) <=>
                  \/ Holds(edges, <<x, y>>) /\ ~(x = b /\ y = nb) /\ y # b
                  \/ y = nb /\ Holds(edges, <<x, b>>)
  BY <1>1, <1>4, <1>5, Zenon
<1>7. \A y : Holds(tos[b], y) <=> y = nb
  BY DEF Holds
<1>8. \A a : Holds(bbs, a) => a \in Ids
  BY ElementOfSeq DEF Holds
<1>9. \A p \in Ids : /\ Holds(edges, <<p, b>>) => tos2[p] = Replaced(tos[p], b, nb)
                     /\ ~Holds(edges, <<p, b>>) => tos2[p] = tos[p]
  OBVIOUS
<1>10. \A p \in Ids : \A y : Holds(Replaced(tos[p], b, nb), y) <=>
                              (Holds(tos[p], y) /\ y # b) \/ (y = nb /\ Holds(tos[p], b))
  BY ReplacedHolds
<1>11. \A a, c : Holds(edges, <<a, c>>) <=> Holds(bbs, a) /\ Holds(tos[a], c)
  BY DEF GraphOK
<1>12. \A a, c : Holds(bbs, a) /\ Holds(tos[a], c) => Holds(bbs, c)
  BY DEF GraphOK
<1>13. ~Holds(edges, <<b, b>>)
  BY <1>7, <1>11
<1>14. ASSUME NEW x, NEW y, Holds(bbs, x)
       PROVE  Holds(tos2[x], y) <=> (Holds(tos[x], y) /\ y # b) \/ (y = nb /\ Holds(tos[x], b))
  <2>1. x \in Ids /\ (Holds(edges, <<x, b>>) <=> Holds(tos[x], b))
    BY <1>8, <1>11, <1>14, Zenon
  <2>2. CASE Holds(edges, <<x, b>>)
    <3>1. tos2[x] = Replaced(tos[x], b, nb)
      BY <1>9, <2>1, <2>2, Zenon
    <3>2. \A z : Holds(Replaced(tos[x], b, nb), z) <=>
                   (Holds(tos[x], z) /\ z # b) \/ (z = nb /\ Holds(tos[x], b))
      BY <1>10, <2>1, Zenon
    <3> QED BY <3>1, <3>2, Zenon
  <2>3. CASE ~Holds(edges, <<x, b>>)
    <3>1. tos2[x] = tos[x]
      BY <1>9, <2>1, <2>3, Zenon
    <3>2. ~Holds(tos[x], b)
      BY <2>1, <2>3, Zenon
    <3> QED BY <2>1, <2>3, <3>1, <3>2, Zenon
  <2> QED BY <2>2, <2>3
<1>15. ASSUME NEW x, NEW y PROVE Holds(edges2, <<x, y>>) <=> Holds(bbs2, x) /\ Holds(tos2[x], y)
  BY <1>3, <1>6, <1>7, <1>11, <1>13, <1>14, Zenon
<1>16. ASSUME NEW x, NEW y, Holds(bbs2, x), Holds(tos2[x], y) PROVE Holds(bbs2, y)
  <2>1. (Holds(tos[x], y) /\ y # b) \/ (y = nb /\ Holds(tos[x], b))
    BY <1>3, <1>14, <1>16, Zenon
  <2>2. CASE Holds(tos[x], y) /\ y # b
    BY <1>3, <1>12, <1>16, <2>2, Zenon
  <2>3. CASE y = nb /\ Holds(tos[x], b)
    BY <1>3, <1>7, <1>12, <1>16, <2>3, Zenon
  <2> QED BY <2>1, <2>2, <2>3
<1>17. GraphOK(bbs2, edges2, tos2)
  BY <1>15, <1>16, Zenon DEF GraphOK
<1> QED BY <1>4, <1>17 DEF bbs2
-----------------------------------------------------------------------------
(* The graph of the function as parsed. *)

LEMMA IdsFacts ==
  /\ NumBBs \in Nat /\ NumBBs >= 1 /\ MaxMulti \in Nat
  /\ Ids = 1..(NumBBs + 2 * MaxMulti)
  /\ 1..NumBBs \subseteq Ids
  /\ 1 \in 1..NumBBs
BY CfgAssumption DEF Ids

(* The targets of a branch are blocks, and there are two at most. *)
LEMMA TargetsFacts ==
  ASSUME NEW s \in Targets
  PROVE  /\ s \in Seq(1..NumBBs) /\ s \in Seq(Ids)
         /\ Len(s) \in 0..2
<1>1. 2..NumBBs \subseteq 1..NumBBs /\ 1..NumBBs \subseteq Ids
  BY IdsFacts
<1>2. CASE s = <<>>
  BY <1>2
<1>3. ASSUME NEW x \in 2..NumBBs, s = <<x>>
      PROVE  s \in Seq(1..NumBBs) /\ s \in Seq(Ids) /\ Len(s) \in 0..2
  <2>1. x \in 1..NumBBs /\ x \in Ids
    BY <1>1
  <2> QED BY <1>3, <2>1
<1>4. ASSUME NEW x \in 2..NumBBs, NEW y \in 2..NumBBs, s = <<x, y>>
      PROVE  s \in Seq(1..NumBBs) /\ s \in Seq(Ids) /\ Len(s) \in 0..2
  <2>1. x \in 1..NumBBs /\ x \in Ids /\ y \in 1..NumBBs /\ y \in Ids
    BY <1>1
  <2> QED BY <1>4, <2>1
<1>5. s = <<>> \/ (\E x \in 2..NumBBs : s = <<x>>) \/ (\E x, y \in 2..NumBBs : s = <<x, y>>)
  BY DEF Targets
<1> QED BY <1>2, <1>3, <1>4, <1>5

LEMMA EdgesOfFacts ==
  ASSUME NEW b \in 1..NumBBs, NEW s \in Targets
  PROVE  /\ EdgesOf(b, s) \in Seq(Ids \X Ids)
         /\ Distinct(EdgesOf(b, s))
         /\ \A e : Holds(EdgesOf(b, s), e) => e \in Ids \X Ids /\ e[1] = b
         /\ \A x, y : Holds(EdgesOf(b, s), <<x, y>>) <=> x = b /\ Holds(s, y)
<1>0. b \in Ids /\ s \in Seq(Ids) /\ Len(s) \in 0..2 /\ \A i \in 1..Len(s) : s[i] \in Ids
  BY IdsFacts, TargetsFacts, ElementOfSeq
<1>1. CASE Len(s) = 0
  <2>1. EdgesOf(b, s) = <<>>
    BY <1>1 DEF EdgesOf
  <2>2. Len(<<>>) = 0 /\ 1..0 = {} /\ <<>> \in Seq(Ids \X Ids)
    OBVIOUS
  <2>3. \A e : ~Holds(EdgesOf(b, s), e)
    BY <2>1, <2>2 DEF Holds
  <2>4. \A y : ~Holds(s, y)
    BY <1>1, <2>2 DEF Holds
  <2>5. Distinct(EdgesOf(b, s))
    BY <2>1, <2>2 DEF Distinct
  <2> QED BY <2>1, <2>2, <2>3, <2>4, <2>5
<1>2. CASE Len(s) = 1 \/ (Len(s) = 2 /\ s[1] = s[2])
  <2>1. EdgesOf(b, s) = << <<b, s[1]>> >>
    BY <1>2 DEF EdgesOf
  <2>2. s[1] \in Ids /\ \A y : Holds(s, y) <=> y = s[1]
    <3>1. \A i \in 1..Len(s) : s[i] = s[1]
      BY <1>0, <1>2
    <3>2. 1 \in 1..Len(s)
      BY <1>2
    <3> QED BY <1>0, <3>1, <3>2 DEF Holds
  <2>3. Len(<< <<b, s[1]>> >>) = 1 /\ << <<b, s[1]>> >>[1] = <<b, s[1]>> /\ 1..1 = {1}
    OBVIOUS
  <2>4. \A e : Holds(EdgesOf(b, s), e) <=> e = <<b, s[1]>>
    BY <2>1, <2>3, Zenon DEF Holds
  <2>5. Distinct(EdgesOf(b, s))
    BY <2>1, <2>3 DEF Distinct
  <2>6. <<b, s[1]>> \in Ids \X Ids /\ <<b, s[1]>>[1] = b
    BY <1>0, <2>2
  <2>7. EdgesOf(b, s) \in Seq(Ids \X Ids)
    BY <2>1, <2>6
  <2>8. \A e : Holds(EdgesOf(b, s), e) => e \in Ids \X Ids /\ e[1] = b
    BY <2>4, <2>6, Zenon
  <2>9. \A x, y : <<x, y>> = <<b, s[1]>> <=> x = b /\ y = s[1]
    OBVIOUS
  <2>10. \A x, y : Holds(EdgesOf(b, s), <<x, y>>) <=> x = b /\ Holds(s, y)
    BY <2>2, <2>4, <2>9, Zenon
  <2> QED BY <2>5, <2>7, <2>8, <2>10
<1>3. CASE Len(s) = 2 /\ s[1] # s[2]
  <2>1. EdgesOf(b, s) = << <<b, s[2]>>, <<b, s[1]>> >>
    BY <1>3 DEF EdgesOf
  <2>2. s[1] \in Ids /\ s[2] \in Ids /\ \A y : Holds(s, y) <=> y = s[1] \/ y = s[2]
    <3>1. 1..Len(s) = {1, 2}
      BY <1>3
    <3> QED BY <1>0, <3>1 DEF Holds
  <2> DEFINE r == << <<b, s[2]>>, <<b, s[1]>> >>
  <2>3. Len(r) = 2 /\ r[1] = <<b, s[2]>> /\ r[2] = <<b, s[1]>> /\ 1..2 = {1, 2}
    OBVIOUS
  <2>4. \A e : Holds(r, e) <=> e = <<b, s[1]>> \/ e = <<b, s[2]>>
    <3> HIDE DEF r
    <3> QED BY <2>3, Zenon DEF Holds
  <2>5. <<b, s[1]>> # <<b, s[2]>>
    BY <1>3
  <2>6. Distinct(r)
    <3> HIDE DEF r
    <3> QED BY <2>3, <2>5 DEF Distinct
  <2>7. /\ <<b, s[1]>> \in Ids \X Ids /\ <<b, s[1]>>[1] = b
        /\ <<b, s[2]>> \in Ids \X Ids /\ <<b, s[2]>>[1] = b
    BY <1>0, <2>2
  <2>8. r \in Seq(Ids \X Ids)
    BY <2>7
  <2> HIDE DEF r
  <2>9. \A e : Holds(r, e) => e \in Ids \X Ids /\ e[1] = b
    BY <2>4, <2>7, Zenon
  <2>10. \A x, y, z : <<x, y>> = <<b, z>> <=> x = b /\ y = z
    OBVIOUS
  <2>11. \A x, y : Holds(r, <<x, y>>) <=> x = b /\ Holds(s, y)
    BY <2>2, <2>4, <2>10, Zenon
  <2>12. EdgesOf(b, s) = r
    BY <2>1 DEF r
  <2> QED BY <2>6, <2>8, <2>9, <2>11, <2>12, Zenon
<1> QED BY <1>0, <1>1, <1>2, <1>3

(* construct_cfg lists each branch once. *)
LEMMA ConstructFacts ==
  ASSUME NEW t \in [1..NumBBs -> Targets]
  PROVE  /\ construct_cfg(t) \in Seq(Ids \X Ids)
         /\ Distinct(construct_cfg(t))
         /\ \A e : Holds(construct_cfg(t), e) => e[1] \in 1..NumBBs
         /\ \A x, y : Holds(construct_cfg(t), <<x, y>>) <=> x \in 1..NumBBs /\ Holds(t[x], y)
<1> DEFINE B(i) == NumBBs + 1 - i
           s == [i \in 1..NumBBs |-> EdgesOf(NumBBs + 1 - i, t[NumBBs + 1 - i])]
<1>0. NumBBs \in Nat
  BY IdsFacts
<1>1. \A i \in 1..NumBBs : B(i) \in 1..NumBBs /\ B(B(i)) = i
  BY <1>0
<1>2. \A i, j \in 1..NumBBs : B(i) = B(j) => i = j
  BY <1>0
<1>3. \A i \in 1..NumBBs : s[i] = EdgesOf(B(i), t[B(i)])
  OBVIOUS
<1>4. construct_cfg(t) = FlattenSeq(s)
  BY DEF construct_cfg
<1>5. \A i \in 1..NumBBs : EdgesOf(B(i), t[B(i)]) \in Seq(Ids \X Ids)
  BY <1>1, EdgesOfFacts
<1>6. s \in Seq(Seq(Ids \X Ids)) /\ Len(s) = NumBBs
  BY <1>0, <1>5
<1> HIDE DEF s, B
<1>7. \A i \in 1..NumBBs : /\ Distinct(s[i])
                           /\ \A e : Holds(s[i], e) => e \in Ids \X Ids /\ e[1] = B(i)
                           /\ \A x, y : Holds(s[i], <<x, y>>) <=> x = B(i) /\ Holds(t[B(i)], y)
  <2> TAKE i \in 1..NumBBs
  <2>1. B(i) \in 1..NumBBs /\ t[B(i)] \in Targets
    BY <1>1
  <2>2. s[i] = EdgesOf(B(i), t[B(i)])
    BY <1>3
  <2>3. /\ Distinct(EdgesOf(B(i), t[B(i)]))
        /\ \A e : Holds(EdgesOf(B(i), t[B(i)]), e) => e \in Ids \X Ids /\ e[1] = B(i)
        /\ \A x, y : Holds(EdgesOf(B(i), t[B(i)]), <<x, y>>) <=> x = B(i) /\ Holds(t[B(i)], y)
    <3>1. \A b \in 1..NumBBs : \A u \in Targets :
            /\ Distinct(EdgesOf(b, u))
            /\ \A e : Holds(EdgesOf(b, u), e) => e \in Ids \X Ids /\ e[1] = b
            /\ \A x, y : Holds(EdgesOf(b, u), <<x, y>>) <=> x = b /\ Holds(u, y)
      BY EdgesOfFacts, Zenon
    <3>2. \A u \in Targets :
            /\ Distinct(EdgesOf(B(i), u))
            /\ \A e : Holds(EdgesOf(B(i), u), e) => e \in Ids \X Ids /\ e[1] = B(i)
            /\ \A x, y : Holds(EdgesOf(B(i), u), <<x, y>>) <=> x = B(i) /\ Holds(u, y)
      BY <2>1, <3>1, ZenonT(30)
    <3> QED BY <2>1, <3>2, ZenonT(30)
  <2> QED BY <2>2, <2>3, Zenon
<1>8. ASSUME NEW i \in 1..Len(s), NEW j \in 1..Len(s), i # j, NEW e, Holds(s[i], e), Holds(s[j], e)
      PROVE  FALSE
  <2>1. e[1] = B(i) /\ e[1] = B(j)
    BY <1>6, <1>7, <1>8, Zenon
  <2>2. B(i) = B(j)
    BY <2>1, Zenon
  <2> QED BY <1>2, <1>6, <1>8, <2>2, Zenon
<1>9. Distinct(FlattenSeq(s))
  BY <1>6, <1>7, <1>8, FlattenDistinct
<1>10. /\ FlattenSeq(s) \in Seq(Ids \X Ids)
       /\ \A e : Holds(FlattenSeq(s), e) <=> \E i \in 1..Len(s) : Holds(s[i], e)
  BY <1>6, FlattenHolds
<1>11. \A e : Holds(FlattenSeq(s), e) => e[1] \in 1..NumBBs
  BY <1>1, <1>6, <1>7, <1>10
<1>12. ASSUME NEW x, NEW y PROVE Holds(FlattenSeq(s), <<x, y>>) <=> x \in 1..NumBBs /\ Holds(t[x], y)
  <2>1. ASSUME NEW i \in 1..NumBBs, Holds(s[i], <<x, y>>) PROVE x \in 1..NumBBs /\ Holds(t[x], y)
    BY <1>1, <1>7, <2>1, Zenon
  <2>2. ASSUME x \in 1..NumBBs, Holds(t[x], y) PROVE Holds(s[B(x)], <<x, y>>)
    <3>1. B(x) \in 1..NumBBs /\ B(B(x)) = x
      BY <1>1, <2>2, Zenon
    <3>2. Holds(s[B(x)], <<x, y>>) <=> x = B(B(x)) /\ Holds(t[B(B(x))], y)
      BY <1>7, <3>1, Zenon
    <3> QED BY <2>2, <3>1, <3>2, Zenon
  <2>3. x \in 1..NumBBs => B(x) \in 1..NumBBs
    BY <1>1
  <2> QED BY <1>6, <1>10, <2>1, <2>2, <2>3, Zenon
<1> QED BY <1>4, <1>9, <1>10, <1>11, <1>12, Zenon

LEMMA ConstantSeq ==
  ASSUME NEW S, NEW p \in S, NEW n \in Nat
  PROVE  /\ [i \in 1..n |-> p] \in Seq(S)
         /\ Len([i \in 1..n |-> p]) = n
         /\ \A k \in 1..n : [i \in 1..n |-> p][k] = p
OBVIOUS

(* Into lists the blocks that branch to b. *)
LEMMA IntoFacts ==
  ASSUME NEW t \in [1..NumBBs -> Targets], NEW b
  PROVE  /\ Into(t, b) \in Seq(1..NumBBs)
         /\ \A p : Holds(Into(t, b), p) <=> p \in 1..NumBBs /\ Holds(t[p], b)
<1> DEFINE K(p) == {k \in 1..Len(t[p]) : t[p][k] = b}
           c(p) == Cardinality(K(p))
           s == [p \in 1..NumBBs |-> [i \in 1..c(p) |-> p]]
<1>0. NumBBs \in Nat
  BY IdsFacts
<1>1. ASSUME NEW p \in 1..NumBBs PROVE c(p) \in Nat /\ (c(p) = 0 <=> ~Holds(t[p], b))
  <2>1. Len(t[p]) \in Nat
    BY TargetsFacts
  <2>2. IsFiniteSet(1..Len(t[p]))
    BY <2>1, FS_Interval
  <2>3. IsFiniteSet(K(p))
    BY <2>2, FS_Subset
  <2>4. c(p) \in Nat /\ (c(p) = 0 <=> K(p) = {})
    BY <2>3, FS_CardinalityType, FS_EmptySet
  <2>5. K(p) = {} <=> ~Holds(t[p], b)
    BY DEF Holds
  <2> QED BY <2>4, <2>5
<1>2. Into(t, b) = FlattenSeq(s)
  BY DEF Into
<1> HIDE DEF c
<1>3. \A p \in 1..NumBBs : /\ [i \in 1..c(p) |-> p] \in Seq(1..NumBBs)
                           /\ Len([i \in 1..c(p) |-> p]) = c(p)
                           /\ \A k \in 1..c(p) : [i \in 1..c(p) |-> p][k] = p
  BY <1>1, ConstantSeq, Zenon
<1>4. s \in Seq(Seq(1..NumBBs)) /\ Len(s) = NumBBs
  BY <1>0, <1>3
<1>5. \A p \in 1..NumBBs : s[p] = [i \in 1..c(p) |-> p]
  OBVIOUS
<1> HIDE DEF s
<1>6. ASSUME NEW p \in 1..NumBBs, NEW q PROVE Holds(s[p], q) <=> q = p /\ Holds(t[p], b)
  <2>1. c(p) \in Nat /\ (c(p) = 0 <=> ~Holds(t[p], b))
    BY <1>1
  <2>2. Len(s[p]) = c(p) /\ \A i \in 1..c(p) : s[p][i] = p
    BY <1>3, <1>5, Zenon
  <2>3. Holds(s[p], q) => q = p /\ c(p) # 0
    BY <2>1, <2>2 DEF Holds
  <2>4. c(p) # 0 => 1 \in 1..c(p)
    BY <2>1
  <2>5. q = p /\ c(p) # 0 => Holds(s[p], q)
    BY <2>2, <2>4 DEF Holds
  <2> QED BY <2>1, <2>3, <2>5
<1>7. /\ FlattenSeq(s) \in Seq(1..NumBBs)
      /\ \A p : Holds(FlattenSeq(s), p) <=> \E i \in 1..Len(s) : Holds(s[i], p)
  BY <1>4, FlattenHolds
<1>8. \A p : Holds(FlattenSeq(s), p) <=> p \in 1..NumBBs /\ Holds(t[p], b)
  BY <1>4, <1>6, <1>7
<1> QED BY <1>2, <1>7, <1>8
(* There are ids for every edge that construct_cfg lists and that can be   *)
(* split: they are edges of branches of two targets.                       *)
LEMMA PendingBound ==
  ASSUME NEW t \in [1..NumBBs -> Targets], Cardinality(Multi(t)) <= MaxMulti,
         NEW P, P = {e \in Ids \X Ids : Holds(construct_cfg(t), e) /\ Len(t[e[1]]) > 1}
  PROVE  IsFiniteSet(P) /\ Cardinality(P) \in Nat /\ Cardinality(P) <= 2 * MaxMulti
<1> DEFINE M == Multi(t)
           D == M \X (1..2)
           f == [m \in D |-> <<m[1], t[m[1]][m[2]]>>]
           Im == {f[m] : m \in D}
<1>1. IsFiniteSet(M) /\ Cardinality(M) \in Nat /\ Cardinality(M) <= MaxMulti /\ MaxMulti \in Nat
  <2>1. IsFiniteSet(1..NumBBs)
    BY IdsFacts, FS_Interval
  <2>2. M \in SUBSET (1..NumBBs)
    BY DEF Multi
  <2>3. IsFiniteSet(M)
    BY <2>1, <2>2, FS_Subset
  <2> QED BY <2>3, FS_CardinalityType, IdsFacts
<1>2. IsFiniteSet(1..2) /\ Cardinality(1..2) = 2
  <2>1. \A n \in Int : IsFiniteSet(1..n) /\ Cardinality(1..n) = IF 1 > n THEN 0 ELSE n - 1 + 1
    BY FS_Interval
  <2>2. \A n \in Int : n = 2 => (IF 1 > n THEN 0 ELSE n - 1 + 1) = 2
    OBVIOUS
  <2>3. \A n \in Int : n = 2 => IsFiniteSet(1..n) /\ Cardinality(1..n) = 2
    BY <2>1, <2>2, Zenon
  <2>4. 2 \in Int
    OBVIOUS
  <2> QED BY <2>3, <2>4, Zenon
<1>3. IsFiniteSet(D) /\ Cardinality(D) = Cardinality(M) * 2
  <2> HIDE DEF M
  <2> QED BY <1>1, <1>2, FS_Product
<1>4. f \in Surjection(D, Im)
  <2> HIDE DEF D
  <2> QED BY Zenon DEF Surjection
<1>5. \A m \in D : f[m] = <<m[1], t[m[1]][m[2]]>>
  OBVIOUS
<1> HIDE DEF D, f
<1>6. IsFiniteSet(Im) /\ Cardinality(Im) <= Cardinality(D)
  <2> HIDE DEF Im
  <2> QED BY <1>3, <1>4, FS_Surjection
<1>7. ASSUME NEW e \in P PROVE e \in Im
  <2>1. e \in Ids \X Ids /\ Holds(construct_cfg(t), e) /\ Len(t[e[1]]) > 1
    BY <1>7
  <2>2. e = <<e[1], e[2]>>
    BY <2>1
  <2>3. Holds(construct_cfg(t), <<e[1], e[2]>>)
    BY <2>1, <2>2, Zenon
  <2>4. e[1] \in 1..NumBBs /\ Holds(t[e[1]], e[2])
    BY <2>3, ConstructFacts, Zenon
  <2>5. e[1] \in M /\ Len(t[e[1]]) = 2
    <3>1. Len(t[e[1]]) \in 0..2
      BY <2>4, TargetsFacts
    <3> QED BY <2>1, <2>4, <3>1 DEF Multi
  <2>6. PICK k \in 1..2 : t[e[1]][k] = e[2]
    BY <2>4, <2>5 DEF Holds
  <2>7. <<e[1], k>> \in D /\ <<e[1], k>>[1] = e[1] /\ <<e[1], k>>[2] = k
    BY <2>5 DEF D
  <2>8. f[<<e[1], k>>] = e
    BY <1>5, <2>2, <2>6, <2>7
  <2> QED BY <2>7, <2>8, Zenon
<1>8. P \in SUBSET Im
  BY <1>7
<1> HIDE DEF Im, M
<1>9. IsFiniteSet(P) /\ Cardinality(P) <= Cardinality(Im)
  BY <1>6, <1>8, FS_Subset
<1>10. Cardinality(P) \in Nat /\ Cardinality(Im) \in Nat
  BY <1>6, <1>9, FS_CardinalityType
<1> QED BY <1>1, <1>3, <1>6, <1>9, <1>10

(* The function as parsed satisfies the invariant. *)
LEMMA CfgInit == Init => CfgInv
<1> SUFFICES ASSUME Init PROVE CfgInv
  OBVIOUS
<1>1. PICK t \in [1..NumBBs -> Targets], busy \in SUBSET (1..NumBBs),
           phis \in SUBSET (1..NumBBs), byval \in SUBSET (1..NumBBs) :
       /\ Admitted(t, busy, phis, byval)
       /\ prog = [to    |-> t,
                  body  |-> [b \in 1..NumBBs |-> IF b \in busy THEN << <<b, 0>> >> ELSE <<>>],
                  phis  |-> phis,
                  byval |-> byval]
       /\ to = [b \in Ids |-> IF b <= NumBBs THEN t[b] ELSE <<>>]
       /\ phi = [b \in Ids |-> IF b \in phis
                               THEN [i \in 1..Len(Into(t, b)) |->
                                       [pred |-> Into(t, b)[i], orig |-> Into(t, b)[i]]]
                               ELSE <<>>]
       /\ if_edges = construct_cfg(t)
  BY Zenon DEF Init
<1>2. /\ if_bbs = [i \in 1..NumBBs |-> i]
      /\ if_num_bbs = NumBBs
      /\ own = [b \in Ids |-> b]
      /\ body = [b \in Ids |-> IF b <= NumBBs THEN prog.body[b] ELSE <<>>]
      /\ todo = if_edges
      /\ killed = {}
      /\ phase = "critical"
  BY Zenon DEF Init
<1>3. /\ NumBBs \in Nat /\ NumBBs >= 1 /\ MaxMulti \in Nat
      /\ 1..NumBBs \subseteq Ids /\ NumBBs \in Ids
      /\ \A b \in Ids : b <= NumBBs => b \in 1..NumBBs
      /\ \A b \in 1..NumBBs : b <= NumBBs
  BY IdsFacts
<1>4. /\ prog.to = t /\ prog.phis = phis /\ prog.byval = byval
      /\ prog.body = [b \in 1..NumBBs |-> IF b \in busy THEN << <<b, 0>> >> ELSE <<>>]
  BY <1>1
<1>5. \A b \in 1..NumBBs : t[b] \in Seq(Ids) /\ t[b] \in Seq(1..NumBBs)
  BY TargetsFacts
<1>6. if_bbs \in Seq(1..NumBBs) /\ Len(if_bbs) = NumBBs /\ \A b : Holds(if_bbs, b) <=> b \in 1..NumBBs
  <2>1. if_bbs \in Seq(1..NumBBs) /\ Len(if_bbs) = NumBBs /\ \A i \in 1..NumBBs : if_bbs[i] = i
    BY <1>2, <1>3
  <2> QED BY <2>1 DEF Holds
<1>7. /\ if_edges \in Seq(Ids \X Ids) /\ Distinct(if_edges)
      /\ \A e : Holds(if_edges, e) => e[1] \in 1..NumBBs
      /\ \A x, y : Holds(if_edges, <<x, y>>) <=> x \in 1..NumBBs /\ Holds(t[x], y)
  <2>1. if_edges = construct_cfg(t)
    BY <1>1
  <2> QED BY <2>1, ConstructFacts, Zenon
<1>8. /\ to \in [Ids -> Seq(Ids)]
      /\ \A b \in 1..NumBBs : to[b] = t[b]
  <2>1. \A b \in Ids : (IF b <= NumBBs THEN t[b] ELSE <<>>) \in Seq(Ids)
    <3> TAKE b \in Ids
    <3>1. CASE b <= NumBBs
      BY <1>3, <1>5, <3>1
    <3>2. CASE ~(b <= NumBBs)
      BY <3>2
    <3> QED BY <3>1, <3>2
  <2>2. to = [b \in Ids |-> IF b <= NumBBs THEN t[b] ELSE <<>>]
    BY <1>1
  <2>3. \A b \in 1..NumBBs : b \in Ids /\ b <= NumBBs
    BY <1>3
  <2> QED BY <2>1, <2>2, <2>3
<1>9. GraphOK(if_bbs, if_edges, to)
  <2>1. \A a, c : Holds(if_edges, <<a, c>>) <=> Holds(if_bbs, a) /\ Holds(to[a], c)
    BY <1>6, <1>7, <1>8, Zenon
  <2>2. \A a \in 1..NumBBs : \A c : Holds(t[a], c) => c \in 1..NumBBs
    BY <1>5, ElementOfSeq DEF Holds
  <2>3. \A a, c : Holds(if_bbs, a) /\ Holds(to[a], c) => Holds(if_bbs, c)
    BY <1>6, <1>8, <2>2, Zenon
  <2> QED BY <2>1, <2>3 DEF GraphOK
<1>10. ASSUME NEW b \in Ids
       PROVE  /\ phi[b] \in Seq([pred : Ids, orig : 1..NumBBs])
              /\ phi[b] # <<>> => /\ b \in phis
                                  /\ Len(phi[b]) = Len(Into(t, b))
                                  /\ \A i \in 1..Len(phi[b]) : /\ phi[b][i].pred = Into(t, b)[i]
                                                               /\ phi[b][i].orig = Into(t, b)[i]
                                                               /\ Into(t, b)[i] \in 1..NumBBs
  <2> DEFINE s == Into(t, b)
             r == [i \in 1..Len(s) |-> [pred |-> s[i], orig |-> s[i]]]
  <2>1. phi[b] = IF b \in phis THEN r ELSE <<>>
    BY <1>1
  <2>2. s \in Seq(1..NumBBs)
    BY IntoFacts
  <2> HIDE DEF s
  <2>3. Len(s) \in Nat /\ \A i \in 1..Len(s) : s[i] \in 1..NumBBs /\ s[i] \in Ids
    BY <1>3, <2>2, ElementOfSeq
  <2>4. \A i \in 1..Len(s) : [pred |-> s[i], orig |-> s[i]] \in [pred : Ids, orig : 1..NumBBs]
    BY <2>3
  <2>5. r \in Seq([pred : Ids, orig : 1..NumBBs]) /\ Len(r) = Len(s)
    BY <2>3, <2>4
  <2>6. \A i \in 1..Len(s) : r[i].pred = s[i] /\ r[i].orig = s[i]
    OBVIOUS
  <2> HIDE DEF r
  <2>7. CASE b \in phis
    <3>1. phi[b] = r
      BY <2>1, <2>7
    <3> QED BY <2>3, <2>5, <2>6, <2>7, <3>1 DEF s
  <2>8. CASE b \notin phis
    <3>1. phi[b] = <<>>
      BY <2>1, <2>8
    <3> QED BY <3>1
  <2> QED BY <2>7, <2>8
<1>11. EntriesParsed
  <2>1. \A x \in 1..NumBBs : x <= if_num_bbs
    BY <1>2, <1>3
  <2> QED BY <1>4, <1>10, <2>1 DEF EntriesParsed
<1>12. PhisOK(if_bbs, if_edges, phi)
  <2>1. SUFFICES ASSUME NEW b, Holds(if_bbs, b), phi[b] # <<>>, NEW p
                 PROVE  Names(phi[b], p) <=> Holds(if_edges, <<p, b>>)
    BY Zenon DEF PhisOK
  <2>2. b \in Ids
    BY <1>3, <1>6, <2>1
  <2>3. Len(phi[b]) = Len(Into(t, b)) /\ \A i \in 1..Len(phi[b]) : phi[b][i].pred = Into(t, b)[i]
    BY <1>10, <2>1, <2>2
  <2>4. Names(phi[b], p) <=> Holds(Into(t, b), p)
    BY <2>3 DEF Names, Holds
  <2>5. Holds(Into(t, b), p) <=> p \in 1..NumBBs /\ Holds(t[p], b)
    BY IntoFacts
  <2>6. Holds(if_edges, <<p, b>>) <=> p \in 1..NumBBs /\ Holds(t[p], b)
    BY <1>7, Zenon
  <2> QED BY <2>4, <2>5, <2>6, Zenon
<1>13. ProgOK
  BY <1>4 DEF ProgOK
<1>14. EdgesListed
  <2>1. Cardinality(Multi(t)) <= MaxMulti
    BY <1>1 DEF Admitted
  <2>2. Pending(todo) = {e \in Ids \X Ids : Holds(construct_cfg(t), e) /\ Len(t[e[1]]) > 1}
    BY <1>1, <1>2, <1>4, Zenon DEF Pending
  <2>3. /\ IsFiniteSet(Pending(todo)) /\ Cardinality(Pending(todo)) \in Nat
        /\ Cardinality(Pending(todo)) <= 2 * MaxMulti
    BY <2>1, <2>2, PendingBound
  <2>4. \A b \in 1..NumBBs : Len(to[b]) = Len(prog.to[b])
    BY <1>4, <1>8
  <2>5. if_num_bbs + Cardinality(Pending(todo)) <= NumBBs + 2 * MaxMulti
    BY <1>2, <1>3, <2>3
  <2>6. Distinct(todo) /\ \A e : Holds(todo, e) => e[1] \in 1..NumBBs /\ Holds(if_edges, e)
    BY <1>2, <1>7, Zenon
  <2> QED BY <1>7, <2>3, <2>4, <2>5, <2>6 DEF EdgesListed
<1>15. TypeOK
  <2>1. \A b \in 1..NumBBs : prog.body[b] \in Seq((1..NumBBs) \X (0..NumBBs))
    <3> TAKE b \in 1..NumBBs
    <3>1. <<b, 0>> \in (1..NumBBs) \X (0..NumBBs)
      BY <1>3
    <3>2. << <<b, 0>> >> \in Seq((1..NumBBs) \X (0..NumBBs)) /\ <<>> \in Seq((1..NumBBs) \X (0..NumBBs))
      BY <3>1
    <3>3. prog.body[b] = IF b \in busy THEN << <<b, 0>> >> ELSE <<>>
      BY <1>4
    <3> QED BY <3>2, <3>3
  <2>2. body \in [Ids -> Seq((1..NumBBs) \X (0..NumBBs))]
    <3>1. \A b \in Ids : (IF b <= NumBBs THEN prog.body[b] ELSE <<>>) \in Seq((1..NumBBs) \X (0..NumBBs))
      BY <1>3, <2>1
    <3> QED BY <1>2, <3>1
  <2>3. phi \in [Ids -> Seq([pred : Ids, orig : 1..NumBBs])]
    <3>1. phi = [b \in Ids |-> phi[b]]
      BY <1>1
    <3> QED BY <1>10, <3>1
  <2>4. own \in [Ids -> Ids]
    BY <1>2
  <2>5. if_bbs \in Seq(1..if_num_bbs) /\ if_num_bbs \in Ids
    BY <1>2, <1>3, <1>6
  <2>6. todo \in IF phase = "critical" THEN Seq(Ids \X Ids) ELSE Seq(Ids)
    BY <1>2, <1>7
  <2>7. killed \subseteq (1..NumBBs) \X (1..NumBBs) /\ phase \in Passes \cup Failures \cup {"done"}
    BY <1>2 DEF Passes
  <2> QED BY <1>7, <1>8, <2>2, <2>3, <2>4, <2>5, <2>6, <2>7 DEF TypeOK
<1>16. if_bbs # <<>>
  BY <1>3, <1>6
<1>17. PhisLeft /\ Reasons
  BY <1>2 DEF PhisLeft, Reasons
<1> QED BY <1>2, <1>3, <1>9, <1>11, <1>12, <1>13, <1>14, <1>15, <1>16, <1>17 DEF CfgInv
-----------------------------------------------------------------------------
(* Steps that change nothing but the list of what is to be visited and the *)
(* phase.                                                                  *)

Later == {"dead", "coalesce", "empty", "abort", "spinning", "done"}

LEMMA FrameKeeps ==
  ASSUME CfgInv,
         UNCHANGED <<prog, if_bbs, if_num_bbs, to, own, body, phi, if_edges, killed>>,
         phase' \in Passes \cup Failures \cup {"done"},
         todo' \in IF phase' = "critical" THEN Seq(Ids \X Ids) ELSE Seq(Ids),
         PhisLeft', Reasons',
         phase' = "critical" => EdgesListed',
         phase' \in {"critical", "ssa"} => phase \in {"critical", "ssa"}
  PROVE  CfgInv'
<1>1. TypeOK'
  BY DEF CfgInv, TypeOK
<1>2. GraphOK(if_bbs, if_edges, to)' /\ PhisOK(if_bbs, if_edges, phi)'
  BY DEF CfgInv, GraphOK, PhisOK
<1>3. ProgOK' /\ EntriesParsed'
  BY DEF CfgInv, ProgOK, EntriesParsed
<1>4. if_num_bbs' >= NumBBs /\ (phase' \in {"critical", "ssa"} => if_bbs' # <<>>)
  BY DEF CfgInv
<1> QED BY <1>1, <1>2, <1>3, <1>4 DEF CfgInv

(* What a visit takes off the list. *)
LEMMA VisitTail ==
  ASSUME CfgInv, todo # <<>>, todo' = Tail(todo), phase # "critical", phase' # "critical"
  PROVE  /\ todo' \in IF phase' = "critical" THEN Seq(Ids \X Ids) ELSE Seq(Ids)
         /\ Head(todo) \in Ids
         /\ \A x : Holds(todo, x) <=> Holds(todo', x) \/ x = Head(todo)
<1>1. todo \in Seq(Ids)
  BY DEF CfgInv, TypeOK
<1>2. /\ Tail(todo) \in Seq(Ids) /\ Head(todo) \in Ids
      /\ \A x : Holds(todo, x) <=> Holds(Tail(todo), x) \/ x = Head(todo)
  BY <1>1, TailHolds
<1> QED BY <1>2

LEMMA PendingTail ==
  ASSUME NEW s \in Seq(Ids \X Ids), s # <<>>, Distinct(s), IsFiniteSet(Pending(s))
  PROVE  /\ IsFiniteSet(Pending(Tail(s)))
         /\ Cardinality(Pending(s)) \in Nat
         /\ Cardinality(Pending(Tail(s))) \in Nat
         /\ Cardinality(Pending(Tail(s))) <= Cardinality(Pending(s))
         /\ Head(s) \in Pending(s) => Cardinality(Pending(Tail(s))) + 1 = Cardinality(Pending(s))
<1>1. /\ \A x : Holds(s, x) <=> Holds(Tail(s), x) \/ x = Head(s)
      /\ ~Holds(Tail(s), Head(s))
  BY TailHolds
<1>2. Pending(Tail(s)) = Pending(s) \ {Head(s)}
  BY <1>1 DEF Pending
<1>3. /\ IsFiniteSet(Pending(s) \ {Head(s)})
      /\ Cardinality(Pending(s) \ {Head(s)}) =
           IF Head(s) \in Pending(s) THEN Cardinality(Pending(s)) - 1 ELSE Cardinality(Pending(s))
  BY FS_RemoveElement
<1>4. Cardinality(Pending(s)) \in Nat /\ Cardinality(Pending(s) \ {Head(s)}) \in Nat
  BY <1>3, FS_CardinalityType
<1> DEFINE n == Cardinality(Pending(s))  m == Cardinality(Pending(Tail(s)))
<1>5. /\ n \in Nat /\ m \in Nat
      /\ m = IF Head(s) \in Pending(s) THEN n - 1 ELSE n
  BY <1>2, <1>3, <1>4, Zenon
<1>6. IsFiniteSet(Pending(Tail(s)))
  BY <1>2, <1>3, Zenon
<1> HIDE DEF n, m
<1>7. m <= n /\ (Head(s) \in Pending(s) => m + 1 = n)
  BY <1>5
<1> QED BY <1>5, <1>6, <1>7, Zenon DEF n, m

LEMMA KeepEdgeKeeps ==
  ASSUME CfgInv, KeepEdge
  PROVE  CfgInv'
<1>1. /\ phase = "critical" /\ todo # <<>> /\ todo' = Tail(todo) /\ phase' = phase
      /\ UNCHANGED <<prog, if_bbs, if_num_bbs, to, own, body, phi, if_edges, killed>>
  BY DEF KeepEdge, Visit, Skip
<1>2. todo \in Seq(Ids \X Ids) /\ EdgesListed
  BY <1>1 DEF CfgInv, TypeOK
<1>3. /\ todo' \in Seq(Ids \X Ids) /\ Distinct(todo')
      /\ \A x : Holds(todo, x) <=> Holds(todo', x) \/ x = Head(todo)
  BY <1>1, <1>2, TailHolds DEF EdgesListed
<1>4. /\ IsFiniteSet(Pending(Tail(todo))) /\ Cardinality(Pending(todo)) \in Nat
      /\ Cardinality(Pending(Tail(todo))) \in Nat
      /\ Cardinality(Pending(Tail(todo))) <= Cardinality(Pending(todo))
  BY <1>1, <1>2, PendingTail DEF EdgesListed
<1>5. Pending(todo)' = Pending(Tail(todo))
  BY <1>1, Zenon DEF Pending
<1>6. if_num_bbs' + Cardinality(Pending(todo)') <= NumBBs + 2 * MaxMulti
  <2>1. if_num_bbs \in Int
    BY IdsFacts DEF CfgInv, TypeOK
  <2> QED BY <1>1, <1>2, <1>4, <1>5, <2>1, IdsFacts DEF EdgesListed
<1>7. EdgesListed'
  <2>1. \A e : Holds(todo', e) => e[1] \in 1..NumBBs /\ Holds(if_edges', e)
    BY <1>1, <1>2, <1>3, Zenon DEF EdgesListed
  <2>2. \A b \in 1..NumBBs : Len(to'[b]) = Len(prog'.to[b])
    BY <1>1, <1>2 DEF EdgesListed
  <2>3. Distinct(if_edges') /\ IsFiniteSet(Pending(todo)')
    BY <1>1, <1>2, <1>4, <1>5 DEF EdgesListed
  <2> QED BY <1>3, <1>6, <2>1, <2>2, <2>3 DEF EdgesListed
<1>8. PhisLeft' /\ Reasons'
  BY <1>1 DEF PhisLeft, Reasons
<1> QED BY <1>1, <1>3, <1>7, <1>8, FrameKeeps DEF Passes

LEMMA StartSsaKeeps ==
  ASSUME CfgInv, StartSsa
  PROVE  CfgInv'
<1>1. /\ phase = "critical" /\ phase' = "ssa" /\ todo' = if_bbs
      /\ UNCHANGED <<prog, if_bbs, if_num_bbs, to, own, body, phi, if_edges, killed>>
  BY DEF StartSsa, Start
<1>2. if_bbs \in Seq(Ids)
  <2>1. if_bbs \in Seq(1..if_num_bbs) /\ if_num_bbs \in Ids
    BY DEF CfgInv, TypeOK
  <2>2. 1..if_num_bbs \subseteq Ids
    BY <2>1, IdsFacts
  <2>3. \A i \in 1..Len(if_bbs) : if_bbs[i] \in Ids
    BY <2>1, <2>2, ElementOfSeq
  <2> QED BY <2>1, <2>3
<1>3. PhisLeft' /\ Reasons'
  BY <1>1 DEF PhisLeft, Reasons
<1> QED BY <1>1, <1>2, <1>3, FrameKeeps DEF Passes

(* exit_ssa_edge refuses two entries for one edge: there were two in the   *)
(* function as parsed.                                                     *)
LEMMA MultiplePhiEntriesKeeps ==
  ASSUME CfgInv, MultiplePhiEntries
  PROVE  CfgInv'
<1>1. /\ phase = "ssa" /\ todo # <<>> /\ phase' = "error"
      /\ UNCHANGED <<prog, if_bbs, if_num_bbs, to, own, body, phi, if_edges, killed, todo>>
  BY DEF MultiplePhiEntries, Visit, Fail
<1>2. PICK p \in Preds(Head(todo)) : Cardinality(EntriesFor(Head(todo), p)) > 1
  BY DEF MultiplePhiEntries
<1> DEFINE b == Head(todo)
<1>3. todo \in Seq(Ids) /\ b \in Ids
  <2>1. todo \in Seq(Ids)
    BY <1>1 DEF CfgInv, TypeOK
  <2> QED BY <1>1, <2>1, TailHolds
<1> HIDE DEF b
<1>4. PICK i \in EntriesFor(b, p), j \in EntriesFor(b, p) : i # j
  <2>1. SUFFICES ASSUME \A i, j \in EntriesFor(b, p) : i = j PROVE FALSE
    OBVIOUS
  <2>2. CASE EntriesFor(b, p) = {}
    BY <1>2, <2>2, FS_EmptySet DEF b
  <2>3. CASE EntriesFor(b, p) # {}
    <3>1. PICK i : EntriesFor(b, p) = {i}
      BY <2>1, <2>3
    <3>2. Cardinality({i}) = 1
      BY FS_Singleton
    <3> QED BY <1>2, <3>1, <3>2 DEF b
  <2> QED BY <2>2, <2>3
<1>5. i \in 1..Len(phi[b]) /\ j \in 1..Len(phi[b]) /\ phi[b][i].pred = phi[b][j].pred
  BY DEF EntriesFor
<1>6. phi[b] # <<>>
  BY <1>5
<1>7. /\ b \in prog.phis /\ Len(phi[b]) = Len(Into(prog.to, b))
      /\ Into(prog.to, b)[i] = Into(prog.to, b)[j]
  <2>1. EntriesParsed
    BY DEF CfgInv
  <2>2. b \in prog.phis /\ Len(phi[b]) = Len(Into(prog.to, b))
    BY <1>3, <1>6, <2>1 DEF EntriesParsed
  <2>3. phi[b][i].orig = Into(prog.to, b)[i] /\ phi[b][j].orig = Into(prog.to, b)[j]
    BY <1>3, <1>5, <1>6, <2>1 DEF EntriesParsed
  <2>4. phi[b][i].orig = phi[b][j].orig
    BY <1>3, <1>5, <1>6, <2>1 DEF EntriesParsed
  <2> QED BY <2>2, <2>3, <2>4
<1>8. ~IsInjective(Into(prog.to, b))
  <2>1. prog.to \in [1..NumBBs -> Targets]
    BY DEF CfgInv, ProgOK
  <2>2. Into(prog.to, b) \in Seq(1..NumBBs)
    BY <2>1, IntoFacts
  <2>3. DOMAIN Into(prog.to, b) = 1..Len(Into(prog.to, b))
    BY <2>2
  <2> QED BY <1>4, <1>5, <1>7, <2>3 DEF IsInjective
<1>9. HasPhiTwice
  BY <1>7, <1>8 DEF HasPhiTwice
<1>10. HasPhiTwice'
  BY <1>1, <1>9, Zenon DEF HasPhiTwice
<1>11. PhisLeft' /\ Reasons'
  BY <1>1, <1>10 DEF PhisLeft, Reasons
<1> QED BY <1>1, <1>3, <1>11, FrameKeeps DEF Failures

LEMMA StartDeadKeeps ==
  ASSUME CfgInv, StartDead
  PROVE  CfgInv'
<1>1. /\ phase = "ssa" /\ todo = <<>> /\ phase' = "dead" /\ todo' = Tail(if_bbs)
      /\ UNCHANGED <<prog, if_bbs, if_num_bbs, to, own, body, phi, if_edges, killed>>
  BY DEF StartDead, Start
<1>2. todo' \in Seq(Ids)
  <2>1. if_bbs \in Seq(1..if_num_bbs) /\ if_num_bbs \in Ids /\ if_bbs # <<>>
    BY <1>1 DEF CfgInv, TypeOK
  <2>2. 1..if_num_bbs \subseteq Ids
    BY <2>1, IdsFacts
  <2>3. \A i \in 1..Len(if_bbs) : if_bbs[i] \in Ids
    BY <2>1, <2>2, ElementOfSeq
  <2>4. if_bbs \in Seq(Ids)
    BY <2>1, <2>3
  <2> QED BY <1>1, <2>1, <2>4
<1>3. \A b : Holds(if_bbs, b) => phi[b] = <<>>
  <2>1. Len(<<>>) = 0 /\ 1..0 = {}
    OBVIOUS
  <2>2. \A b : ~Holds(todo, b)
    BY <1>1, <2>1 DEF Holds
  <2>3. PhisLeft
    BY DEF CfgInv
  <2> QED BY <1>1, <2>2, <2>3 DEF PhisLeft
<1>4. PhisLeft' /\ Reasons'
  BY <1>1, <1>3 DEF PhisLeft, Reasons
<1> QED BY <1>1, <1>2, <1>4, FrameKeeps DEF Passes

(* Once the PHIs are gone, a step that leaves the blocks alone. *)
LEMMA LaterFrame ==
  ASSUME CfgInv, phase \in Later, phase' \in Later, phase' = "abort" => prog.byval # {},
         UNCHANGED <<prog, if_bbs, if_num_bbs, to, own, body, phi, if_edges, killed>>,
         todo' \in Seq(Ids)
  PROVE  CfgInv'
<1>1. phase' # "critical" /\ phase' # "ssa" /\ phase' # "error"
  BY DEF Later
<1>2. PhisLeft'
  BY <1>1 DEF CfgInv, PhisLeft, Later
<1>3. Reasons'
  BY <1>1 DEF Reasons
<1>4. phase' \in Passes \cup Failures \cup {"done"}
  BY DEF Later, Passes, Failures
<1> QED BY <1>1, <1>2, <1>3, <1>4, FrameKeeps

LEMMA LaterSkipKeeps ==
  ASSUME CfgInv, \/ KeepBlock \/ StartCoalesce \/ KeepNonEmpty \/ Finish
  PROVE  CfgInv'
<1>1. ASSUME phase \in {"dead", "empty"}, todo # <<>>, Skip PROVE CfgInv'
  <2>1. /\ todo' = Tail(todo) /\ phase' = phase
        /\ UNCHANGED <<prog, if_bbs, if_num_bbs, to, own, body, phi, if_edges, killed>>
    BY <1>1 DEF Skip
  <2>2. todo' \in Seq(Ids)
    BY <1>1, <2>1, VisitTail
  <2> QED BY <1>1, <2>1, <2>2, LaterFrame DEF Later
<1>2. ASSUME NEW pass \in {"coalesce", "done"}, phase \in {"dead", "empty"}, Start(pass, <<>>) PROVE CfgInv'
  <2>1. /\ todo' = <<>> /\ phase' = pass
        /\ UNCHANGED <<prog, if_bbs, if_num_bbs, to, own, body, phi, if_edges, killed>>
    BY <1>2 DEF Start
  <2>2. todo' \in Seq(Ids)
    BY <2>1
  <2> QED BY <1>2, <2>1, <2>2, LaterFrame DEF Later
<1>3. CASE KeepBlock
  BY <1>1, <1>3 DEF KeepBlock, Visit
<1>4. CASE StartCoalesce
  BY <1>2, <1>4 DEF StartCoalesce
<1>5. CASE KeepNonEmpty
  BY <1>1, <1>5 DEF KeepNonEmpty, Visit
<1>6. CASE Finish
  BY <1>2, <1>6 DEF Finish
<1> QED BY <1>3, <1>4, <1>5, <1>6

LEMMA UnableToTransformKeeps ==
  ASSUME CfgInv, UnableToTransform
  PROVE  CfgInv'
<1>1. /\ phase = "empty" /\ phase' = "abort" /\ todo' = todo
      /\ UNCHANGED <<prog, if_bbs, if_num_bbs, to, own, body, phi, if_edges, killed>>
  BY DEF UnableToTransform, Visit, Fail
<1>2. prog.byval # {}
  BY DEF UnableToTransform, Unchangeable
<1>3. todo \in Seq(Ids)
  BY <1>1 DEF CfgInv, TypeOK
<1> QED BY <1>1, <1>2, <1>3, LaterFrame DEF Later
-----------------------------------------------------------------------------
(* The passes that run once the PHIs are gone. *)

LEMMA LaterStep ==
  ASSUME CfgInv, phase \in Later, phase' \in Later \ {"abort"},
         UNCHANGED <<prog, if_num_bbs, phi>>,
         if_bbs' \in Seq(1..if_num_bbs),
         \A x : Holds(if_bbs', x) => Holds(if_bbs, x),
         to' \in [Ids -> Seq(Ids)],
         own' \in [Ids -> Ids],
         body' \in [Ids -> Seq((1..NumBBs) \X (0..NumBBs))],
         if_edges' \in Seq(Ids \X Ids),
         killed' \subseteq (1..NumBBs) \X (1..NumBBs),
         todo' \in Seq(Ids),
         GraphOK(if_bbs, if_edges, to)'
  PROVE  CfgInv'
<1>1. phase' # "critical" /\ phase' # "ssa" /\ phase' # "error" /\ phase' # "abort"
  BY DEF Later
<1>2. phase' \in Passes \cup Failures \cup {"done"}
  BY DEF Later, Passes, Failures
<1>3. TypeOK'
  BY <1>1, <1>2 DEF CfgInv, TypeOK
<1>4. \A b : Holds(if_bbs', b) => phi'[b] = <<>>
  BY DEF CfgInv, PhisLeft, Later
<1>5. PhisOK(if_bbs, if_edges, phi)'
  BY <1>4, Zenon DEF PhisOK
<1>6. PhisLeft' /\ Reasons'
  BY <1>1, <1>4 DEF PhisLeft, Reasons
<1>7. ProgOK' /\ EntriesParsed' /\ if_num_bbs' >= NumBBs
  BY DEF CfgInv, ProgOK, EntriesParsed
<1> QED BY <1>1, <1>3, <1>5, <1>6, <1>7 DEF CfgInv

(* The types the passes start from. *)
LEMMA Typed ==
  ASSUME CfgInv
  PROVE  /\ if_bbs \in Seq(1..if_num_bbs) /\ if_bbs \in Seq(Ids)
         /\ if_num_bbs \in Ids /\ if_num_bbs \in Nat /\ NumBBs <= if_num_bbs
         /\ to \in [Ids -> Seq(Ids)]
         /\ own \in [Ids -> Ids]
         /\ body \in [Ids -> Seq((1..NumBBs) \X (0..NumBBs))]
         /\ phi \in [Ids -> Seq([pred : Ids, orig : 1..NumBBs])]
         /\ if_edges \in Seq(Ids \X Ids)
         /\ killed \subseteq (1..NumBBs) \X (1..NumBBs)
         /\ phase = "critical" => todo \in Seq(Ids \X Ids)
         /\ phase # "critical" => todo \in Seq(Ids)
         /\ GraphOK(if_bbs, if_edges, to)
<1>1. TypeOK /\ GraphOK(if_bbs, if_edges, to) /\ if_num_bbs >= NumBBs
  BY DEF CfgInv
<1>2. if_bbs \in Seq(1..if_num_bbs) /\ if_num_bbs \in Ids
  BY <1>1 DEF TypeOK
<1>3. 1..if_num_bbs \subseteq Ids /\ if_num_bbs \in Nat
  BY <1>2, IdsFacts
<1>4. \A i \in 1..Len(if_bbs) : if_bbs[i] \in Ids
  BY <1>2, <1>3, ElementOfSeq
<1>5. if_bbs \in Seq(Ids)
  BY <1>2, <1>4
<1> QED BY <1>1, <1>2, <1>3, <1>5, IdsFacts DEF TypeOK

LEMMA DestroyKeeps ==
  ASSUME CfgInv, phase = "dead", phase' = "dead", todo # <<>>, todo' = Tail(todo),
         \A a : Holds(if_edges, <<a, Head(todo)>>) => a = Head(todo),
         if_bbs' = Without(if_bbs, Head(todo)), if_edges' = Destroyed(Head(todo)),
         UNCHANGED <<prog, if_num_bbs, to, own, body, phi, killed>>
  PROVE  CfgInv'
<1> DEFINE b == Head(todo)
<1>1. b \in Ids /\ todo' \in Seq(Ids)
  BY VisitTail
<1>2. if_bbs' = Without(if_bbs, b) /\ if_edges' = Dropping(if_edges, ({b} \X Ids) \cup (Ids \X {b}))
  BY DEF Destroyed
<1>3. \A a : Holds(if_edges, <<a, b>>) => a = b
  OBVIOUS
<1> HIDE DEF b
<1>4. /\ if_bbs \in Seq(1..if_num_bbs) /\ if_bbs \in Seq(Ids) /\ if_edges \in Seq(Ids \X Ids)
      /\ to \in [Ids -> Seq(Ids)] /\ own \in [Ids -> Ids]
      /\ body \in [Ids -> Seq((1..NumBBs) \X (0..NumBBs))]
      /\ killed \subseteq (1..NumBBs) \X (1..NumBBs)
      /\ GraphOK(if_bbs, if_edges, to)
  BY Typed
<1>5. if_bbs' \in Seq(1..if_num_bbs) /\ \A x : Holds(if_bbs', x) => Holds(if_bbs, x)
  BY <1>2, <1>4, WithoutHolds
<1>6. if_edges' \in Seq(Ids \X Ids)
  BY <1>2, <1>4, DroppingHolds
<1>7. GraphOK(Without(if_bbs, b), Dropping(if_edges, ({b} \X Ids) \cup (Ids \X {b})), to)
  BY <1>1, <1>3, <1>4, DestroyGraph
<1>8. GraphOK(if_bbs, if_edges, to)'
  BY <1>2, <1>7, Zenon
<1> QED BY <1>1, <1>4, <1>5, <1>6, <1>8, LaterStep DEF Later

LEMMA DestroyUnreachableKeeps ==
  ASSUME CfgInv, DestroyUnreachable
  PROVE  CfgInv'
<1>1. /\ phase = "dead" /\ phase' = "dead" /\ todo # <<>> /\ todo' = Tail(todo)
      /\ In(Head(todo)) = {}
      /\ if_bbs' = Without(if_bbs, Head(todo)) /\ if_edges' = Destroyed(Head(todo))
      /\ UNCHANGED <<prog, if_num_bbs, to, own, body, phi, killed>>
  BY DEF DestroyUnreachable, Visit
<1>2. ASSUME NEW a, Holds(if_edges, <<a, Head(todo)>>) PROVE FALSE
  <2>1. PICK i \in 1..Len(if_edges) : if_edges[i] = <<a, Head(todo)>>
    BY <1>2 DEF Holds
  <2>2. if_edges[i][2] = Head(todo)
    BY <2>1
  <2>3. i \in In(Head(todo))
    BY <2>2 DEF In
  <2> QED BY <1>1, <2>3
<1> QED BY <1>1, <1>2, DestroyKeeps

(* The blocks that branch to a block. *)
LEMMA PredsForm ==
  ASSUME CfgInv, NEW b, NEW p
  PROVE  p \in Preds(b) <=> Holds(if_edges, <<p, b>>)
<1>1. if_edges \in Seq(Ids \X Ids)
  BY Typed
<1>2. Preds(b) = {if_edges[i][1] : i \in {j \in 1..Len(if_edges) : if_edges[j][2] = b}}
  BY DEF Preds, In
<1> QED BY <1>1, <1>2, PredForm, Zenon

(* A block with one edge into it has one predecessor. *)
LEMMA OnlyPred ==
  ASSUME CfgInv, NEW b, Cardinality(In(b)) = 1
  PROVE  \E p \in Ids : Preds(b) = {p}
<1>1. IsFiniteSet(In(b))
  <2>1. Len(if_edges) \in Nat
    BY Typed
  <2>2. IsFiniteSet(1..Len(if_edges))
    BY <2>1, FS_Interval
  <2> QED BY <2>2, FS_Subset DEF In
<1>2. PICK i : In(b) = {i}
  BY <1>1, FS_Singleton
<1>3. i \in 1..Len(if_edges)
  BY <1>2 DEF In
<1>4. Preds(b) = {if_edges[i][1]}
  BY <1>2 DEF Preds
<1>5. if_edges[i] \in Ids \X Ids
  BY <1>3, Typed, ElementOfSeq
<1> QED BY <1>4, <1>5

LEMMA MergeKeeps ==
  ASSUME CfgInv, Merge
  PROVE  CfgInv'
<1> DEFINE b == Head(todo)
           from == CHOOSE p \in Preds(b) : TRUE
<1>1. /\ phase = "dead" /\ phase' = "dead" /\ todo # <<>> /\ todo' = Tail(todo)
      /\ Mergeable(b) /\ b \notin Preds(b)
      /\ UNCHANGED <<prog, if_num_bbs, phi, killed>>
  BY DEF Merge, Visit
<1>2. /\ if_bbs' = Without(if_bbs, b)
      /\ body' = [body EXCEPT ![from] = @ \o body[b]]
      /\ to' = [to EXCEPT ![from] = to[b]]
      /\ own' = [own EXCEPT ![from] = own[b]]
      /\ if_edges' = FromMoved(Without(if_edges, <<from, b>>), b, from)
  BY DEF Merge
<1>3. b \in Ids /\ todo' \in Seq(Ids)
  BY <1>1, VisitTail
<1> HIDE DEF b
<1>4. PICK p \in Ids : Preds(b) = {p}
  BY <1>1, OnlyPred DEF Mergeable
<1>5. from = p /\ Len(to[p]) = 1 /\ p # b
  BY <1>1, <1>4 DEF Mergeable
<1> HIDE DEF from
<1>6. Holds(if_edges, <<p, b>>) /\ \A a : Holds(if_edges, <<a, b>>) => a = p
  BY <1>4, PredsForm
<1>7. /\ if_bbs \in Seq(1..if_num_bbs) /\ if_bbs \in Seq(Ids) /\ if_edges \in Seq(Ids \X Ids)
      /\ to \in [Ids -> Seq(Ids)] /\ own \in [Ids -> Ids]
      /\ body \in [Ids -> Seq((1..NumBBs) \X (0..NumBBs))]
      /\ killed \subseteq (1..NumBBs) \X (1..NumBBs)
      /\ GraphOK(if_bbs, if_edges, to)
  BY Typed
<1>8. if_bbs' \in Seq(1..if_num_bbs) /\ \A x : Holds(if_bbs', x) => Holds(if_bbs, x)
  BY <1>2, <1>7, WithoutHolds
<1>9. /\ to' = [to EXCEPT ![p] = to[b]]
      /\ if_edges' = FromMoved(Without(if_edges, <<p, b>>), b, p)
  BY <1>2, <1>5, Zenon
<1>10. /\ if_edges' \in Seq(Ids \X Ids)
       /\ GraphOK(Without(if_bbs, b), if_edges', [to EXCEPT ![p] = to[b]])
  BY <1>3, <1>5, <1>6, <1>7, <1>9, MergeGraph
<1>11. GraphOK(if_bbs, if_edges, to)'
  BY <1>2, <1>9, <1>10, Zenon
<1>12. to' \in [Ids -> Seq(Ids)] /\ own' \in [Ids -> Ids]
  BY <1>2, <1>3, <1>5, <1>7
<1>13. body' \in [Ids -> Seq((1..NumBBs) \X (0..NumBBs))]
  <2>1. body[p] \o body[b] \in Seq((1..NumBBs) \X (0..NumBBs))
    BY <1>3, <1>7
  <2> QED BY <1>2, <1>5, <1>7, <2>1
<1> QED BY <1>1, <1>3, <1>7, <1>8, <1>10, <1>11, <1>12, <1>13, LaterStep DEF Later

LEMMA MergeWithItselfKeeps ==
  ASSUME CfgInv, MergeWithItself
  PROVE  CfgInv'
<1>1. phase = "dead" /\ todo # <<>> /\ Mergeable(Head(todo)) /\ Head(todo) \in Preds(Head(todo))
  BY DEF MergeWithItself, Visit
<1>2. CASE Fail("spinning")
  <2>1. /\ phase' = "spinning" /\ todo' = todo
        /\ UNCHANGED <<prog, if_bbs, if_num_bbs, to, own, body, phi, if_edges, killed>>
    BY <1>2 DEF Fail
  <2>2. todo \in Seq(Ids)
    BY <1>1, Typed
  <2> QED BY <1>1, <2>1, <2>2, LaterFrame DEF Later
<1>3. CASE ~Fail("spinning")
  <2>1. /\ phase' = "dead" /\ todo' = Tail(todo)
        /\ if_bbs' = Without(if_bbs, Head(todo)) /\ if_edges' = Destroyed(Head(todo))
        /\ UNCHANGED <<prog, if_num_bbs, to, own, body, phi, killed>>
    BY <1>1, <1>3 DEF MergeWithItself
  <2>2. PICK p \in Ids : Preds(Head(todo)) = {p}
    BY <1>1, OnlyPred DEF Mergeable
  <2>3. \A a : Holds(if_edges, <<a, Head(todo)>>) => a = Head(todo)
    BY <1>1, <2>2, PredsForm
  <2> QED BY <1>1, <2>1, <2>3, DestroyKeeps
<1> QED BY <1>2, <1>3

LEMMA CoalesceKeeps ==
  ASSUME CfgInv, NEW ms \in SUBSET Moves, coalesce(ms)
  PROVE  CfgInv'
<1>1. /\ phase = "coalesce" /\ phase' = "empty" /\ todo' = if_bbs /\ killed' = ms
      /\ body' = [b \in Ids |-> Dropping(body[b], ms)]
      /\ UNCHANGED <<prog, if_bbs, if_num_bbs, to, own, phi, if_edges>>
  BY DEF coalesce
<1>2. /\ if_bbs \in Seq(1..if_num_bbs) /\ if_bbs \in Seq(Ids) /\ if_edges \in Seq(Ids \X Ids)
      /\ to \in [Ids -> Seq(Ids)] /\ own \in [Ids -> Ids]
      /\ body \in [Ids -> Seq((1..NumBBs) \X (0..NumBBs))]
      /\ GraphOK(if_bbs, if_edges, to)
  BY Typed
<1>3. killed' \subseteq (1..NumBBs) \X (1..NumBBs)
  <2>1. prog.phis \subseteq 1..NumBBs
    BY DEF CfgInv, ProgOK
  <2>2. Moves \subseteq (1..NumBBs) \X (1..NumBBs)
    BY <2>1 DEF Moves
  <2> QED BY <1>1, <2>2
<1>4. body' \in [Ids -> Seq((1..NumBBs) \X (0..NumBBs))]
  <2>1. \A b \in Ids : Dropping(body[b], ms) \in Seq((1..NumBBs) \X (0..NumBBs))
    BY <1>2, DroppingHolds
  <2> QED BY <1>1, <2>1
<1>5. GraphOK(if_bbs, if_edges, to)'
  BY <1>1, <1>2, Zenon
<1> QED BY <1>1, <1>2, <1>3, <1>4, <1>5, LaterStep DEF Later

LEMMA RemoveEmptyKeeps ==
  ASSUME CfgInv, RemoveEmpty
  PROVE  CfgInv'
<1> DEFINE b == Head(todo)
           nb == to[b][1]
<1>1. /\ phase = "empty" /\ phase' = "empty" /\ todo # <<>> /\ todo' = Tail(todo)
      /\ Empty(b)
      /\ UNCHANGED <<prog, if_num_bbs, own, body, phi, killed>>
  BY DEF RemoveEmpty, Visit
<1>2. /\ to' = [p \in Ids |-> IF p \in Preds(b) THEN bb_change_branch(to[p], b, nb) ELSE to[p]]
      /\ if_edges' = ToMoved(Without(if_edges, <<b, nb>>), b, nb)
      /\ if_bbs' = Without(if_bbs, b)
  BY DEF RemoveEmpty
<1>3. b \in Ids /\ todo' \in Seq(Ids)
  BY <1>1, VisitTail
<1> HIDE DEF b
<1>4. /\ if_bbs \in Seq(1..if_num_bbs) /\ if_bbs \in Seq(Ids) /\ if_edges \in Seq(Ids \X Ids)
      /\ to \in [Ids -> Seq(Ids)] /\ own \in [Ids -> Ids]
      /\ body \in [Ids -> Seq((1..NumBBs) \X (0..NumBBs))]
      /\ killed \subseteq (1..NumBBs) \X (1..NumBBs)
      /\ GraphOK(if_bbs, if_edges, to)
  BY Typed
<1>5. to[b] \in Seq(Ids) /\ Len(to[b]) = 1 /\ to[b] # <<b>>
  BY <1>1, <1>3, <1>4 DEF Empty
<1>6. nb \in Ids /\ to[b] = <<nb>> /\ nb # b
  BY <1>5
<1> HIDE DEF nb
<1>7. to' = [p \in Ids |-> IF Holds(if_edges, <<p, b>>) THEN Replaced(to[p], b, nb) ELSE to[p]]
  <2>1. \A p \in Ids : p \in Preds(b) <=> Holds(if_edges, <<p, b>>)
    BY PredsForm
  <2>2. to' = [p \in Ids |-> IF p \in Preds(b) THEN Replaced(to[p], b, nb) ELSE to[p]]
    BY <1>2, Zenon DEF bb_change_branch
  <2> QED BY <2>1, <2>2
<1>8. /\ if_edges' \in Seq(Ids \X Ids)
      /\ GraphOK(Without(if_bbs, b), if_edges', to')
  BY <1>2, <1>3, <1>4, <1>6, <1>7, RemoveGraph
<1>9. GraphOK(if_bbs, if_edges, to)'
  BY <1>2, <1>8, Zenon
<1>10. if_bbs' \in Seq(1..if_num_bbs) /\ \A x : Holds(if_bbs', x) => Holds(if_bbs, x)
  BY <1>2, <1>4, WithoutHolds
<1>11. to' \in [Ids -> Seq(Ids)]
  <2>1. \A p \in Ids : Replaced(to[p], b, nb) \in Seq(Ids) /\ to[p] \in Seq(Ids)
    BY <1>4, <1>6, ReplacedHolds
  <2> QED BY <1>7, <2>1
<1> QED BY <1>1, <1>3, <1>4, <1>8, <1>9, <1>10, <1>11, LaterStep DEF Later
-----------------------------------------------------------------------------
(* exit_ssa and break_crtitical_edges *)

LEMMA ExitSsaKeeps ==
  ASSUME CfgInv, exit_ssa_bb
  PROVE  CfgInv'
<1> DEFINE b == Head(todo)
<1>1. /\ phase = "ssa" /\ phase' = "ssa" /\ todo # <<>> /\ todo' = Tail(todo)
      /\ UNCHANGED <<prog, if_bbs, if_num_bbs, to, own, if_edges, killed>>
  BY DEF exit_ssa_bb, Visit
<1>2. /\ body' = [p \in Ids |->
                    IF p \in Preds(b) /\ EntriesFor(b, p) # {}
                    THEN LET i == CHOOSE j \in EntriesFor(b, p) : TRUE
                         IN  Append(body[p], <<phi[b][i].orig, b>>)
                    ELSE body[p]]
      /\ phi' = [phi EXCEPT ![b] = <<>>]
  BY DEF exit_ssa_bb
<1>3. /\ b \in Ids /\ todo' \in Seq(Ids)
      /\ \A x : Holds(todo, x) <=> Holds(todo', x) \/ x = b
  BY <1>1, VisitTail
<1> HIDE DEF b
<1>4. /\ body \in [Ids -> Seq((1..NumBBs) \X (0..NumBBs))]
      /\ phi \in [Ids -> Seq([pred : Ids, orig : 1..NumBBs])]
  BY Typed
<1>5. phi' \in [Ids -> Seq([pred : Ids, orig : 1..NumBBs])]
  <2> DEFINE R == Seq([pred : Ids, orig : 1..NumBBs])
  <2>1. <<>> \in R
    OBVIOUS
  <2> HIDE DEF R
  <2>2. phi \in [Ids -> R]
    BY <1>4 DEF R
  <2>3. phi' \in [Ids -> R]
    BY <1>2, <1>3, <2>1, <2>2
  <2> QED BY <2>3 DEF R
<1>6. phi'[b] = <<>> /\ \A c \in Ids : c # b => phi'[c] = phi[c]
  BY <1>2, <1>3, <1>4
<1>7. body' \in [Ids -> Seq((1..NumBBs) \X (0..NumBBs))]
  <2> DEFINE E(p) == IF p \in Preds(b) /\ EntriesFor(b, p) # {}
                     THEN LET i == CHOOSE j \in EntriesFor(b, p) : TRUE
                          IN  Append(body[p], <<phi[b][i].orig, b>>)
                     ELSE body[p]
  <2>1. ASSUME NEW p \in Ids PROVE E(p) \in Seq((1..NumBBs) \X (0..NumBBs))
    <3>1. CASE p \in Preds(b) /\ EntriesFor(b, p) # {}
      <4> DEFINE i == CHOOSE j \in EntriesFor(b, p) : TRUE
      <4>1. i \in EntriesFor(b, p)
        BY <3>1
      <4> HIDE DEF i
      <4>2. i \in 1..Len(phi[b])
        BY <4>1 DEF EntriesFor
      <4>a. phi[b] \in Seq([pred : Ids, orig : 1..NumBBs])
        BY <1>3, <1>4
      <4>b. phi[b][i] \in [pred : Ids, orig : 1..NumBBs]
        BY <4>2, <4>a, ElementOfSeq, Zenon
      <4>3. phi[b] # <<>> /\ phi[b][i].orig \in 1..NumBBs
        BY <4>2, <4>b
      <4>4. b \in 1..NumBBs
        BY <1>3, <4>3 DEF CfgInv, EntriesParsed, ProgOK
      <4>5. b \in 0..NumBBs
        BY <4>4, IdsFacts
      <4>6. <<phi[b][i].orig, b>> \in (1..NumBBs) \X (0..NumBBs)
        BY <4>3, <4>5
      <4>7. Append(body[p], <<phi[b][i].orig, b>>) \in Seq((1..NumBBs) \X (0..NumBBs))
        BY <1>4, <4>6
      <4>8. E(p) = Append(body[p], <<phi[b][i].orig, b>>)
        BY <3>1, Zenon DEF i
      <4> QED BY <4>7, <4>8, Zenon
    <3>2. CASE ~(p \in Preds(b) /\ EntriesFor(b, p) # {})
      <4>1. E(p) = body[p]
        BY <3>2, Zenon
      <4> HIDE DEF E
      <4> QED BY <1>4, <4>1
    <3> QED BY <3>1, <3>2, Zenon
  <2>2. body' = [p \in Ids |-> E(p)]
    BY <1>2, Zenon
  <2> HIDE DEF E
  <2> QED BY <2>1, <2>2
<1>8. TypeOK'
  BY <1>1, <1>3, <1>5, <1>7 DEF CfgInv, TypeOK
<1>9. GraphOK(if_bbs, if_edges, to)'
  BY <1>1 DEF CfgInv, GraphOK
<1>10. \A c : Holds(if_bbs, c) => c \in Ids
  BY Typed, ElementOfSeq DEF Holds
<1>11. \A c : Holds(if_bbs, c) /\ phi'[c] # <<>> => c # b /\ phi'[c] = phi[c]
  BY <1>6, <1>10
<1>12. PhisOK(if_bbs, if_edges, phi)'
  <2>1. SUFFICES ASSUME NEW c, Holds(if_bbs, c), phi'[c] # <<>>, NEW p
                 PROVE  Names(phi'[c], p) <=> Holds(if_edges, <<p, c>>)
    BY <1>1, Zenon DEF PhisOK
  <2>2. phi'[c] = phi[c]
    BY <1>11, <2>1
  <2>3. PhisOK(if_bbs, if_edges, phi)
    BY DEF CfgInv
  <2>4. \A q : Names(phi[c], q) <=> Holds(if_edges, <<q, c>>)
    BY <2>1, <2>2, <2>3, Zenon DEF PhisOK
  <2> QED BY <2>2, <2>4, Zenon
<1>13. EntriesParsed'
  <2>1. \A c \in Ids : phi'[c] # <<>> => phi'[c] = phi[c]
    BY <1>6
  <2>2. EntriesParsed
    BY DEF CfgInv
  <2>3. prog' = prog /\ if_num_bbs' = if_num_bbs
    BY <1>1
  <2> QED BY <2>1, <2>2, <2>3 DEF EntriesParsed
<1>14. PhisLeft'
  <2>1. \A c : Holds(if_bbs, c) /\ phi'[c] # <<>> => Holds(todo', c)
    BY <1>1, <1>3, <1>11 DEF CfgInv, PhisLeft
  <2> QED BY <1>1, <2>1 DEF PhisLeft
<1>15. Reasons' /\ ProgOK' /\ if_num_bbs' >= NumBBs /\ if_bbs' # <<>>
  BY <1>1 DEF CfgInv, Reasons, ProgOK
<1> QED BY <1>1, <1>8, <1>9, <1>12, <1>13, <1>14, <1>15 DEF CfgInv

(* An edge is split only if it is one of those that ids are left for. *)
LEMMA CriticalPending ==
  ASSUME CfgInv, phase = "critical", todo # <<>>, Critical(Head(todo))
  PROVE  Head(todo) \in Pending(todo)
<1>1. todo \in Seq(Ids \X Ids) /\ if_edges \in Seq(Ids \X Ids) /\ GraphOK(if_bbs, if_edges, to)
  BY Typed
<1> DEFINE e == Head(todo)
           from == e[1]
<1>2. e \in Ids \X Ids /\ Holds(todo, e) /\ Cardinality(Out(from)) >= 2
  BY <1>1, TailHolds DEF Critical
<1> HIDE DEF e
<1>3. EdgesListed
  BY DEF CfgInv
<1>4. from \in 1..NumBBs /\ Len(to[from]) = Len(prog.to[from])
  BY <1>2, <1>3, Zenon DEF EdgesListed
<1>5. Len(prog.to[from]) \in 0..2
  <2>1. prog.to \in [1..NumBBs -> Targets]
    BY DEF CfgInv, ProgOK
  <2> QED BY <1>4, <2>1, TargetsFacts
<1>6. SUFFICES ASSUME Len(to[from]) \in 0..1 PROVE FALSE
  <2>1. SUFFICES ASSUME e \notin Pending(todo) PROVE FALSE
    BY DEF e
  <2>2. ~(Len(prog.to[from]) > 1)
    BY <1>2, <2>1, Zenon DEF Pending
  <2> HIDE DEF from
  <2>3. Len(to[from]) \in 0..1
    <3>1. \A n \in 0..2 : ~(n > 1) => n \in 0..1
      OBVIOUS
    <3> QED BY <1>4, <1>5, <2>2, <3>1, Zenon
  <2> QED BY <2>3
<1> HIDE DEF from
<1>7. ASSUME NEW i \in Out(from) PROVE if_edges[i] = <<from, to[from][1]>> /\ i \in 1..Len(if_edges)
  <2>1. i \in 1..Len(if_edges) /\ if_edges[i][1] = from
    BY DEF Out
  <2>2. if_edges[i] \in Ids \X Ids
    BY <1>1, <2>1, ElementOfSeq
  <2>3. if_edges[i] = <<from, if_edges[i][2]>>
    BY <2>1, <2>2
  <2>4. Holds(if_edges, <<from, if_edges[i][2]>>)
    BY <2>1, <2>3 DEF Holds
  <2>5. Holds(to[from], if_edges[i][2])
    BY <1>1, <2>4, Zenon DEF GraphOK
  <2>6. PICK k \in 1..Len(to[from]) : to[from][k] = if_edges[i][2]
    BY <2>5 DEF Holds
  <2>7. k = 1
    <3>1. \A n \in 0..1 : \A l \in 1..n : l = 1
      OBVIOUS
    <3> QED BY <1>6, <3>1, Zenon
  <2> QED BY <2>1, <2>3, <2>6, <2>7
<1>8. \A i, j \in Out(from) : i = j
  <2>1. ASSUME NEW i \in Out(from), NEW j \in Out(from) PROVE i = j
    <3>1. if_edges[i] = if_edges[j] /\ i \in 1..Len(if_edges) /\ j \in 1..Len(if_edges)
      BY <1>7, Zenon
    <3> QED BY <1>3, <3>1, Zenon DEF EdgesListed, Distinct
  <2> QED BY <2>1
<1>9. CASE Out(from) = {}
  <2>1. Cardinality(Out(from)) = 0
    BY <1>9, FS_EmptySet
  <2> QED BY <1>2, <2>1 DEF from
<1>10. CASE Out(from) # {}
  <2>1. PICK i : Out(from) = {i}
    BY <1>8, <1>10
  <2>2. Cardinality({i}) = 1
    BY FS_Singleton
  <2> QED BY <1>2, <2>1, <2>2 DEF from
<1> QED BY <1>9, <1>10

(* A repetition-free sequence stays so when an element gives way to one    *)
(* that was not in it.                                                     *)
LEMMA ReplacedDistinct ==
  ASSUME NEW S, NEW s \in Seq(S), NEW a, NEW b \in S, Distinct(s), ~Holds(s, b)
  PROVE  Distinct(Replaced(s, a, b))
<1>1. /\ Len(Replaced(s, a, b)) = Len(s)
      /\ \A i \in 1..Len(s) : Replaced(s, a, b)[i] = IF s[i] = a THEN b ELSE s[i]
  BY ReplacedHolds
<1>2. \A i \in 1..Len(s) : s[i] # b
  BY DEF Holds
<1>3. SUFFICES ASSUME NEW i \in 1..Len(s), NEW j \in 1..Len(s),
                      (IF s[i] = a THEN b ELSE s[i]) = (IF s[j] = a THEN b ELSE s[j])
               PROVE  i = j
  BY <1>1 DEF Distinct
<1>4. s[i] = s[j]
  BY <1>2, <1>3
<1> QED BY <1>4 DEF Distinct
LEMMA SeqWiden ==
  ASSUME NEW S, NEW T, S \subseteq T, NEW s \in Seq(S)
  PROVE  s \in Seq(T)
<1>1. \A i \in 1..Len(s) : s[i] \in T
  BY ElementOfSeq
<1> QED BY <1>1

(* An element put before a sequence. *)
LEMMA PrependFacts ==
  ASSUME NEW S, NEW x \in S, NEW r \in Seq(S)
  PROVE  /\ <<x>> \o r \in Seq(S)
         /\ \A y : Holds(<<x>> \o r, y) <=> y = x \/ Holds(r, y)
         /\ Distinct(r) /\ ~Holds(r, x) => Distinct(<<x>> \o r)
<1> DEFINE h == <<x>>
<1>1. h \in Seq(S) /\ Len(h) = 1 /\ h[1] = x /\ 1..1 = {1}
  OBVIOUS
<1> HIDE DEF h
<1>2. \A y : Holds(h, y) <=> y = x
  BY <1>1, Zenon DEF Holds
<1>3. \A y : Holds(h \o r, y) <=> Holds(h, y) \/ Holds(r, y)
  BY <1>1, ConcatHolds
<1>4. Distinct(h)
  BY <1>1 DEF Distinct
<1>5. ASSUME Distinct(r), ~Holds(r, x) PROVE Distinct(h \o r)
  <2>1. \A y : ~(Holds(h, y) /\ Holds(r, y))
    BY <1>2, <1>5
  <2> QED BY <1>1, <1>4, <1>5, <2>1, ConcatDistinct
<1>6. h \o r \in Seq(S)
  BY <1>1
<1>7. \A y : Holds(h \o r, y) <=> y = x \/ Holds(r, y)
  BY <1>2, <1>3, Zenon
<1> QED BY <1>5, <1>6, <1>7, Zenon DEF h

(* The edges after a split, by what they are. *)
LEMMA SplitEdges ==
  ASSUME NEW edges \in Seq(Ids \X Ids), NEW from \in Ids, NEW t \in Ids, NEW nb \in Ids,
         Holds(edges, <<from, t>>), from # nb,
         Fresh(edges, nb)
  PROVE  /\ SplitOf(edges, from, t, nb) \in Seq(Ids \X Ids)
         /\ Distinct(edges) => Distinct(SplitOf(edges, from, t, nb))
         /\ IsSplit(SplitOf(edges, from, t, nb), edges, from, t, nb)
         /\ \A e : Holds(edges, e) /\ e # <<from, t>> => Holds(SplitOf(edges, from, t, nb), e)
<1> DEFINE edges2 == SplitOf(edges, from, t, nb)
           P == Ids \X Ids
           old == <<from, t>>
           new == <<from, nb>>
           first == <<nb, t>>
           r == Replaced(edges, old, new)
<1>1. /\ new \in P /\ first \in P /\ edges \in Seq(P) /\ Holds(edges, old)
      /\ edges2 = <<first>> \o r
      /\ ~Holds(edges, new) /\ ~Holds(edges, first) /\ first # new
  BY DEF Fresh, SplitOf
<1>2. \A a, c : /\ <<a, c>> = first <=> a = nb /\ c = t
                /\ <<a, c>> = old <=> a = from /\ c = t
                /\ <<a, c>> = new <=> a = from /\ c = nb
  OBVIOUS
<1> HIDE DEF P, old, new, first, edges2
<1>3. /\ r \in Seq(P)
      /\ \A x : Holds(r, x) <=> (Holds(edges, x) /\ x # old) \/ x = new
  <2>1. /\ r \in Seq(P)
        /\ \A x : Holds(r, x) <=> (Holds(edges, x) /\ x # old) \/ (x = new /\ Holds(edges, old))
    BY <1>1, ReplacedHolds
  <2> QED BY <1>1, <2>1, Zenon
<1>4. Distinct(edges) => Distinct(r)
  BY <1>1, ReplacedDistinct
<1> HIDE DEF r
<1>5. /\ edges2 \in Seq(P)
      /\ \A y : Holds(edges2, y) <=> y = first \/ Holds(r, y)
      /\ Distinct(r) /\ ~Holds(r, first) => Distinct(edges2)
  <2>1. /\ <<first>> \o r \in Seq(P)
        /\ \A y : Holds(<<first>> \o r, y) <=> y = first \/ Holds(r, y)
        /\ Distinct(r) /\ ~Holds(r, first) => Distinct(<<first>> \o r)
    BY <1>1, <1>3, PrependFacts, Zenon
  <2> QED BY <1>1, <2>1, Zenon
<1>6. ~Holds(r, first)
  BY <1>1, <1>3, Zenon
<1>7. \A y : Holds(edges2, y) <=> y = first \/ (Holds(edges, y) /\ y # old) \/ y = new
  BY <1>3, <1>5, Zenon
<1>8. \A a, c : Holds(edges2, <<a, c>>) <=> SplitPair(edges, from, t, nb, a, c)
  <2> TAKE a, c
  <2>1. /\ <<a, c>> = first <=> a = nb /\ c = t
        /\ <<a, c>> = old <=> a = from /\ c = t
        /\ <<a, c>> = new <=> a = from /\ c = nb
    BY <1>2, Zenon
  <2>2. Holds(edges2, <<a, c>>) <=> <<a, c>> = first \/ (Holds(edges, <<a, c>>) /\ <<a, c>> # old) \/ <<a, c>> = new
    BY <1>7, Zenon
  <2> QED BY <2>1, <2>2, Zenon DEF SplitPair
<1>9. \A e : Holds(edges, e) /\ e # old => Holds(edges2, e)
  BY <1>7, Zenon
<1>10. IsSplit(edges2, edges, from, t, nb)
  BY <1>8, Zenon DEF IsSplit
<1>11. Distinct(edges) => Distinct(edges2)
  BY <1>4, <1>5, <1>6, Zenon
<1>12. edges2 \in Seq(P)
  BY <1>5
<1> QED BY <1>9, <1>10, <1>11, <1>12, Zenon DEF P, old, edges2

(* The entries of a PHI after a split. *)
LEMMA MovedEntries ==
  ASSUME NEW s \in Seq([pred : Ids, orig : 1..NumBBs]), NEW from, NEW nb \in Ids
  PROVE  /\ PhiMoved(s, from, nb) \in Seq([pred : Ids, orig : 1..NumBBs])
         /\ Len(PhiMoved(s, from, nb)) = Len(s)
         /\ \A i \in 1..Len(s) : /\ PhiMoved(s, from, nb)[i].pred = IF s[i].pred = from THEN nb ELSE s[i].pred
                                 /\ PhiMoved(s, from, nb)[i].orig = s[i].orig
                                 /\ s[i].pred \in Ids
<1> DEFINE R == [pred : Ids, orig : 1..NumBBs]
           m(i) == [pred |-> IF s[i].pred = from THEN nb ELSE s[i].pred, orig |-> s[i].orig]
<1>1. Len(s) \in Nat /\ \A i \in 1..Len(s) : s[i] \in R
  <2>1. s \in Seq(R)
    OBVIOUS
  <2> HIDE DEF R
  <2> QED BY <2>1, ElementOfSeq
<1>2. \A i \in 1..Len(s) : s[i].pred \in Ids /\ s[i].orig \in 1..NumBBs
  BY <1>1
<1>3. \A i \in 1..Len(s) : m(i) \in R
  BY <1>2
<1>4. PhiMoved(s, from, nb) = [i \in 1..Len(s) |-> m(i)]
  BY DEF PhiMoved
<1>5. \A i \in 1..Len(s) : m(i).pred = (IF s[i].pred = from THEN nb ELSE s[i].pred) /\ m(i).orig = s[i].orig
  OBVIOUS
<1> HIDE DEF R, m
<1>6. PhiMoved(s, from, nb) \in Seq(R) /\ Len(PhiMoved(s, from, nb)) = Len(s)
  BY <1>1, <1>3, <1>4
<1>7. \A i \in 1..Len(s) : PhiMoved(s, from, nb)[i] = m(i)
  BY <1>4
<1> QED BY <1>2, <1>5, <1>6, <1>7, Zenon DEF R

LEMMA BreakKeeps ==
  ASSUME CfgInv, break_critical_edge
  PROVE  CfgInv'
<1> DEFINE from == Head(todo)[1]
           t    == Head(todo)[2]
           nb   == if_num_bbs + 1
           pos  == CHOOSE i \in 1..Len(if_bbs) : if_bbs[i] = t
<1>1. /\ phase = "critical" /\ phase' = "critical" /\ todo # <<>> /\ todo' = Tail(todo)
      /\ Critical(Head(todo))
      /\ UNCHANGED <<prog, own, body, killed>>
  BY DEF break_critical_edge, Visit
<1>2. /\ if_num_bbs' = nb
      /\ if_bbs' = InsertAt(if_bbs, pos, nb)
      /\ to' = Rebranched(to, from, t, nb)
      /\ if_edges' = SplitOf(if_edges, from, t, nb)
      /\ phi' = [phi EXCEPT ![t] = PhiMoved(@, from, nb)]
  BY DEF break_critical_edge, bb_make, bb_change_branch, Rebranched, SplitOf
<1>3. /\ if_bbs \in Seq(1..if_num_bbs) /\ if_bbs \in Seq(Ids) /\ if_num_bbs \in Ids
      /\ if_num_bbs \in Nat /\ NumBBs <= if_num_bbs
      /\ to \in [Ids -> Seq(Ids)]
      /\ own \in [Ids -> Ids]
      /\ body \in [Ids -> Seq((1..NumBBs) \X (0..NumBBs))]
      /\ phi \in [Ids -> Seq([pred : Ids, orig : 1..NumBBs])]
      /\ if_edges \in Seq(Ids \X Ids)
      /\ killed \subseteq (1..NumBBs) \X (1..NumBBs)
      /\ todo \in Seq(Ids \X Ids)
      /\ GraphOK(if_bbs, if_edges, to)
      /\ EdgesListed
  BY <1>1, Typed DEF CfgInv
<1>4. /\ todo' \in Seq(Ids \X Ids) /\ Distinct(todo') /\ ~Holds(todo', Head(todo))
      /\ Head(todo) \in Ids \X Ids
      /\ \A x : Holds(todo, x) <=> Holds(todo', x) \/ x = Head(todo)
  BY <1>1, <1>3, TailHolds DEF EdgesListed
<1>5. from \in Ids /\ t \in Ids /\ Head(todo) = <<from, t>>
  BY <1>4
<1>6. Holds(if_edges, <<from, t>>) /\ from \in 1..NumBBs
  BY <1>3, <1>4, <1>5, Zenon DEF EdgesListed
<1>7. /\ IsFiniteSet(Pending(Tail(todo))) /\ Cardinality(Pending(todo)) \in Nat
      /\ Cardinality(Pending(Tail(todo))) \in Nat
      /\ Cardinality(Pending(Tail(todo))) + 1 = Cardinality(Pending(todo))
  BY <1>1, <1>3, PendingTail, CriticalPending DEF EdgesListed
<1>8. if_num_bbs + Cardinality(Pending(todo)) <= NumBBs + 2 * MaxMulti
  BY <1>3 DEF EdgesListed
<1>9. /\ nb \in Ids /\ nb \notin 1..if_num_bbs /\ nb \in 1..nb /\ nb \in Nat /\ NumBBs <= nb
      /\ nb \notin 1..NumBBs
      /\ nb + Cardinality(Pending(Tail(todo))) <= NumBBs + 2 * MaxMulti
  <2>1. Ids = 1..(NumBBs + 2 * MaxMulti) /\ NumBBs \in Nat /\ MaxMulti \in Nat
    BY IdsFacts
  <2> QED BY <1>3, <1>7, <1>8, <2>1
<1>10. ~Holds(if_bbs, nb)
  BY <1>3, <1>9, ElementOfSeq DEF Holds
<1>11. \A a, c : Holds(if_edges, <<a, c>>) => Holds(if_bbs, a) /\ Holds(if_bbs, c)
  BY <1>3, Zenon DEF GraphOK
<1>12. Holds(if_bbs, t) /\ Holds(if_bbs, from) /\ t # nb /\ from # nb
  BY <1>6, <1>10, <1>11
<1>13. pos \in 1..Len(if_bbs)
  BY <1>12 DEF Holds
<1> HIDE DEF pos, nb, from, t
<1>14. /\ if_bbs' \in Seq(1..nb) /\ if_bbs' \in Seq(Ids) /\ if_bbs' # <<>>
       /\ Gains(if_bbs', if_bbs, nb)
  <2>1. 1..if_num_bbs \subseteq 1..nb
    BY <1>3, <1>9 DEF nb
  <2>3. if_bbs \in Seq(1..nb)
    <3>1. if_bbs \in Seq(1..if_num_bbs)
      BY <1>3
    <3> QED BY <2>1, <3>1, SeqWiden
  <2>4. /\ InsertAt(if_bbs, pos, nb) \in Seq(1..nb)
        /\ Len(InsertAt(if_bbs, pos, nb)) = Len(if_bbs) + 1
        /\ \A x : Holds(InsertAt(if_bbs, pos, nb), x) <=> Holds(if_bbs, x) \/ x = nb
    <3>1. nb \in 1..nb
      BY <1>9
    <3> HIDE DEF Holds
    <3> QED BY <1>13, <2>3, <3>1, InsertedHolds, Zenon
  <2>5. InsertAt(if_bbs, pos, nb) \in Seq(Ids)
    BY <1>3, <1>9, <1>13, InsertedHolds
  <2>6. if_bbs' # <<>>
    <3>1. Len(if_bbs') = Len(if_bbs) + 1 /\ Len(if_bbs) \in Nat
      BY <1>2, <1>3, <2>4
    <3> QED BY <3>1
  <2> QED BY <1>2, <2>4, <2>5, <2>6 DEF Gains
<1>15. Fresh(if_edges, nb)
  BY <1>10, <1>11, Zenon DEF Fresh
<1>16. /\ if_edges' \in Seq(Ids \X Ids)
       /\ Distinct(if_edges')
       /\ IsSplit(if_edges', if_edges, from, t, nb)
       /\ \A e : Holds(if_edges, e) /\ e # <<from, t>> => Holds(if_edges', e)
  <2>1. Distinct(if_edges)
    BY <1>3 DEF EdgesListed
  <2>2. if_edges \in Seq(Ids \X Ids) /\ from \in Ids /\ t \in Ids /\ nb \in Ids /\ from # nb
    BY <1>3, <1>5, <1>9, <1>12
  <2>3. Holds(if_edges, <<from, t>>)
    BY <1>6
  <2>4. /\ SplitOf(if_edges, from, t, nb) \in Seq(Ids \X Ids)
        /\ Distinct(if_edges) => Distinct(SplitOf(if_edges, from, t, nb))
        /\ IsSplit(SplitOf(if_edges, from, t, nb), if_edges, from, t, nb)
        /\ \A e : Holds(if_edges, e) /\ e # <<from, t>> => Holds(SplitOf(if_edges, from, t, nb), e)
    BY <1>15, <2>2, <2>3, SplitEdges, Zenon
  <2> QED BY <1>2, <2>1, <2>4, Zenon
<1>17. GraphOK(if_bbs, if_edges, to)'
  <2>1. /\ if_bbs \in Seq(Ids) /\ if_edges \in Seq(Ids \X Ids) /\ to \in [Ids -> Seq(Ids)]
        /\ GraphOK(if_bbs, if_edges, to)
        /\ from \in Ids /\ t \in Ids /\ nb \in Ids
    BY <1>3, <1>5, <1>9
  <2>2. to' = Rebranched(to, from, t, nb)
    BY <1>2
  <2>3. Holds(if_edges, <<from, t>>) /\ ~Holds(if_bbs, nb)
    BY <1>6, <1>10
  <2>4. if_bbs' \in Seq(Ids) /\ Gains(if_bbs', if_bbs, nb) /\ IsSplit(if_edges', if_edges, from, t, nb)
    BY <1>14, <1>16, Zenon
  <2>5. GraphOK(if_bbs', if_edges', Rebranched(to, from, t, nb))
    BY <2>1, <2>3, <2>4, SplitGraph, Zenon
  <2> QED BY <2>2, <2>5, Zenon
<1>18. /\ to' \in [Ids -> Seq(Ids)]
       /\ \A b \in 1..NumBBs : Len(to'[b]) = Len(to[b])
  <2>1. Replaced(to[from], t, nb) \in Seq(Ids) /\ Len(Replaced(to[from], t, nb)) = Len(to[from])
    <3>1. to[from] \in Seq(Ids) /\ nb \in Ids
      BY <1>3, <1>5, <1>9
    <3> QED BY <3>1, ReplacedHolds
  <2>2. <<t>> \in Seq(Ids)
    BY <1>5
  <2>3. /\ to'[from] = Replaced(to[from], t, nb)
        /\ \A b \in Ids : b # nb /\ b # from => to'[b] = to[b]
    BY <1>2, <1>3, <1>5, <1>9, <1>12 DEF Rebranched
  <2>4. \A b \in 1..NumBBs : b \in Ids /\ b # nb
    BY <1>9, IdsFacts
  <2>5. to' \in [Ids -> Seq(Ids)]
    BY <1>2, <1>3, <1>12, <2>1, <2>2 DEF Rebranched
  <2> QED BY <2>1, <2>3, <2>4, <2>5
<1>19. /\ phi'[t] = PhiMoved(phi[t], from, nb) /\ \A b \in Ids : b # t => phi'[b] = phi[b]
       /\ phi' \in [Ids -> Seq([pred : Ids, orig : 1..NumBBs])]
  <2> DEFINE R == Seq([pred : Ids, orig : 1..NumBBs])
  <2>1. phi[t] \in R
    BY <1>3, <1>5
  <2>2. PhiMoved(phi[t], from, nb) \in R
    BY <1>9, <2>1, MovedEntries
  <2>3. phi \in [Ids -> R]
    BY <1>3
  <2> HIDE DEF R
  <2>4. phi' \in [Ids -> R]
    BY <1>2, <2>2, <2>3
  <2>5. phi'[t] = PhiMoved(phi[t], from, nb) /\ \A b \in Ids : b # t => phi'[b] = phi[b]
    BY <1>2, <1>5, <2>3
  <2> QED BY <2>4, <2>5 DEF R
<1>20. /\ Len(phi'[t]) = Len(phi[t])
       /\ \A i \in 1..Len(phi[t]) :
            /\ phi'[t][i].pred = IF phi[t][i].pred = from THEN nb ELSE phi[t][i].pred
            /\ phi'[t][i].orig = phi[t][i].orig
  <2> DEFINE s == phi[t]
             s2 == phi'[t]
  <2>1. s2 = PhiMoved(s, from, nb)
    BY <1>19
  <2> HIDE DEF s, s2
  <2>2. s2 = [i \in 1..Len(s) |->
               [pred |-> IF s[i].pred = from THEN nb ELSE s[i].pred, orig |-> s[i].orig]]
    BY <2>1, Zenon DEF PhiMoved
  <2> QED BY <2>2 DEF s, s2
<1>21. EntriesParsed /\ prog.phis \subseteq 1..NumBBs
  BY DEF CfgInv, ProgOK
<1>22. phi[nb] = <<>>
  BY <1>9, <1>21 DEF EntriesParsed
<1>23. PhisOK(if_bbs, if_edges, phi)'
  <2>1. PhisOK(if_bbs, if_edges, phi)
    BY DEF CfgInv
  <2>2. /\ phi \in [Ids -> Seq([pred : Ids, orig : 1..NumBBs])]
        /\ from \in Ids /\ t \in Ids /\ nb \in Ids /\ from # nb /\ t # nb
    BY <1>3, <1>5, <1>9, <1>12
  <2>3. Holds(if_edges, <<from, t>>) /\ ~Holds(if_edges, <<nb, t>>) /\ Holds(if_bbs, t)
    BY <1>6, <1>12, <1>15, Zenon DEF Fresh
  <2>4. if_bbs' \in Seq(Ids) /\ Gains(if_bbs', if_bbs, nb) /\ IsSplit(if_edges', if_edges, from, t, nb)
    BY <1>14, <1>16, Zenon
  <2>5. phi' = [phi EXCEPT ![t] = PhiMoved(@, from, nb)]
    BY <1>2
  <2>6. PhisOK(if_bbs', if_edges', [phi EXCEPT ![t] = PhiMoved(@, from, nb)])
    BY <1>22, <2>1, <2>2, <2>3, <2>4, SplitPhis, Zenon
  <2> QED BY <2>5, <2>6, Zenon
<1>24. \A x \in Int : x <= if_num_bbs => x <= nb /\ x # nb
  BY <1>3 DEF nb
<1>25. ASSUME NEW b \in Ids, phi'[b] # <<>>
       PROVE  /\ b \in prog.phis
              /\ Len(phi'[b]) = Len(Into(prog.to, b))
              /\ \A i \in 1..Len(phi'[b]) :
                   /\ phi'[b][i].orig = Into(prog.to, b)[i]
                   /\ phi'[b][i].pred <= nb
                   /\ \A j \in 1..Len(phi'[b]) :
                        phi'[b][i].pred = phi'[b][j].pred => phi'[b][i].orig = phi'[b][j].orig
  <2>1. phi[b] \in Seq([pred : Ids, orig : 1..NumBBs])
    BY <1>3
  <2>2. \A i \in 1..Len(phi[b]) : phi[b][i].pred \in Int
    <3>1. \A i \in 1..Len(phi[b]) : phi[b][i].pred \in Ids
      BY <1>9, <2>1, MovedEntries
    <3> QED BY <3>1, IdsFacts
  <2>3. phi[b] # <<>>
    <3>1. CASE b = t
      BY <1>3, <1>5, <1>19, <1>20, <1>25, <3>1
    <3>2. CASE b # t
      BY <1>19, <1>25, <3>2
    <3> QED BY <3>1, <3>2
  <2>4. /\ b \in prog.phis
        /\ Len(phi[b]) = Len(Into(prog.to, b))
        /\ \A i \in 1..Len(phi[b]) :
             /\ phi[b][i].orig = Into(prog.to, b)[i]
             /\ phi[b][i].pred <= if_num_bbs
             /\ \A j \in 1..Len(phi[b]) :
                  phi[b][i].pred = phi[b][j].pred => phi[b][i].orig = phi[b][j].orig
    BY <1>21, <2>3 DEF EntriesParsed
  <2>5. \A i \in 1..Len(phi[b]) : phi[b][i].pred <= nb /\ phi[b][i].pred # nb
    BY <1>24, <2>2, <2>4
  <2>6. nb <= nb
    BY <1>9
  <2>7. CASE b # t
    <3>1. phi'[b] = phi[b]
      BY <1>19, <2>7
    <3> QED BY <2>4, <2>5, <3>1
  <2>8. CASE b = t
    <3>1. /\ Len(phi'[b]) = Len(phi[b])
          /\ \A i \in 1..Len(phi[b]) :
               /\ phi'[b][i].pred = IF phi[b][i].pred = from THEN nb ELSE phi[b][i].pred
               /\ phi'[b][i].orig = phi[b][i].orig
      BY <1>20, <2>8
    <3>2. \A i \in 1..Len(phi[b]) : phi'[b][i].pred <= nb
      BY <2>5, <2>6, <3>1
    <3>3. \A i, j \in 1..Len(phi[b]) : phi'[b][i].pred = phi'[b][j].pred => phi[b][i].pred = phi[b][j].pred
      BY <2>5, <3>1
    <3> QED BY <2>4, <3>1, <3>2, <3>3
  <2> QED BY <2>7, <2>8
<1>26. EntriesParsed'
  BY <1>1, <1>2, <1>25 DEF EntriesParsed
<1>27. EdgesListed'
  <2>1. \A e : Holds(todo', e) => e[1] \in 1..NumBBs /\ Holds(if_edges', e)
    <3>1. \A e : Holds(todo', e) => e # <<from, t>> /\ Holds(todo, e)
      BY <1>4, <1>5, Zenon
    <3>2. \A e : Holds(todo, e) => e[1] \in 1..NumBBs /\ Holds(if_edges, e)
      BY <1>3, Zenon DEF EdgesListed
    <3> QED BY <1>16, <3>1, <3>2, Zenon
  <2>2. \A b \in 1..NumBBs : Len(to'[b]) = Len(prog'.to[b])
    BY <1>1, <1>3, <1>18 DEF EdgesListed
  <2>3. Pending(todo)' = Pending(Tail(todo))
    BY <1>1, Zenon DEF Pending
  <2>4. IsFiniteSet(Pending(todo)') /\ if_num_bbs' + Cardinality(Pending(todo)') <= NumBBs + 2 * MaxMulti
    BY <1>2, <1>7, <1>9, <2>3, Zenon
  <2> QED BY <1>4, <1>16, <2>1, <2>2, <2>4, Zenon DEF EdgesListed
<1>28. TypeOK'
  <2>1. if_bbs' \in Seq(1..if_num_bbs') /\ if_num_bbs' \in Ids
    BY <1>2, <1>9, <1>14
  <2>2. todo' \in IF phase' = "critical" THEN Seq(Ids \X Ids) ELSE Seq(Ids)
    BY <1>1, <1>4
  <2>3. phase' \in Passes \cup Failures \cup {"done"}
    BY <1>1 DEF Passes
  <2>4. own' \in [Ids -> Ids] /\ body' \in [Ids -> Seq((1..NumBBs) \X (0..NumBBs))]
        /\ killed' \subseteq (1..NumBBs) \X (1..NumBBs)
    BY <1>1, <1>3
  <2> QED BY <1>16, <1>18, <1>19, <2>1, <2>2, <2>3, <2>4 DEF TypeOK
<1>29. PhisLeft' /\ Reasons' /\ ProgOK' /\ if_num_bbs' >= NumBBs
  <2>1. PhisLeft' /\ Reasons'
    BY <1>1 DEF PhisLeft, Reasons
  <2>2. ProgOK'
    BY <1>1 DEF CfgInv, ProgOK
  <2>3. if_num_bbs' >= NumBBs
    BY <1>2, <1>9, IdsFacts
  <2> QED BY <2>1, <2>2, <2>3
<1> QED BY <1>14, <1>17, <1>23, <1>26, <1>27, <1>28, <1>29 DEF CfgInv
-----------------------------------------------------------------------------
LEMMA CfgStep == CfgInv /\ [Next]_vars => CfgInv'
<1> SUFFICES ASSUME CfgInv, [Next]_vars PROVE CfgInv'
  OBVIOUS
<1>1. CASE break_critical_edge
  BY <1>1, BreakKeeps
<1>2. CASE KeepEdge
  BY <1>2, KeepEdgeKeeps
<1>3. CASE StartSsa
  BY <1>3, StartSsaKeeps
<1>4. CASE exit_ssa_bb
  BY <1>4, ExitSsaKeeps
<1>5. CASE MultiplePhiEntries
  BY <1>5, MultiplePhiEntriesKeeps
<1>6. CASE StartDead
  BY <1>6, StartDeadKeeps
<1>7. CASE DestroyUnreachable
  BY <1>7, DestroyUnreachableKeeps
<1>8. CASE Merge
  BY <1>8, MergeKeeps
<1>9. CASE MergeWithItself
  BY <1>9, MergeWithItselfKeeps
<1>10. CASE KeepBlock \/ StartCoalesce \/ KeepNonEmpty \/ Finish
  BY <1>10, LaterSkipKeeps
<1>11. CASE \E ms \in SUBSET Moves : coalesce(ms)
  <2>1. PICK ms \in SUBSET Moves : coalesce(ms)
    BY <1>11, Zenon
  <2> QED BY <2>1, CoalesceKeeps
<1>12. CASE RemoveEmpty
  BY <1>12, RemoveEmptyKeeps
<1>13. CASE UnableToTransform
  BY <1>13, UnableToTransformKeeps
<1>14. CASE UNCHANGED vars
  <2>1. /\ UNCHANGED <<prog, if_bbs, if_num_bbs, to, own, body, phi, if_edges, killed>>
        /\ phase' = phase /\ todo' = todo
    BY <1>14 DEF vars
  <2>2. PhisLeft' /\ Reasons'
    BY <2>1 DEF CfgInv, PhisLeft, Reasons, HasPhiTwice
  <2>3. phase' = "critical" => EdgesListed'
    BY <2>1 DEF CfgInv, EdgesListed, Pending
  <2>4. /\ phase' \in Passes \cup Failures \cup {"done"}
        /\ todo' \in IF phase' = "critical" THEN Seq(Ids \X Ids) ELSE Seq(Ids)
    BY <2>1 DEF CfgInv, TypeOK
  <2> QED BY <2>1, <2>2, <2>3, <2>4, FrameKeeps
<1> QED BY <1>1, <1>2, <1>3, <1>4, <1>5, <1>6, <1>7, <1>8, <1>9, <1>10, <1>11, <1>12, <1>13, <1>14,
           Zenon DEF Next

LEMMA CfgAlways == Spec => []CfgInv
BY CfgInit, CfgStep, PTL DEF Spec

(* transform_function keeps one graph: after every step of every pass, in  *)
(* functions of any size, the edges are the branches of the blocks that    *)
(* are left, no branch goes to a destroyed block, and a block's PHIs have  *)
(* an entry for each edge into it and for no other.                        *)
THEOREM CfgGraphConsistent == Spec => []GraphConsistent
<1>1. CfgInv => GraphConsistent
  <2> SUFFICES ASSUME CfgInv PROVE GraphConsistent
    OBVIOUS
  <2>1. if_bbs \in Seq(Ids) /\ if_edges \in Seq(Ids \X Ids) /\ GraphOK(if_bbs, if_edges, to)
    BY Typed DEF CfgInv
  <2>2. EdgesAreBranches
    <3>1. /\ {if_edges[i] : i \in 1..Len(if_edges)}
               = UNION {{<<b, to[b][i]>> : i \in 1..Len(to[b])} : b \in {if_bbs[i] : i \in 1..Len(if_bbs)}}
          /\ \A b \in {if_bbs[i] : i \in 1..Len(if_bbs)} : \A i \in 1..Len(to[b]) :
               to[b][i] \in {if_bbs[k] : k \in 1..Len(if_bbs)}
      BY <2>1, GraphForm, Zenon
    <3> QED BY <3>1, Zenon DEF EdgesAreBranches, Blocks
  <2>3. PhisFollowEdges
    <3>1. SUFFICES ASSUME NEW b \in Blocks, phi[b] # <<>>
                   PROVE  {phi[b][i].pred : i \in 1..Len(phi[b])} = Preds(b)
      BY Zenon DEF PhisFollowEdges
    <3>2. Holds(if_bbs, b)
      BY <3>1, Zenon DEF Blocks, Holds
    <3>3. \A p : Names(phi[b], p) <=> Holds(if_edges, <<p, b>>)
      BY <3>1, <3>2, Zenon DEF CfgInv, PhisOK
    <3>4. \A p : p \in Preds(b) <=> Holds(if_edges, <<p, b>>)
      BY PredsForm, Zenon
    <3>5. \A p : p \in {phi[b][i].pred : i \in 1..Len(phi[b])} <=> Names(phi[b], p)
      BY Zenon DEF Names
    <3> QED BY <3>3, <3>4, <3>5, Zenon
  <2> QED BY <2>2, <2>3 DEF GraphConsistent, CfgInv
<1> QED BY <1>1, CfgAlways, PTL

(* transform_function refuses a function only for a PHI with two entries   *)
(* for one edge, and aborts only after an INVOKE with by-value arguments,  *)
(* whatever the size of the function and the branches in it.               *)
THEOREM CfgAccepted == Spec => []Accepted
<1>1. CfgInv => Accepted
  BY DEF CfgInv, Reasons, Accepted
<1> QED BY <1>1, CfgAlways, PTL

-----------------------------------------------------------------------------
(* What is executed.  Two traces are alike up to k when they show the same  *)
(* first k tokens, ends included.                                           *)
Tok == Ids \X Int

Alike(k, s, u) ==
  \A i \in 1..k : /\ i \in 1..Len(s) <=> i \in 1..Len(u)
                  /\ i \in 1..Len(s) => s[i] = u[i]

LEMMA AlikeSame == ASSUME NEW k, NEW s PROVE Alike(k, s, s)
BY Zenon DEF Alike

LEMMA AlikeSym == ASSUME NEW k, NEW s, NEW u, Alike(k, s, u) PROVE Alike(k, u, s)
BY Zenon DEF Alike

LEMMA AlikeTrans ==
  ASSUME NEW k, NEW s, NEW u, NEW w, Alike(k, s, u), Alike(k, u, w)
  PROVE  Alike(k, s, w)
<1> SUFFICES ASSUME NEW i \in 1..k
             PROVE  /\ i \in 1..Len(s) <=> i \in 1..Len(w)
                    /\ i \in 1..Len(s) => s[i] = w[i]
  BY Zenon DEF Alike
<1>1. /\ i \in 1..Len(s) <=> i \in 1..Len(u)
      /\ i \in 1..Len(s) => s[i] = u[i]
  BY Zenon DEF Alike
<1>2. /\ i \in 1..Len(u) <=> i \in 1..Len(w)
      /\ i \in 1..Len(u) => u[i] = w[i]
  BY Zenon DEF Alike
<1> QED BY <1>1, <1>2, Zenon

LEMMA AlikeLess ==
  ASSUME NEW k \in Nat, NEW j \in Nat, j <= k, NEW s, NEW u, Alike(k, s, u)
  PROVE  Alike(j, s, u)
<1>1. \A i \in 1..j : i \in 1..k
  OBVIOUS
<1> QED BY <1>1, Zenon DEF Alike

(* The same tokens in front of traces that are alike. *)
LEMMA AlikeAfter ==
  ASSUME NEW T, NEW w \in Seq(T), NEW s \in Seq(T), NEW u \in Seq(T), NEW j \in Nat, NEW k \in Nat,
         k <= j + Len(w), Alike(j, s, u)
  PROVE  Alike(k, w \o s, w \o u)
<1>1. /\ Len(w) \in Nat /\ Len(s) \in Nat /\ Len(u) \in Nat
      /\ Len(w \o s) = Len(w) + Len(s) /\ Len(w \o u) = Len(w) + Len(u)
      /\ \A i \in 1..(Len(w) + Len(s)) : (w \o s)[i] = IF i <= Len(w) THEN w[i] ELSE s[i - Len(w)]
      /\ \A i \in 1..(Len(w) + Len(u)) : (w \o u)[i] = IF i <= Len(w) THEN w[i] ELSE u[i - Len(w)]
  OBVIOUS
<1> DEFINE n == Len(w)  a == w \o s  b == w \o u
<1> SUFFICES ASSUME NEW i \in 1..k
             PROVE  /\ i \in 1..Len(a) <=> i \in 1..Len(b)
                    /\ i \in 1..Len(a) => a[i] = b[i]
  BY Zenon DEF Alike
<1>2. CASE i <= n
  BY <1>1, <1>2
<1>3. CASE ~(i <= n)
  <2>1. i - n \in 1..j
    BY <1>1, <1>3
  <2>2. /\ i - n \in 1..Len(s) <=> i - n \in 1..Len(u)
        /\ i - n \in 1..Len(s) => s[i - n] = u[i - n]
    BY <2>1 DEF Alike
  <2>3. i \in 1..Len(a) <=> i - n \in 1..Len(s)
    BY <1>1, <1>3
  <2>4. i \in 1..Len(b) <=> i - n \in 1..Len(u)
    BY <1>1, <1>3
  <2>5. i \in 1..Len(a) => a[i] = s[i - n]
    BY <1>1, <1>3
  <2>6. i \in 1..Len(b) => b[i] = u[i - n]
    BY <1>1, <1>3
  <2> HIDE DEF a, b, n
  <2> QED BY <2>2, <2>3, <2>4, <2>5, <2>6, Zenon
<1> QED BY <1>1, <1>2, <1>3

(* The empty trace is like no other. *)
LEMMA AlikeEmpty ==
  ASSUME NEW T, NEW s \in Seq(T), NEW u \in Seq(T), NEW k \in Nat, k >= 1, Alike(k, s, u)
  PROVE  s = <<>> <=> u = <<>>
<1>1. 1 \in 1..k
  OBVIOUS
<1>2. 1 \in 1..Len(s) <=> 1 \in 1..Len(u)
  BY <1>1, Zenon DEF Alike
<1>3. (s = <<>> <=> Len(s) = 0) /\ (u = <<>> <=> Len(u) = 0) /\ Len(s) \in Nat /\ Len(u) \in Nat
  BY EmptySeq
<1> QED BY <1>2, <1>3

LEMMA HorizonFacts == NumBBs \in Nat /\ NumBBs >= 1 /\ Horizon \in Nat /\ Horizon >= 1
BY IdsFacts DEF Horizon

(* Shown shows the tokens up to the horizon. *)
LEMMA ShownFacts ==
  ASSUME NEW T, NEW s \in Seq(T)
  PROVE  /\ Shown(s) \in Seq(T)
         /\ Len(Shown(s)) = IF Len(s) < Horizon THEN Len(s) ELSE Horizon
         /\ \A i \in 1..Len(Shown(s)) : Shown(s)[i] = s[i]
         /\ Alike(Horizon, Shown(s), s)
<1> DEFINE h == Horizon  m == IF Len(s) < h THEN Len(s) ELSE h
<1>1. h \in Nat /\ Len(s) \in Nat
  BY HorizonFacts
<1>2. m \in Nat /\ m <= Len(s) /\ m <= h
  BY <1>1
<1>3. Shown(s) = SubSeq(s, 1, m)
  BY DEF Shown
<1> HIDE DEF m, h
<1>4. SubSeq(s, 1, m) \in Seq(T) /\ Len(SubSeq(s, 1, m)) = m /\ \A i \in 1..m : SubSeq(s, 1, m)[i] = s[i]
  BY <1>1, <1>2
<1>5. \A i \in 1..h : i \in 1..m <=> i \in 1..Len(s)
  BY <1>1 DEF m
<1>6. Alike(h, SubSeq(s, 1, m), s)
  BY <1>4, <1>5 DEF Alike
<1> QED BY <1>3, <1>4, <1>6 DEF h, m

(* Traces that are alike up to the horizon are shown as one. *)
LEMMA AlikeShown ==
  ASSUME NEW T, NEW s \in Seq(T), NEW u \in Seq(T), Alike(Horizon, s, u)
  PROVE  Shown(s) = Shown(u)
<1> DEFINE h == Horizon  a == Shown(s)  b == Shown(u)
<1>0. h \in Nat /\ h >= 1 /\ Len(s) \in Nat /\ Len(u) \in Nat
  BY HorizonFacts
<1>1. /\ a \in Seq(T) /\ Len(a) = (IF Len(s) < h THEN Len(s) ELSE h)
      /\ \A i \in 1..Len(a) : a[i] = s[i]
  BY ShownFacts
<1>2. /\ b \in Seq(T) /\ Len(b) = (IF Len(u) < h THEN Len(u) ELSE h)
      /\ \A i \in 1..Len(b) : b[i] = u[i]
  BY ShownFacts
<1>3. Alike(h, s, u)
  OBVIOUS
<1> HIDE DEF h, a, b
<1>4. Len(a) = Len(b)
  <2>1. Len(s) < h => Len(u) <= Len(s)
    <3>1. SUFFICES ASSUME Len(s) < h, ~(Len(u) <= Len(s)) PROVE FALSE
      OBVIOUS
    <3>2. Len(s) + 1 \in 1..h /\ Len(s) + 1 \in 1..Len(u) /\ Len(s) + 1 \notin 1..Len(s)
      BY <1>0, <3>1
    <3> QED BY <1>3, <3>2, Zenon DEF Alike
  <2>2. Len(u) < h => Len(s) <= Len(u)
    <3>1. SUFFICES ASSUME Len(u) < h, ~(Len(s) <= Len(u)) PROVE FALSE
      OBVIOUS
    <3>2. Len(u) + 1 \in 1..h /\ Len(u) + 1 \in 1..Len(s) /\ Len(u) + 1 \notin 1..Len(u)
      BY <1>0, <3>1
    <3> QED BY <1>3, <3>2, Zenon DEF Alike
  <2> QED BY <1>0, <1>1, <1>2, <2>1, <2>2
<1>5. \A i \in 1..Len(a) : i \in 1..h /\ i \in 1..Len(s)
  BY <1>0, <1>1
<1>6. \A i \in 1..Len(a) : a[i] = b[i]
  BY <1>1, <1>2, <1>3, <1>4, <1>5 DEF Alike
<1>7. a = b
  BY <1>1, <1>2, <1>4, <1>6, SeqEqual
<1> QED BY <1>7 DEF a, b
-----------------------------------------------------------------------------
(* A graph of jumps: c[b] is what block b executes, nx[b] the block it      *)
(* jumps to, 0 when it decides or stops.                                    *)

After(c, nx, A, b) == IF nx[b] = 0 THEN c[b] ELSE c[b] \o A[nx[b]]

(* T[n] are traces of n jumps or fewer. *)
Unrolls(T, M, I, c, nx) ==
  \A n \in 0..M : \A b \in I :
    /\ T[n][b] \in Seq(Tok)
    /\ n < M => Alike(Horizon, T[n + 1][b], After(c, nx, T[n], b))

(* From the blocks of X on something is executed, and the rank falls until  *)
(* it is.                                                                   *)
Ranked(I, N, c, nx, X, R) ==
  /\ X \subseteq I
  /\ \A b \in X : R[b] \in 0..(N-1)
  /\ \A b \in X : nx[b] # 0 /\ c[b] = <<>> => nx[b] \in X /\ R[nx[b]] < R[b]

JumpGraph(I, c, nx) ==
  /\ 0 \notin I
  /\ \A b \in I : c[b] \in Seq(Tok) /\ (nx[b] = 0 \/ nx[b] \in I)

Late(n, k, N, r) == n >= (k - 1) * N + r + 1

Silent(T, M, I, X) == \A n \in 0..M : \A b \in I : b \notin X => T[n][b] = <<>>

Agreeing(A, B, M, N, X, R) ==
  \A n \in 0..M : \A b \in X : \A k \in 1..Horizon :
     Late(n, k, N, R[b]) => Alike(k, A[n][b], B[n][b])

(* Traces of one graph agree on k tokens after k times as many jumps as a   *)
(* block can be away from one that executes something.                      *)
LEMMA TracesAgree ==
  ASSUME NEW I, NEW N \in Nat, NEW M \in Nat, NEW c, NEW nx, NEW X, NEW R,
         JumpGraph(I, c, nx), Ranked(I, N, c, nx, X, R),
         NEW A, NEW B, Unrolls(A, M, I, c, nx), Unrolls(B, M, I, c, nx),
         Silent(A, M, I, X), Silent(B, M, I, X)
  PROVE  Agreeing(A, B, M, N, X, R)
<1> DEFINE Agree(n) == \A b \in X : \A k \in 1..Horizon : Late(n, k, N, R[b]) => Alike(k, A[n][b], B[n][b])
           S == {n \in Nat : n \in 0..M => Agree(n)}
<1>0. Horizon \in Nat /\ Horizon >= 1
  BY HorizonFacts
<1>1. 0 \in S
  <2>1. ASSUME NEW b \in X, NEW k \in 1..Horizon PROVE ~Late(0, k, N, R[b])
    <3>1. R[b] \in Nat
      BY DEF Ranked
    <3>2. k - 1 \in Nat
      BY <1>0
    <3>3. (k - 1) * N \in Nat
      BY <3>2
    <3> HIDE DEF Late
    <3> QED BY <3>1, <3>3 DEF Late
  <2> QED BY <2>1
<1>2. ASSUME NEW n \in Nat, n \in S PROVE n + 1 \in S
  <2>1. SUFFICES ASSUME n + 1 \in 0..M, NEW b \in X, NEW k \in 1..Horizon, Late(n + 1, k, N, R[b])
                 PROVE  Alike(k, A[n + 1][b], B[n + 1][b])
    OBVIOUS
  <2>2. n \in 0..M /\ n < M /\ n + 1 \in 0..M
    BY <2>1
  <2>3. Agree(n)
    BY <1>2, <2>2
  <2>4. b \in I /\ R[b] \in 0..(N-1)
    BY DEF Ranked
  <2>5. /\ A[n + 1][b] \in Seq(Tok) /\ B[n + 1][b] \in Seq(Tok)
        /\ Alike(Horizon, A[n + 1][b], After(c, nx, A[n], b))
        /\ Alike(Horizon, B[n + 1][b], After(c, nx, B[n], b))
    BY <2>2, <2>4 DEF Unrolls
  <2>6. k \in Nat /\ k <= Horizon /\ k >= 1
    BY <1>0
  <2>7. Alike(k, A[n + 1][b], After(c, nx, A[n], b)) /\ Alike(k, B[n + 1][b], After(c, nx, B[n], b))
    BY <1>0, <2>5, <2>6, AlikeLess
  <2>8. c[b] \in Seq(Tok)
    BY <2>4 DEF JumpGraph
  <2>9. Alike(k, After(c, nx, A[n], b), After(c, nx, B[n], b))
    <3>1. CASE nx[b] = 0
      BY <3>1, AlikeSame DEF After
    <3>2. CASE nx[b] # 0
      <4> DEFINE x == nx[b]
      <4>1. x \in I /\ A[n][x] \in Seq(Tok) /\ B[n][x] \in Seq(Tok)
        BY <2>2, <2>4, <3>2 DEF JumpGraph, Unrolls
      <4>2. /\ After(c, nx, A[n], b) = c[b] \o A[n][x]
            /\ After(c, nx, B[n], b) = c[b] \o B[n][x]
        BY <3>2 DEF After
      <4> HIDE DEF x
      <4>3. CASE x \notin X
        <5>1. A[n][x] = B[n][x]
          BY <2>2, <4>1, <4>3 DEF Silent
        <5> QED BY <4>2, <5>1, AlikeSame
      <4>4. CASE x \in X /\ c[b] = <<>>
        <5>1. R[x] < R[b] /\ R[x] \in 0..(N-1)
          BY <3>2, <4>4 DEF Ranked, x
        <5>2. (k - 1) * N \in Nat
          <6>1. k - 1 \in Nat
            BY <2>6
          <6> QED BY <6>1
        <5>3. Late(n, k, N, R[x])
          <6> DEFINE q == (k - 1) * N
          <6>1. n + 1 >= q + R[b] + 1
            BY <2>1 DEF Late
          <6>2. q \in Nat
            BY <5>2
          <6> HIDE DEF q
          <6>3. n >= q + R[x] + 1
            BY <2>4, <5>1, <6>1, <6>2
          <6> QED BY <6>3 DEF Late, q
        <5>4. Alike(k, A[n][x], B[n][x])
          BY <2>3, <4>4, <5>3
        <5> QED BY <2>6, <2>8, <4>1, <4>2, <5>4, AlikeAfter
      <4>5. CASE x \in X /\ c[b] # <<>>
        <5>1. Len(c[b]) \in Nat /\ Len(c[b]) >= 1
          BY <2>8, <4>5, EmptySeq
        <5>2. R[x] \in 0..(N-1)
          BY <4>5 DEF Ranked
        <5>3. CASE k = 1
          <6>1. Alike(0, A[n][x], B[n][x])
            BY DEF Alike
          <6>2. k <= 0 + Len(c[b])
            BY <5>1, <5>3
          <6>3. 0 \in Nat
            OBVIOUS
          <6> QED BY <2>6, <2>8, <4>1, <4>2, <6>1, <6>2, <6>3, AlikeAfter
        <5>4. CASE k # 1
          <6> DEFINE j == k - 1
          <6>1. j \in 1..Horizon /\ j \in Nat /\ k = j + 1 /\ j - 1 \in Nat
            BY <1>0, <2>6, <5>4
          <6>2. Late(n, j, N, R[x])
            <7> DEFINE q == (j - 1) * N
            <7>1. (k - 1) * N = q + N
              <8>1. \A z \in Nat : (z + 1) * N = z * N + N
                OBVIOUS
              <8>2. k - 1 = (j - 1) + 1
                BY <6>1
              <8> QED BY <6>1, <8>1, <8>2
            <7>2. n + 1 >= (q + N) + R[b] + 1
              BY <2>1, <7>1 DEF Late
            <7>3. q \in Nat
              <8>1. \A z \in Nat : z * N \in Nat
                OBVIOUS
              <8> QED BY <6>1, <8>1
            <7> HIDE DEF q, j
            <7>4. n >= q + R[x] + 1
              BY <2>4, <5>2, <7>2, <7>3
            <7> QED BY <7>4 DEF Late, q
          <6> HIDE DEF j
          <6>3. Alike(j, A[n][x], B[n][x])
            BY <2>3, <4>5, <6>1, <6>2
          <6>4. k <= j + Len(c[b])
            BY <5>1, <6>1
          <6> QED BY <2>6, <2>8, <4>1, <4>2, <6>1, <6>3, <6>4, AlikeAfter
        <5> QED BY <5>3, <5>4
      <4> QED BY <4>3, <4>4, <4>5
    <3> QED BY <3>1, <3>2
  <2>10. Alike(k, A[n + 1][b], After(c, nx, B[n], b))
    BY <2>7, <2>9, AlikeTrans
  <2> QED BY <2>7, <2>10, AlikeSym, AlikeTrans
<1>3. \A n \in Nat : n \in S => n + 1 \in S
  BY <1>2
<1> HIDE DEF S
<1>4. Nat \subseteq S
  BY <1>1, <1>3, NatSetInduction
<1> USE DEF S
<1>5. \A n \in 0..M : n \in Nat
  OBVIOUS
<1> QED BY <1>4, <1>5 DEF Agreeing
(* A solution of the graph: what is executed from each block on, and how    *)
(* far it is to the next token.                                             *)
Solves(I, N, c, nx, V, R) ==
  \A b \in I :
    /\ V[b] \in Seq(Tok)
    /\ R[b] \in 0..(N-1)
    /\ Alike(Horizon, V[b], After(c, nx, V, b))
    /\ nx[b] # 0 /\ c[b] = <<>> /\ V[b] # <<>> => R[nx[b]] < R[b]

(* The blocks can be ranked by the jumps to the next block that executes    *)
(* something; from the others on nothing ever is.                           *)
LEMMA RankExists ==
  ASSUME NEW N \in Nat, NEW c, NEW nx, JumpGraph(1..N, c, nx)
  PROVE  \E X, R : /\ Ranked(1..N, N, c, nx, X, R)
                   /\ \A b \in 1..N : b \notin X => nx[b] # 0 /\ c[b] = <<>> /\ nx[b] \notin X
<1> DEFINE I == 1..N
           Good(m, X, R) == /\ Ranked(I, N, c, nx, X, R)
                            /\ IsFiniteSet(X) /\ Cardinality(X) = m
                            /\ \A b \in X : R[b] < m
           T == {d \in Nat : d <= N /\ \E X, R : Good(N - d, X, R)}
<1>1. IsFiniteSet(I) /\ Cardinality(I) = N
  BY FS_Interval
<1>2. N \in T
  <2>1. Good(0, {}, <<>>)
    BY FS_EmptySet DEF Ranked
  <2>2. N - N = 0
    OBVIOUS
  <2> HIDE DEF Good
  <2> QED BY <2>1, <2>2
<1>3. T \subseteq Nat /\ T # {}
  BY <1>2
<1>4. PICK d \in T : \A m \in T : d <= m
  <2> HIDE DEF T
  <2> QED BY <1>3, LeastNatural
<1>5. d \in Nat /\ d <= N /\ N - d \in Nat
  OBVIOUS
<1>6. PICK X, R : Good(N - d, X, R)
  OBVIOUS
<1> DEFINE m == N - d
<1>7. ASSUME NEW b \in I, b \notin X, nx[b] = 0 \/ c[b] # <<>> \/ nx[b] \in X PROVE FALSE
  <2> DEFINE X2 == X \cup {b}
             R2 == [x \in X2 |-> IF x = b THEN m ELSE R[x]]
  <2>1. IsFiniteSet(X2) /\ Cardinality(X2) = m + 1
    BY <1>5, <1>6, <1>7, FS_AddElement
  <2>2. X2 \subseteq I
    BY <1>6 DEF Ranked
  <2>3. m + 1 <= N
    <3>1. Cardinality(X2) <= Cardinality(I)
      BY <1>1, <2>2, FS_Subset
    <3> QED BY <1>1, <2>1, <3>1
  <2>4. /\ \A x \in X : R2[x] = R[x]
        /\ R2[b] = m
    BY <1>7
  <2>5. \A x \in X : R[x] \in 0..(N-1) /\ R[x] < m
    BY <1>6 DEF Ranked
  <2>6. \A x \in X2 : R2[x] \in 0..(N-1) /\ R2[x] < m + 1
    BY <1>5, <2>3, <2>4, <2>5
  <2>7. ASSUME NEW x \in X2, nx[x] # 0, c[x] = <<>> PROVE nx[x] \in X2 /\ R2[nx[x]] < R2[x]
    <3>1. CASE x = b
      BY <1>7, <2>4, <2>5, <2>7, <3>1
    <3>2. CASE x # b
      BY <1>6, <2>4, <2>7, <3>2 DEF Ranked
    <3> QED BY <3>1, <3>2
  <2>8. Ranked(I, N, c, nx, X2, R2)
    <3> HIDE DEF X2, R2, m
    <3> QED BY <2>2, <2>6, <2>7 DEF Ranked
  <2>9. Good(m + 1, X2, R2)
    <3> HIDE DEF X2, R2, m
    <3> QED BY <2>1, <2>6, <2>8
  <2>10. d - 1 \in Nat /\ d - 1 <= N /\ N - (d - 1) = m + 1
    BY <1>5, <2>3
  <2>11. d - 1 \in T
    <3> HIDE DEF Good, X2, R2, m
    <3>1. Good(N - (d - 1), X2, R2)
      BY <2>9, <2>10
    <3>2. \E X1, R1 : Good(N - (d - 1), X1, R1)
      BY <3>1, Zenon
    <3> QED BY <2>10, <3>2
  <2>12. ~(d <= d - 1)
    BY <1>5
  <2> HIDE DEF T
  <2> QED BY <1>4, <2>11, <2>12
<1> QED BY <1>6, <1>7, Zenon

TraceOf(T, M, I, c, nx) ==
  /\ \A b \in I : T[0][b] = <<>>
  /\ \A n \in 0..M : \A b \in I : T[n][b] \in Seq(Tok)
  /\ \A n \in 0..M : n < M => \A b \in I : T[n + 1][b] = Shown(After(c, nx, T[n], b))

(* Traces of every length. *)
LEMMA TraceExists ==
  ASSUME NEW I, NEW c, NEW nx, JumpGraph(I, c, nx), NEW M \in Nat
  PROVE  \E T : TraceOf(T, M, I, c, nx)
<1> USE DEF TraceOf
<1> DEFINE Traces(T, m) == TraceOf(T, m, I, c, nx)
           S == {m \in Nat : \E T : Traces(T, m)}
<1>1. 0 \in S
  <2> DEFINE T == [n \in {0} |-> [b \in I |-> <<>>]]
  <2>1. \A b \in I : T[0][b] = <<>>
    OBVIOUS
  <2>2. \A n \in 0..0 : n = 0
    OBVIOUS
  <2> HIDE DEF T
  <2>3. \A n \in 0..0 : \A b \in I : T[n][b] \in Seq(Tok)
    <3>1. <<>> \in Seq(Tok)
      OBVIOUS
    <3> QED BY <2>1, <2>2, <3>1
  <2>4. \A n \in 0..0 : ~(n < 0)
    OBVIOUS
  <2>5. Traces(T, 0)
    BY <2>1, <2>3, <2>4, Zenon
  <2> QED BY <2>5
<1>2. ASSUME NEW m \in Nat, m \in S PROVE m + 1 \in S
  <2>1. PICK T : Traces(T, m)
    BY <1>2
  <2> DEFINE last == [b \in I |-> Shown(After(c, nx, T[m], b))]
             T2 == [n \in 0..(m+1) |-> IF n = m + 1 THEN last ELSE T[n]]
  <2>2. \A n \in 0..m : T2[n] = T[n] /\ n \in 0..(m+1)
    OBVIOUS
  <2>3. \A b \in I : T2[m + 1][b] = Shown(After(c, nx, T[m], b))
    OBVIOUS
  <2>4. ASSUME NEW b \in I PROVE Shown(After(c, nx, T[m], b)) \in Seq(Tok)
    <3>1. m \in 0..m
      OBVIOUS
    <3>2. \A x \in I : T[m][x] \in Seq(Tok)
      BY <2>1, <3>1
    <3>3. c[b] \in Seq(Tok) /\ (nx[b] = 0 \/ nx[b] \in I)
      BY <2>4 DEF JumpGraph
    <3>4. After(c, nx, T[m], b) \in Seq(Tok)
      <4>1. CASE nx[b] = 0
        BY <3>3, <4>1 DEF After
      <4>2. CASE nx[b] # 0
        <5>1. T[m][nx[b]] \in Seq(Tok)
          BY <3>2, <3>3, <4>2
        <5>2. c[b] \o T[m][nx[b]] \in Seq(Tok)
          BY <3>3, <5>1
        <5> QED BY <4>2, <5>2 DEF After
      <4> QED BY <4>1, <4>2
    <3> QED BY <3>4, ShownFacts
  <2> HIDE DEF T2
  <2>5. \A n \in 0..(m+1) : n \in 0..m \/ n = m + 1
    OBVIOUS
  <2>6. \A b \in I : T2[0][b] = <<>>
    <3>1. 0 \in 0..m
      OBVIOUS
    <3>2. T2[0] = T[0]
      BY <2>2, <3>1
    <3> QED BY <2>1, <3>2
  <2>7. \A n \in 0..(m+1) : \A b \in I : T2[n][b] \in Seq(Tok)
    <3> TAKE n \in 0..(m+1)
    <3> TAKE b \in I
    <3>1. CASE n \in 0..m
      BY <2>1, <2>2, <3>1
    <3>2. CASE n = m + 1
      BY <2>3, <2>4, <3>2
    <3> QED BY <2>5, <3>1, <3>2
  <2>8. \A n \in 0..(m+1) : n < m + 1 => \A b \in I : T2[n + 1][b] = Shown(After(c, nx, T2[n], b))
    <3> SUFFICES ASSUME NEW n \in 0..(m+1), n < m + 1, NEW b \in I
                 PROVE  T2[n + 1][b] = Shown(After(c, nx, T2[n], b))
      OBVIOUS
    <3>1. n \in 0..m /\ T2[n] = T[n]
      BY <2>2
    <3>2. CASE n = m
      BY <2>3, <3>1, <3>2
    <3>3. CASE n # m
      <4>1. n < m /\ n + 1 \in 0..m
        BY <3>1, <3>3
      <4>2. T2[n + 1] = T[n + 1]
        BY <2>2, <4>1
      <4>3. T[n + 1][b] = Shown(After(c, nx, T[n], b))
        BY <2>1, <3>1, <4>1
      <4> QED BY <3>1, <4>2, <4>3
    <3> QED BY <3>2, <3>3
  <2>9. Traces(T2, m + 1)
    BY <2>6, <2>7, <2>8
  <2> HIDE DEF Traces
  <2> QED BY <2>9
<1>3. \A m \in Nat : m \in S => m + 1 \in S
  BY <1>2
<1>4. Nat \subseteq S
  <2> HIDE DEF S
  <2> QED BY <1>1, <1>3, NatSetInduction
<1>5. M \in S
  <2> HIDE DEF S
  <2> QED BY <1>4
<1> QED BY <1>5
(* Traces long enough show what a solution says, up to the horizon. *)
LEMMA SolutionTraced ==
  ASSUME NEW I, NEW N \in Nat, NEW M \in Nat, M >= Horizon * N, NEW c, NEW nx, JumpGraph(I, c, nx),
         NEW V, NEW R, Solves(I, N, c, nx, V, R),
         NEW T, \A b \in I : T[0][b] = <<>>, Unrolls(T, M, I, c, nx)
  PROVE  \A b \in I : T[M][b] \in Seq(Tok) /\ Alike(Horizon, T[M][b], V[b])
<1> DEFINE X == {b \in I : V[b] # <<>>}
           W == [n \in Nat |-> V]
<1>0. Horizon \in Nat /\ Horizon >= 1
  BY HorizonFacts
<1>1. ASSUME NEW b \in I
      PROVE  /\ V[b] \in Seq(Tok) /\ c[b] \in Seq(Tok)
             /\ After(c, nx, V, b) \in Seq(Tok)
             /\ b \notin X => After(c, nx, V, b) = <<>>
  <2>1. c[b] \in Seq(Tok) /\ V[b] \in Seq(Tok) /\ Alike(Horizon, V[b], After(c, nx, V, b))
    BY <1>1 DEF JumpGraph, Solves
  <2>2. After(c, nx, V, b) \in Seq(Tok)
    <3>1. nx[b] # 0 => V[nx[b]] \in Seq(Tok)
      BY <1>1 DEF JumpGraph, Solves
    <3>2. nx[b] # 0 => c[b] \o V[nx[b]] \in Seq(Tok)
      BY <2>1, <3>1
    <3> QED BY <2>1, <3>2 DEF After
  <2>3. V[b] = <<>> <=> After(c, nx, V, b) = <<>>
    BY <1>0, <2>1, <2>2, AlikeEmpty
  <2> QED BY <2>1, <2>2, <2>3
<1>2. ASSUME NEW b \in I, nx[b] # 0
      PROVE  After(c, nx, V, b) = <<>> <=> c[b] = <<>> /\ nx[b] \notin X
  <2>1. nx[b] \in I /\ c[b] \in Seq(Tok) /\ V[nx[b]] \in Seq(Tok)
    BY <1>1, <1>2 DEF JumpGraph
  <2>2. \A s, u \in Seq(Tok) : s \o u = <<>> <=> s = <<>> /\ u = <<>>
    <3> TAKE s, u \in Seq(Tok)
    <3>1. Len(s \o u) = Len(s) + Len(u) /\ s \o u \in Seq(Tok) /\ Len(s) \in Nat /\ Len(u) \in Nat
      OBVIOUS
    <3>2. \A w \in Seq(Tok) : w = <<>> <=> Len(w) = 0
      BY EmptySeq
    <3> QED BY <3>1, <3>2
  <2>3. c[b] \o V[nx[b]] = <<>> <=> c[b] = <<>> /\ V[nx[b]] = <<>>
    BY <2>1, <2>2
  <2> QED BY <1>2, <2>1, <2>3 DEF After
<1>3. Ranked(I, N, c, nx, X, R)
  <2>1. \A b \in X : R[b] \in 0..(N-1)
    BY DEF Solves
  <2>2. ASSUME NEW b \in X, nx[b] # 0, c[b] = <<>> PROVE nx[b] \in X /\ R[nx[b]] < R[b]
    <3>1. After(c, nx, V, b) # <<>>
      <4>1. Alike(Horizon, V[b], After(c, nx, V, b)) /\ b \in I
        BY DEF Solves
      <4>2. V[b] = <<>> <=> After(c, nx, V, b) = <<>>
        BY <1>0, <1>1, <4>1, AlikeEmpty
      <4> QED BY <4>2
    <3>2. nx[b] \in X
      BY <1>2, <2>2, <3>1
    <3> QED BY <2>2, <3>2 DEF Solves
  <2> QED BY <2>1, <2>2 DEF Ranked
<1>4. Unrolls(W, M, I, c, nx)
  <2>1. ASSUME NEW n \in 0..M PROVE W[n] = V /\ (n < M => W[n + 1] = V)
    OBVIOUS
  <2> HIDE DEF W
  <2> QED BY <2>1 DEF Unrolls, Solves
<1>5. \A n \in 0..M : \A b \in I : b \notin X => T[n][b] = <<>>
  <2> DEFINE S == {n \in Nat : n \in 0..M => \A b \in I : b \notin X => T[n][b] = <<>>}
  <2>1. 0 \in S
    OBVIOUS
  <2>2. ASSUME NEW n \in Nat, n \in S PROVE n + 1 \in S
    <3>1. SUFFICES ASSUME n + 1 \in 0..M, NEW b \in I, b \notin X PROVE T[n + 1][b] = <<>>
      OBVIOUS
    <3>2. n \in 0..M /\ n < M /\ n + 1 \in 0..M
      BY <3>1
    <3>3. /\ T[n + 1][b] \in Seq(Tok)
          /\ Alike(Horizon, T[n + 1][b], After(c, nx, T[n], b))
      BY <3>2 DEF Unrolls
    <3>4. After(c, nx, T[n], b) = <<>>
      <4>1. After(c, nx, V, b) = <<>>
        BY <1>1, <3>1
      <4>2. CASE nx[b] = 0
        BY <4>1, <4>2 DEF After
      <4>3. CASE nx[b] # 0
        <5>1. c[b] = <<>> /\ nx[b] \notin X /\ nx[b] \in I
          BY <1>2, <4>1, <4>3 DEF JumpGraph
        <5>2. T[n][nx[b]] = <<>>
          BY <2>2, <3>2, <5>1
        <5>3. c[b] \o T[n][nx[b]] = <<>>
          <6>1. <<>> \o <<>> = <<>>
            OBVIOUS
          <6> QED BY <5>1, <5>2, <6>1
        <5> QED BY <4>3, <5>3 DEF After
      <4> QED BY <4>2, <4>3
    <3>5. <<>> \in Seq(Tok)
      OBVIOUS
    <3>6. T[n + 1][b] = <<>> <=> <<>> = <<>>
      BY <1>0, <3>3, <3>4, <3>5, AlikeEmpty
    <3> QED BY <3>6
  <2>3. \A n \in Nat : n \in S => n + 1 \in S
    BY <2>2
  <2> HIDE DEF S
  <2>4. Nat \subseteq S
    BY <2>1, <2>3, NatSetInduction
  <2> USE DEF S
  <2>5. \A n \in 0..M : n \in Nat
    OBVIOUS
  <2> QED BY <2>4, <2>5
<1>6. Silent(T, M, I, X) /\ Silent(W, M, I, X)
  <2>1. \A n \in 0..M : \A b \in I : b \notin X => W[n][b] = <<>>
    OBVIOUS
  <2> HIDE DEF X, W
  <2> QED BY <1>5, <2>1 DEF Silent
<1>10. \A b \in I : b \notin X => V[b] = <<>>
  OBVIOUS
<1> HIDE DEF X, W
<1>7. Agreeing(T, W, M, N, X, R)
  BY <1>3, <1>4, <1>6, TracesAgree
<1>8. M \in 0..M /\ W[M] = V
  BY DEF W
<1>9. ASSUME NEW b \in I PROVE T[M][b] \in Seq(Tok) /\ Alike(Horizon, T[M][b], V[b])
  <2>1. T[M][b] \in Seq(Tok)
    BY <1>8 DEF Unrolls
  <2>2. CASE b \notin X
    <3>1. T[M][b] = V[b]
      BY <1>5, <1>8, <1>10, <2>2
    <3>2. Alike(Horizon, V[b], V[b])
      BY AlikeSame
    <3> QED BY <2>1, <3>1, <3>2
  <2>3. CASE b \in X
    <3>1. Late(M, Horizon, N, R[b])
      <4> DEFINE h == Horizon
      <4>1. R[b] \in 0..(N-1)
        BY DEF Solves
      <4>2. h \in Nat /\ h - 1 \in Nat /\ (h - 1) * N = h * N - N /\ h * N \in Nat
        <5>1. \A z \in Nat : z >= 1 => z - 1 \in Nat /\ (z - 1) * N = z * N - N /\ z * N \in Nat
          OBVIOUS
        <5> QED BY <1>0, <5>1
      <4>3. M >= h * N
        OBVIOUS
      <4> HIDE DEF h
      <4>4. M >= (h * N - N) + R[b] + 1
        <5> DEFINE q == h * N
        <5>1. q \in Nat /\ M >= q
          BY <4>2, <4>3
        <5> HIDE DEF q
        <5>2. M >= (q - N) + R[b] + 1
          BY <4>1, <5>1
        <5> QED BY <5>2 DEF q
      <4>5. Late(M, h, N, R[b])
        BY <4>2, <4>4 DEF Late
      <4> QED BY <4>5 DEF h
    <3>2. Horizon \in 1..Horizon
      BY <1>0
    <3> QED BY <1>7, <1>8, <2>1, <2>3, <3>1, <3>2 DEF Agreeing
  <2> QED BY <2>2, <2>3
<1> QED BY <1>9

(* Every graph has a solution. *)
LEMMA SolutionExists ==
  ASSUME NEW N \in Nat, NEW c, NEW nx, JumpGraph(1..N, c, nx)
  PROVE  \E V, R : Solves(1..N, N, c, nx, V, R)
<1> DEFINE I == 1..N
           M == Horizon * N
<1>0. Horizon \in Nat /\ Horizon >= 1 /\ M \in Nat /\ M + 1 \in Nat
  <2>1. \A h \in Nat : h * N \in Nat
    OBVIOUS
  <2> QED BY HorizonFacts, <2>1
<1>1. PICK X, R : /\ Ranked(I, N, c, nx, X, R)
                  /\ \A b \in I : b \notin X => nx[b] # 0 /\ c[b] = <<>> /\ nx[b] \notin X
  BY RankExists
<1> DEFINE m == M + 1
<1>2. PICK T : /\ \A b \in I : T[0][b] = <<>>
               /\ \A n \in 0..m : \A b \in I : T[n][b] \in Seq(Tok)
               /\ \A n \in 0..m : n < m => \A b \in I : T[n + 1][b] = Shown(After(c, nx, T[n], b))
  <2> HIDE DEF m, I
  <2>1. JumpGraph(I, c, nx) /\ m \in Nat
    BY <1>0 DEF m, I
  <2>2. \E T : TraceOf(T, m, I, c, nx)
    BY <2>1, TraceExists
  <2> QED BY <2>2 DEF TraceOf
<1> HIDE DEF M
<1>3. \A n \in 0..M : n \in 0..m /\ n + 1 \in 0..m /\ n < m /\ (n < M => n + 1 < m /\ n + 1 \in 0..M)
  BY <1>0
<1> HIDE DEF m
<1>4. ASSUME NEW n \in 0..m, NEW b \in I
      PROVE  /\ After(c, nx, T[n], b) \in Seq(Tok)
             /\ n < m => Alike(Horizon, T[n + 1][b], After(c, nx, T[n], b))
  <2>1. c[b] \in Seq(Tok) /\ (nx[b] # 0 => nx[b] \in I)
    BY <1>4 DEF JumpGraph
  <2>2. nx[b] # 0 => c[b] \o T[n][nx[b]] \in Seq(Tok)
    <3>1. nx[b] # 0 => T[n][nx[b]] \in Seq(Tok)
      BY <1>2, <2>1
    <3> QED BY <2>1, <3>1
  <2>3. After(c, nx, T[n], b) \in Seq(Tok)
    BY <2>1, <2>2 DEF After
  <2>4. n < m => T[n + 1][b] = Shown(After(c, nx, T[n], b))
    BY <1>2
  <2> QED BY <2>3, <2>4, ShownFacts
<1> DEFINE T2 == [n \in 0..M |-> T[n + 1]]
<1>5. Unrolls(T, M, I, c, nx)
  BY <1>2, <1>3, <1>4 DEF Unrolls
<1>6. Unrolls(T2, M, I, c, nx)
  <2>1. ASSUME NEW n \in 0..M, NEW b \in I
        PROVE  /\ T2[n][b] \in Seq(Tok)
               /\ n < M => Alike(Horizon, T2[n + 1][b], After(c, nx, T2[n], b))
    <3>1. T2[n] = T[n + 1] /\ n + 1 \in 0..m
      BY <1>3
    <3>2. n < M => T2[n + 1] = T[(n + 1) + 1] /\ n + 1 < m
      BY <1>3
    <3> HIDE DEF T2
    <3> QED BY <1>2, <1>4, <3>1, <3>2
  <2> HIDE DEF T2
  <2> QED BY <2>1 DEF Unrolls
<1>7. \A n \in 0..m : \A b \in I : b \notin X => T[n][b] = <<>>
  <2> DEFINE S == {n \in Nat : n \in 0..m => \A b \in I : b \notin X => T[n][b] = <<>>}
  <2>0. m \in Nat
    BY <1>0 DEF m
  <2>1. 0 \in S
    BY <1>2
  <2>2. ASSUME NEW n \in Nat, n \in S PROVE n + 1 \in S
    <3>1. SUFFICES ASSUME n + 1 \in 0..m, NEW b \in I, b \notin X PROVE T[n + 1][b] = <<>>
      OBVIOUS
    <3>2. n \in 0..m /\ n < m
      BY <2>0, <3>1
    <3>3. nx[b] # 0 /\ c[b] = <<>> /\ nx[b] \notin X /\ nx[b] \in I
      BY <1>1, <3>1 DEF JumpGraph
    <3>4. T[n][nx[b]] = <<>>
      BY <2>2, <3>2, <3>3
    <3>5. After(c, nx, T[n], b) = <<>>
      <4>1. <<>> \o <<>> = <<>>
        OBVIOUS
      <4> QED BY <3>3, <3>4, <4>1 DEF After
    <3>6. T[n + 1][b] \in Seq(Tok) /\ Alike(Horizon, T[n + 1][b], <<>>)
      BY <1>2, <1>4, <3>1, <3>2, <3>5
    <3>7. <<>> \in Seq(Tok)
      OBVIOUS
    <3>8. T[n + 1][b] = <<>> <=> <<>> = <<>>
      BY <1>0, <3>6, <3>7, AlikeEmpty
    <3> QED BY <3>8
  <2>3. \A n \in Nat : n \in S => n + 1 \in S
    BY <2>2
  <2> HIDE DEF S
  <2>4. Nat \subseteq S
    BY <2>1, <2>3, NatSetInduction
  <2> USE DEF S
  <2>5. \A n \in 0..m : n \in Nat
    BY <2>0
  <2> QED BY <2>4, <2>5
<1>8. \A n \in 0..M : T2[n] = T[n + 1]
  OBVIOUS
<1> HIDE DEF T2
<1>9. Silent(T, M, I, X) /\ Silent(T2, M, I, X)
  BY <1>3, <1>7, <1>8 DEF Silent
<1>10. Agreeing(T, T2, M, N, X, R)
  BY <1>0, <1>1, <1>5, <1>6, <1>9, TracesAgree
<1> DEFINE V == T[M]
           R2 == [b \in I |-> IF b \in X THEN R[b] ELSE 0]
<1>11. M \in 0..M /\ T2[M] = T[M + 1] /\ M < m /\ M \in 0..m
  BY <1>0, <1>3, <1>8
<1>12. ASSUME NEW b \in I
       PROVE  /\ V[b] \in Seq(Tok)
              /\ R2[b] \in 0..(N-1)
              /\ Alike(Horizon, V[b], After(c, nx, V, b))
              /\ nx[b] # 0 /\ c[b] = <<>> /\ V[b] # <<>> => R2[nx[b]] < R2[b]
  <2>1. V[b] \in Seq(Tok)
    BY <1>2, <1>11
  <2>2. R2[b] \in 0..(N-1)
    <3>1. b \in X => R[b] \in 0..(N-1)
      BY <1>1 DEF Ranked
    <3>2. 0 \in 0..(N-1)
      OBVIOUS
    <3> QED BY <3>1, <3>2
  <2>3. Alike(Horizon, V[b], T[M + 1][b])
    <3>1. CASE b \notin X
      BY <1>7, <1>9, <1>11, <3>1, AlikeSame DEF Silent
    <3>2. CASE b \in X
      <4>1. Late(M, Horizon, N, R[b])
        <5> DEFINE h == Horizon
        <5>1. R[b] \in 0..(N-1)
          BY <1>1, <3>2 DEF Ranked
        <5>2. h \in Nat /\ h - 1 \in Nat /\ (h - 1) * N = h * N - N /\ h * N \in Nat
          <6>1. \A z \in Nat : z >= 1 => z - 1 \in Nat /\ (z - 1) * N = z * N - N /\ z * N \in Nat
            OBVIOUS
          <6> QED BY <1>0, <6>1
        <5>3. M = h * N
          BY DEF M
        <5> HIDE DEF h
        <5>4. M >= (M - N) + R[b] + 1
          BY <1>0, <5>1
        <5> QED BY <5>2, <5>3, <5>4 DEF Late, h
      <4>2. Horizon \in 1..Horizon
        BY <1>0
      <4> QED BY <1>10, <1>11, <3>2, <4>1, <4>2 DEF Agreeing
    <3> QED BY <3>1, <3>2
  <2>4. Alike(Horizon, T[M + 1][b], After(c, nx, V, b))
    BY <1>4, <1>11
  <2>5. nx[b] # 0 /\ c[b] = <<>> /\ V[b] # <<>> => R2[nx[b]] < R2[b]
    <3>1. V[b] # <<>> => b \in X
      BY <1>7, <1>11
    <3>2. b \in X /\ nx[b] # 0 /\ c[b] = <<>> => nx[b] \in X /\ R[nx[b]] < R[b] /\ nx[b] \in I
      BY <1>1 DEF Ranked, JumpGraph
    <3> HIDE DEF V
    <3> QED BY <3>1, <3>2
  <2> QED BY <2>1, <2>2, <2>3, <2>4, <2>5, AlikeTrans
<1>13. Solves(I, N, c, nx, V, R2)
  <2> HIDE DEF V, R2, I
  <2> QED BY <1>12 DEF Solves
<1> QED BY <1>13

-----------------------------------------------------------------------------
(* What coalesce leaves of what is executed. *)

Kept(ms, m) == IF m \in ms THEN <<>> ELSE <<m>>

LEMMA FlattenAppend ==
  ASSUME NEW S, NEW s \in Seq(Seq(S)), NEW e \in Seq(S)
  PROVE  FlattenSeq(Append(s, e)) = FlattenSeq(s) \o e
<1> DEFINE t == Append(s, e)  n == Len(s)
<1>1. /\ n \in Nat /\ t \in Seq(Seq(S)) /\ Len(t) = n + 1 /\ t[n + 1] = e
      /\ \A i \in 1..n : t[i] = s[i] /\ s[i] \in Seq(S)
  OBVIOUS
<1> HIDE DEF t, n
<1>2. PICK g : /\ FlattenSeq(t) = g[n + 1]
               /\ \A i \in 1..(n + 1) : g[i] = IF i = 1 THEN t[i] ELSE g[i-1] \o t[i]
  <2>1. Len(t) \in Nat /\ Len(t) # 0
    BY <1>1
  <2>2. \E g : /\ FlattenSeq(t) = g[Len(t)]
               /\ \A i \in 1..Len(t) : g[i] = IF i = 1 THEN t[i] ELSE g[i-1] \o t[i]
    BY <2>1, FlattenUnfolds
  <2> QED BY <1>1, <2>2
<1>3. CASE n = 0
  <2>1. s = <<>>
    BY <1>3 DEF n
  <2>2. FlattenSeq(s) = <<>>
    BY <2>1 DEF FlattenSeq
  <2>3. FlattenSeq(t) = e
    BY <1>1, <1>2, <1>3
  <2>4. <<>> \o e = e
    OBVIOUS
  <2> QED BY <2>2, <2>3, <2>4 DEF t
<1>4. CASE n # 0
  <2>1. PICK h : /\ FlattenSeq(s) = h[n]
                 /\ \A i \in 1..n : h[i] = IF i = 1 THEN s[i] ELSE h[i-1] \o s[i]
    <3>1. Len(s) \in Nat /\ Len(s) # 0
      BY <1>1, <1>4 DEF n
    <3>2. \E h : /\ FlattenSeq(s) = h[Len(s)]
                 /\ \A i \in 1..Len(s) : h[i] = IF i = 1 THEN s[i] ELSE h[i-1] \o s[i]
      BY <3>1, FlattenUnfolds
    <3> QED BY <3>2 DEF n
  <2> DEFINE K == {i \in Nat : i + 1 \in 1..n => g[i + 1] = h[i + 1]}
  <2>2. 0 \in K
    <3>1. 0 + 1 = 1 /\ 1 \in 1..n /\ 1 \in 1..(n + 1) /\ 0 \in Nat
      BY <1>1, <1>4
    <3>2. g[1] = t[1] /\ h[1] = s[1] /\ t[1] = s[1]
      BY <1>1, <1>2, <2>1, <3>1
    <3> QED BY <3>1, <3>2
  <2>3. ASSUME NEW i \in Nat, i \in K PROVE i + 1 \in K
    <3>1. SUFFICES ASSUME (i + 1) + 1 \in 1..n PROVE g[(i + 1) + 1] = h[(i + 1) + 1]
      OBVIOUS
    <3>2. /\ i + 1 \in 1..n /\ (i + 1) + 1 \in 1..(n + 1)
          /\ ((i + 1) + 1) - 1 = i + 1 /\ (i + 1) + 1 # 1
      BY <1>1, <3>1
    <3>3. g[i + 1] = h[i + 1]
      BY <2>3, <3>2
    <3> DEFINE j == (i + 1) + 1
    <3>4. g[j] = g[j - 1] \o t[j] /\ h[j] = h[j - 1] \o s[j] /\ t[j] = s[j]
      BY <1>1, <1>2, <2>1, <3>1, <3>2
    <3> QED BY <3>2, <3>3, <3>4
  <2>4. \A i \in Nat : i \in K => i + 1 \in K
    BY <2>3
  <2> HIDE DEF K
  <2>5. Nat \subseteq K
    BY <2>2, <2>4, NatSetInduction
  <2>6. g[n] = h[n]
    <3>1. n - 1 \in Nat /\ (n - 1) + 1 = n /\ n \in 1..n
      BY <1>1, <1>4
    <3>2. n - 1 \in K
      BY <2>5, <3>1
    <3> QED BY <3>1, <3>2 DEF K
  <2>7. g[n + 1] = g[n] \o e
    <3>1. n + 1 \in 1..(n + 1) /\ n + 1 # 1 /\ (n + 1) - 1 = n
      BY <1>1, <1>4
    <3> QED BY <1>1, <1>2, <3>1
  <2> QED BY <1>2, <2>1, <2>6, <2>7 DEF t
<1> QED BY <1>3, <1>4

LEMMA DroppingAppend ==
  ASSUME NEW S, NEW s \in Seq(S), NEW x \in S, NEW gone
  PROVE  Dropping(Append(s, x), gone) = Dropping(s, gone) \o Kept(gone, x)
<1> DEFINE f(y) == IF y \in gone THEN <<>> ELSE <<y>>
           n == Len(s)
           t == Append(s, x)
           d == [i \in 1..n |-> f(s[i])]
<1>1. /\ n \in Nat /\ Len(t) = n + 1 /\ t[n + 1] = x
      /\ \A i \in 1..n : t[i] = s[i] /\ s[i] \in S
  OBVIOUS
<1>2. \A y \in S : f(y) \in Seq(S)
  OBVIOUS
<1>3. Dropping(s, gone) = FlattenSeq(d) /\ Dropping(t, gone) = FlattenSeq([i \in 1..Len(t) |-> f(t[i])])
  BY DEF Dropping
<1>4. Kept(gone, x) = f(x)
  BY DEF Kept
<1> HIDE DEF f, t, n
<1>5. d \in Seq(Seq(S)) /\ Len(d) = n /\ \A i \in 1..n : d[i] = f(s[i])
  BY <1>1, <1>2
<1> HIDE DEF d
<1>6. [i \in 1..Len(t) |-> f(t[i])] = Append(d, f(x))
  <2> DEFINE a == [i \in 1..(n + 1) |-> f(t[i])]  b == Append(d, f(x))
  <2>1. f(x) \in Seq(S)
    BY <1>2
  <2>2. b \in Seq(Seq(S)) /\ Len(b) = n + 1 /\ b[n + 1] = f(x) /\ \A i \in 1..n : b[i] = d[i]
    BY <1>5, <2>1
  <2>3. \A i \in 1..(n + 1) : i \in 1..n \/ i = n + 1
    BY <1>1
  <2>4. \A i \in 1..(n + 1) : f(t[i]) = b[i]
    BY <1>1, <1>5, <2>2, <2>3
  <2>5. \A i \in 1..(n + 1) : b[i] \in Seq(S)
    BY <2>2, ElementOfSeq
  <2>6. a \in Seq(Seq(S)) /\ Len(a) = n + 1 /\ \A i \in 1..(n + 1) : a[i] = f(t[i])
    BY <1>1, <2>4, <2>5
  <2> HIDE DEF a, b
  <2>7. a = b
    <3>1. Len(a) = Len(b) /\ \A i \in 1..Len(a) : a[i] = b[i]
      BY <2>2, <2>4, <2>6
    <3> QED BY <2>2, <2>6, <3>1, SeqEqual
  <2> QED BY <1>1, <2>7 DEF a, b
<1>7. FlattenSeq(Append(d, f(x))) = FlattenSeq(d) \o f(x)
  BY <1>2, <1>5, FlattenAppend
<1> QED BY <1>3, <1>4, <1>6, <1>7 DEF t

LEMMA DroppingConcat ==
  ASSUME NEW S, NEW s \in Seq(S), NEW u \in Seq(S), NEW gone
  PROVE  Dropping(s \o u, gone) = Dropping(s, gone) \o Dropping(u, gone)
<1> DEFINE D(w) == Dropping(w, gone)
           pre(n) == SubSeq(u, 1, n)
           K == {n \in Nat : n <= Len(u) => D(s \o pre(n)) = D(s) \o D(pre(n))}
<1>1. Len(u) \in Nat /\ u = pre(Len(u))
  OBVIOUS
<1>2. ASSUME NEW w \in Seq(S) PROVE D(w) \in Seq(S)
  BY DroppingHolds
<1>3. 0 \in K
  <2>1. pre(0) = <<>> /\ s \o <<>> = s
    OBVIOUS
  <2>2. D(<<>>) = <<>>
    <3>1. [i \in 1..Len(<<>>) |-> IF <<>>[i] \in gone THEN <<>> ELSE << <<>>[i] >>] = <<>>
      OBVIOUS
    <3>2. FlattenSeq(<<>>) = <<>>
      BY DEF FlattenSeq
    <3> QED BY <3>1, <3>2 DEF Dropping
  <2>3. D(s) \o <<>> = D(s)
    <3>1. \A w \in Seq(S) : w \o <<>> = w
      OBVIOUS
    <3> QED BY <1>2, <3>1
  <2> HIDE DEF D, pre
  <2>4. D(s \o pre(0)) = D(s) \o D(pre(0))
    BY <2>1, <2>2, <2>3
  <2> QED BY <2>4
<1>4. ASSUME NEW n \in Nat, n \in K PROVE n + 1 \in K
  <2>1. SUFFICES ASSUME n + 1 <= Len(u) PROVE D(s \o pre(n + 1)) = D(s) \o D(pre(n + 1))
    OBVIOUS
  <2> DEFINE x == u[n + 1]  p == pre(n)
  <2>2. x \in S /\ p \in Seq(S) /\ pre(n + 1) = Append(p, x)
    BY <1>1, <2>1
  <2>3. D(s \o p) = D(s) \o D(p)
    BY <1>1, <1>4, <2>1
  <2> HIDE DEF p, x, pre
  <2>4. s \o Append(p, x) = Append(s \o p, x) /\ s \o p \in Seq(S)
    BY <2>2
  <2>5. D(Append(s \o p, x)) = D(s \o p) \o Kept(gone, x)
    BY <2>2, <2>4, DroppingAppend
  <2>6. D(Append(p, x)) = D(p) \o Kept(gone, x)
    BY <2>2, DroppingAppend
  <2>7. Kept(gone, x) \in Seq(S)
    BY <2>2 DEF Kept
  <2>8. D(s) \in Seq(S) /\ D(p) \in Seq(S)
    BY <1>2, <2>2
  <2> HIDE DEF D
  <2>9. (D(s) \o D(p)) \o Kept(gone, x) = D(s) \o (D(p) \o Kept(gone, x))
    BY <2>7, <2>8
  <2> QED BY <2>2, <2>3, <2>4, <2>5, <2>6, <2>9
<1>5. \A n \in Nat : n \in K => n + 1 \in K
  BY <1>4
<1>6. Nat \subseteq K
  <2> HIDE DEF K
  <2> QED BY <1>3, <1>5, NatSetInduction
<1>7. D(s \o pre(Len(u))) = D(s) \o D(pre(Len(u)))
  BY <1>1, <1>6
<1> HIDE DEF D
<1>8. D(s \o u) = D(s) \o D(u)
  BY <1>1, <1>7
<1> QED BY <1>8 DEF D

-----------------------------------------------------------------------------
(* The traces that SameBehaviour compares are traces of two such graphs.    *)

Recursion(f, m, S, c, nx) ==
  f = [n \in 0..m |-> [b \in S |-> IF n = 0 THEN <<>>
                                   ELSE IF nx[b] = 0 THEN c[b]
                                   ELSE Shown(c[b] \o f[n-1][nx[b]])]]

LEMMA RecursionExists ==
  ASSUME NEW S, NEW c, NEW nx, NEW m \in Nat
  PROVE  \E f : Recursion(f, m, S, c, nx)
<1> DEFINE Row(f, n) == [b \in S |-> IF n = 0 THEN <<>>
                                     ELSE IF nx[b] = 0 THEN c[b]
                                     ELSE Shown(c[b] \o f[n-1][nx[b]])]
           Rec(f, k) == f = [n \in 0..k |-> Row(f, n)]
           K == {k \in Nat : \E f : Rec(f, k)}
<1>1. 0 \in K
  <2> DEFINE f == [n \in 0..0 |-> [b \in S |-> <<>>]]
  <2>1. \A n \in 0..0 : n = 0
    OBVIOUS
  <2>2. \A n \in 0..0 : Row(f, n) = [b \in S |-> <<>>]
    BY <2>1
  <2> HIDE DEF Row
  <2>3. f = [n \in 0..0 |-> Row(f, n)]
    BY <2>2
  <2>4. Rec(f, 0)
    BY <2>3
  <2> HIDE DEF f, Rec
  <2> QED BY <2>4
<1>2. ASSUME NEW k \in Nat, k \in K PROVE k + 1 \in K
  <2>1. PICK f : Rec(f, k)
    BY <1>2
  <2> DEFINE g == [n \in 0..(k+1) |-> IF n = k + 1 THEN Row(f, n) ELSE f[n]]
  <2>2. \A n \in 0..k : f[n] = Row(f, n)
    <3> DEFINE h == [n \in 0..k |-> Row(f, n)]
    <3>1. f = h
      BY <2>1, Zenon
    <3>2. \A n \in 0..k : h[n] = Row(f, n)
      OBVIOUS
    <3> QED BY <3>1, <3>2
  <2>3. \A n \in 0..(k+1) : n # 0 => n - 1 \in 0..(k+1) /\ n - 1 # k + 1
    OBVIOUS
  <2>4. \A n \in 0..(k+1) : n # k + 1 => n \in 0..k
    OBVIOUS
  <2>5. ASSUME NEW n \in 0..(k+1) PROVE g[n] = Row(g, n)
    <3>1. n # 0 => g[n-1] = f[n-1]
      BY <2>3
    <3>2. Row(g, n) = Row(f, n)
      <4> HIDE DEF g
      <4>1. CASE n = 0
        BY <4>1
      <4>2. CASE n # 0
        BY <3>1, <4>2
      <4> QED BY <4>1, <4>2
    <3> HIDE DEF Row
    <3>3. g[n] = IF n = k + 1 THEN Row(f, n) ELSE f[n]
      OBVIOUS
    <3> QED BY <2>2, <2>4, <3>2, <3>3
  <2>6. g = [n \in 0..(k+1) |-> Row(g, n)]
    <3>1. g = [n \in 0..(k+1) |-> g[n]]
      OBVIOUS
    <3> HIDE DEF g, Row
    <3> QED BY <3>1, <2>5
  <2>7. Rec(g, k + 1)
    BY <2>6
  <2> HIDE DEF Rec, g
  <2> QED BY <2>7
<1>3. \A k \in Nat : k \in K => k + 1 \in K
  BY <1>2
<1>4. Nat \subseteq K
  <2> HIDE DEF K
  <2> QED BY <1>1, <1>3, NatSetInduction
<1>5. PICK f : Rec(f, m)
  <2> HIDE DEF Rec
  <2> QED BY <1>4
<1>6. Recursion(f, m, S, c, nx)
  BY <1>5, Zenon DEF Recursion
<1> QED BY <1>6

StepsOf(T, M, I, c, nx) ==
  /\ \A b \in I : T[0][b] = <<>>
  /\ \A n \in 0..M : n < M =>
       \A b \in I : T[n + 1][b] = IF nx[b] = 0 THEN c[b] ELSE Shown(c[b] \o T[n][nx[b]])

LEMMA RecursionSteps ==
  ASSUME NEW S, NEW c, NEW nx, NEW m \in Nat, NEW f,
         Recursion(f, m, S, c, nx)
  PROVE  StepsOf(f, m, S, c, nx)
<1> DEFINE v(n, b) == IF n = 0 THEN <<>> ELSE IF nx[b] = 0 THEN c[b] ELSE Shown(c[b] \o f[n-1][nx[b]])
           h == [n \in 0..m |-> [b \in S |-> v(n, b)]]
<1>1. f = h
  BY Zenon DEF Recursion
<1>2. \A n \in 0..m : \A b \in S : h[n][b] = v(n, b)
  <2> HIDE DEF v
  <2> QED OBVIOUS
<1>3. \A n \in 0..m : \A b \in S : f[n][b] = v(n, b)
  <2> HIDE DEF v, h
  <2> QED BY <1>1, <1>2
<1> HIDE DEF h
<1>4. \A b \in S : f[0][b] = <<>>
  <2>1. 0 \in 0..m
    OBVIOUS
  <2> QED BY <1>3, <2>1
<1>5. ASSUME NEW n \in 0..m, n < m, NEW b \in S
      PROVE  f[n + 1][b] = IF nx[b] = 0 THEN c[b] ELSE Shown(c[b] \o f[n][nx[b]])
  <2>1. n + 1 \in 0..m /\ n + 1 # 0 /\ (n + 1) - 1 = n
    BY <1>5
  <2>2. f[n + 1][b] = v(n + 1, b)
    BY <1>3, <2>1
  <2> QED BY <2>1, <2>2
<1> HIDE DEF v
<1> QED BY <1>4, <1>5 DEF StepsOf

(* What every block executes before it jumps, and where to, in the function *)
(* as parsed and in what is left of it.                                     *)
MoveKept(ms, p, b) == IF b \in prog.phis /\ <<p, b>> \notin ms THEN << <<p, b>> >> ELSE <<>>

ParsedChunk(ms) ==
  [b \in 1..NumBBs |->
     IF Len(prog.to[b]) # 1 THEN Append(prog.body[b], <<b, -1>>)
     ELSE prog.body[b] \o MoveKept(ms, b, prog.to[b][1])]

ParsedNext == [b \in 1..NumBBs |-> IF Len(prog.to[b]) = 1 THEN prog.to[b][1] ELSE 0]

LeftChunk ==
  [b \in Ids |-> IF Len(to[b]) # 1 THEN Append(body[b], <<own[b], -1>>) ELSE body[b]]

LeftNext == [b \in Ids |-> IF Len(to[b]) = 1 THEN to[b][1] ELSE 0]

LEMMA StepsFacts == Steps \in Nat /\ Steps = Horizon * Cardinality(Ids) /\ Cardinality(Ids) \in Nat
                    /\ IsFiniteSet(Ids) /\ Cardinality(Ids) = NumBBs + 2 * MaxMulti
<1>1. NumBBs + 2 * MaxMulti \in Nat /\ Ids = 1..(NumBBs + 2 * MaxMulti)
  BY IdsFacts
<1>2. \A n \in Nat : IsFiniteSet(1..n) /\ Cardinality(1..n) = n
  BY FS_Interval
<1>3. Cardinality(Ids) = NumBBs + 2 * MaxMulti /\ IsFiniteSet(Ids)
  BY <1>1, <1>2
<1>4. \A a, b \in Nat : a * b \in Nat
  OBVIOUS
<1> QED BY <1>1, <1>3, <1>4, HorizonFacts DEF Steps

LEMMA FinalTraceSteps ==
  ASSUME \A b \in Ids : to[b] \in Seq(Ids)
  PROVE  StepsOf(FinalTrace, Steps, Ids, LeftChunk, LeftNext)
<1> DEFINE Cell(f, n, b) == IF n = 0 THEN <<>>
                            ELSE IF Len(to[b]) # 1 THEN Append(body[b], <<own[b], -1>>)
                            ELSE Shown(body[b] \o f[n-1][to[b][1]])
           Mine(f, n, b) == IF n = 0 THEN <<>>
                            ELSE IF LeftNext[b] = 0 THEN LeftChunk[b]
                            ELSE Shown(LeftChunk[b] \o f[n-1][LeftNext[b]])
           Is(f) == f = [n \in 0..Steps |-> [b \in Ids |-> Cell(f, n, b)]]
<1>1. ASSUME NEW b \in Ids, NEW f, NEW n PROVE Cell(f, n, b) = Mine(f, n, b)
  <2>1. /\ LeftChunk[b] = IF Len(to[b]) # 1 THEN Append(body[b], <<own[b], -1>>) ELSE body[b]
        /\ LeftNext[b] = IF Len(to[b]) = 1 THEN to[b][1] ELSE 0
    BY DEF LeftChunk, LeftNext
  <2>2. Len(to[b]) = 1 => to[b][1] # 0
    <3>1. Len(to[b]) = 1 => to[b][1] \in Ids
      OBVIOUS
    <3> QED BY <3>1, IdsFacts
  <2> QED BY <2>1, <2>2
<1>2. \A f : [n \in 0..Steps |-> [b \in Ids |-> Cell(f, n, b)]] = [n \in 0..Steps |-> [b \in Ids |-> Mine(f, n, b)]]
  <2> TAKE f
  <2> HIDE DEF Cell, Mine
  <2>1. \A n \in 0..Steps : [b \in Ids |-> Cell(f, n, b)] = [b \in Ids |-> Mine(f, n, b)]
    BY <1>1
  <2> QED BY <2>1
<1>3. \E f : f = [n \in 0..Steps |-> [b \in Ids |-> Mine(f, n, b)]]
  <2>1. PICK f : Recursion(f, Steps, Ids, LeftChunk, LeftNext)
    BY StepsFacts, RecursionExists
  <2>2. f = [n \in 0..Steps |-> [b \in Ids |-> Mine(f, n, b)]]
    BY <2>1, Zenon DEF Recursion
  <2> HIDE DEF Mine
  <2> QED BY <2>2
<1>4. \E f : Is(f)
  <2> HIDE DEF Cell, Mine
  <2> QED BY <1>2, <1>3
<1>5. FinalTrace = CHOOSE f : Is(f)
  BY Zenon DEF FinalTrace
<1>6. Is(FinalTrace)
  <2> HIDE DEF Is
  <2> QED BY <1>4, <1>5, Zenon
<1>7. FinalTrace = [n \in 0..Steps |-> [b \in Ids |-> Mine(FinalTrace, n, b)]]
  <2> HIDE DEF Cell, Mine
  <2> QED BY <1>2, <1>6
<1>8. Recursion(FinalTrace, Steps, Ids, LeftChunk, LeftNext)
  BY <1>7, Zenon DEF Recursion
<1> QED BY <1>8, StepsFacts, RecursionSteps

LEMMA ParsedTraceSteps ==
  ASSUME ProgOK
  PROVE  StepsOf(ParsedTrace, Steps, 1..NumBBs, ParsedChunk(killed), ParsedNext)
<1> DEFINE I == 1..NumBBs
           C == ParsedChunk(killed)
           Cell(f, n, b) == IF n = 0 THEN <<>>
                            ELSE IF Len(prog.to[b]) # 1 THEN Append(prog.body[b], <<b, -1>>)
                            ELSE Shown(prog.body[b] \o MoveOn(b, prog.to[b][1]) \o f[n-1][prog.to[b][1]])
           Mine(f, n, b) == IF n = 0 THEN <<>>
                            ELSE IF ParsedNext[b] = 0 THEN C[b]
                            ELSE Shown(C[b] \o f[n-1][ParsedNext[b]])
           Is(f) == f = [n \in 0..Steps |-> [b \in I |-> Cell(f, n, b)]]
<1>1. ASSUME NEW b \in I, NEW f, NEW n PROVE Cell(f, n, b) = Mine(f, n, b)
  <2>0. \A p, x : MoveOn(p, x) = MoveKept(killed, p, x)
    BY DEF MoveOn, MoveKept
  <2>1. /\ C[b] = IF Len(prog.to[b]) # 1 THEN Append(prog.body[b], <<b, -1>>)
                  ELSE prog.body[b] \o MoveOn(b, prog.to[b][1])
        /\ ParsedNext[b] = IF Len(prog.to[b]) = 1 THEN prog.to[b][1] ELSE 0
    BY <2>0 DEF ParsedChunk, ParsedNext
  <2>2. Len(prog.to[b]) = 1 => prog.to[b][1] # 0
    <3>1. prog.to[b] \in Seq(1..NumBBs)
      BY TargetsFacts DEF ProgOK
    <3>2. Len(prog.to[b]) = 1 => prog.to[b][1] \in 1..NumBBs
      <4>1. Len(prog.to[b]) = 1 => 1 \in 1..Len(prog.to[b])
        OBVIOUS
      <4>2. \A i \in 1..Len(prog.to[b]) : prog.to[b][i] \in 1..NumBBs
        BY <3>1, ElementOfSeq
      <4> QED BY <4>1, <4>2
    <3> QED BY <3>2, IdsFacts
  <2> HIDE DEF C
  <2> QED BY <2>1, <2>2
<1>2. \A f : [n \in 0..Steps |-> [b \in I |-> Cell(f, n, b)]] = [n \in 0..Steps |-> [b \in I |-> Mine(f, n, b)]]
  <2> TAKE f
  <2> HIDE DEF Cell, Mine, I
  <2>1. \A n \in 0..Steps : [b \in I |-> Cell(f, n, b)] = [b \in I |-> Mine(f, n, b)]
    BY <1>1
  <2> QED BY <2>1
<1>3. \E f : f = [n \in 0..Steps |-> [b \in I |-> Mine(f, n, b)]]
  <2>1. PICK f : Recursion(f, Steps, I, C, ParsedNext)
    <3> HIDE DEF C, I, Mine
    <3> QED BY StepsFacts, RecursionExists
  <2>2. f = [n \in 0..Steps |-> [b \in I |-> Mine(f, n, b)]]
    BY <2>1, Zenon DEF Recursion
  <2> HIDE DEF Mine
  <2> QED BY <2>2
<1>4. \E f : Is(f)
  <2> HIDE DEF Cell, Mine, I
  <2> QED BY <1>2, <1>3
<1>5. ParsedTrace = CHOOSE f : Is(f)
  BY Zenon DEF ParsedTrace
<1>6. Is(ParsedTrace)
  <2> HIDE DEF Is
  <2> QED BY <1>4, <1>5, Zenon
<1>7. ParsedTrace = [n \in 0..Steps |-> [b \in I |-> Mine(ParsedTrace, n, b)]]
  <2> HIDE DEF Cell, Mine, I
  <2> QED BY <1>2, <1>6
<1>8. Recursion(ParsedTrace, Steps, I, C, ParsedNext)
  BY <1>7, Zenon DEF Recursion
<1> HIDE DEF C, I
<1>9. StepsOf(ParsedTrace, Steps, I, C, ParsedNext)
  BY <1>8, StepsFacts, RecursionSteps
<1> QED BY <1>9 DEF C, I

-----------------------------------------------------------------------------
(* What is executed stays the same.  V[b] is what is executed from b on,    *)
(* R[b] the jumps to the next block that executes something.                *)
LEMMA ConcatEmpty ==
  ASSUME NEW T, NEW u \in Seq(T)
  PROVE  <<>> \o u = u /\ u \o <<>> = u
OBVIOUS

LEMMA ConcatIsEmpty ==
  ASSUME NEW T, NEW u \in Seq(T), NEW w \in Seq(T), u \o w = <<>>
  PROVE  u = <<>> /\ w = <<>>
OBVIOUS

LEMMA AppendFacts ==
  ASSUME NEW T, NEW u \in Seq(T), NEW w \in Seq(T), NEW x \in T
  PROVE  /\ Append(w, x) \in Seq(T)
         /\ u \o Append(w, x) = Append(u \o w, x)
OBVIOUS

LEMMA OnlyTarget ==
  ASSUME NEW S, NEW s \in Seq(S), Len(s) = 1
  PROVE  s[1] \in S /\ s = <<s[1]>>
<1>1. s[1] \in S
  OBVIOUS
<1>2. DOMAIN s = {1} /\ DOMAIN <<s[1]>> = {1} /\ <<s[1]>>[1] = s[1]
  OBVIOUS
<1>3. s = [i \in DOMAIN s |-> s[i]] /\ <<s[1]>> = [i \in DOMAIN <<s[1]>> |-> <<s[1]>>[i]]
  OBVIOUS
<1> QED BY <1>1, <1>2, <1>3

Suits(ms, V, R) ==
  /\ \A b \in Ids : V[b] \in Seq(Tok) /\ R[b] \in 0..(Cardinality(Ids) - 1)
  /\ Solves(1..NumBBs, NumBBs, ParsedChunk(ms), ParsedNext, V, R)

(* Block b executes w and jumps to t. *)
Jumps(w, V, R, b, t) ==
  /\ Alike(Horizon, V[b], w \o V[t])
  /\ w = <<>> /\ V[b] # <<>> => R[t] < R[b]

WayParsed(ms, V, p, i) == MoveKept(ms, p, prog.to[p][i]) \o V[prog.to[p][i]]

Decision(p) == p \in 1..NumBBs /\ Len(prog.to[p]) = 2

RunsLate(tos, ow, ms, bd, V, R, b) ==
  /\ Len(tos[b]) = 1 => Jumps(bd[b], V, R, b, tos[b][1])
  /\ Len(tos[b]) # 1 => Alike(Horizon, V[b], Append(bd[b], <<ow[b], -1>>))
  /\ Len(tos[b]) = 2 =>
       /\ Decision(ow[b])
       /\ \A i \in 1..2 : Alike(Horizon, V[tos[b][i]], WayParsed(ms, V, ow[b], i))

LateFlow(tos, ow, ms, bd, bbs, V, R) ==
  /\ Suits(ms, V, R)
  /\ \A b \in Ids : Holds(bbs, b) => RunsLate(tos, ow, ms, bd, V, R, b)

LEMMA JumpsOn ==
  ASSUME NEW ms, NEW V, NEW R, Suits(ms, V, R), NEW u \in Seq(Tok), NEW w \in Seq(Tok),
         NEW a \in Ids, NEW b \in Ids, Jumps(u, V, R, a, b)
  PROVE  /\ \A c \in Ids : Jumps(w, V, R, b, c) => Jumps(u \o w, V, R, a, c)
         /\ Alike(Horizon, V[b], w) => Alike(Horizon, V[a], u \o w)
<1>1. /\ V[a] \in Seq(Tok) /\ V[b] \in Seq(Tok) /\ R[a] \in Int /\ R[b] \in Int
      /\ Horizon \in Nat /\ Horizon >= 1 /\ Len(u) \in Nat
  BY HorizonFacts DEF Suits
<1>2. \A s \in Seq(Tok) : Alike(Horizon, V[b], s) => Alike(Horizon, V[a], u \o s)
  <2> TAKE s \in Seq(Tok)
  <2> HAVE Alike(Horizon, V[b], s)
  <2>1. Horizon <= Horizon + Len(u)
    BY <1>1
  <2>2. Alike(Horizon, u \o V[b], u \o s)
    BY <1>1, <2>1, AlikeAfter
  <2>3. Alike(Horizon, V[a], u \o V[b])
    BY DEF Jumps
  <2> QED BY <2>2, <2>3, AlikeTrans
<1>3. ASSUME NEW c \in Ids, Jumps(w, V, R, b, c)
      PROVE  Jumps(u \o w, V, R, a, c)
  <2>1. V[c] \in Seq(Tok) /\ R[c] \in Int
    BY DEF Suits
  <2>2. /\ w \o V[c] \in Seq(Tok) /\ (u \o w) \o V[c] = u \o (w \o V[c])
        /\ u \o w = <<>> => u = <<>> /\ w = <<>>
        /\ u = <<>> => u \o V[b] = V[b]
    <3>1. w \o V[c] \in Seq(Tok) /\ (u \o w) \o V[c] = u \o (w \o V[c])
      <4>1. \A s1, s2 \in Seq(Tok) : s1 \o s2 \in Seq(Tok)
        OBVIOUS
      <4>2. \A s \in Seq(Tok) : (u \o w) \o s = u \o (w \o s)
        <5> TAKE s \in Seq(Tok)
        <5> QED OBVIOUS
      <4> QED BY <2>1, <4>1, <4>2
    <3>2. u \o w = <<>> => u = <<>> /\ w = <<>>
      BY ConcatIsEmpty
    <3>3. <<>> \o V[b] = V[b]
      BY <1>1, ConcatEmpty
    <3> QED BY <3>1, <3>2, <3>3
  <2>3. Alike(Horizon, V[a], (u \o w) \o V[c])
    BY <1>2, <1>3, <2>2 DEF Jumps
  <2>4. ASSUME u \o w = <<>>, V[a] # <<>> PROVE R[c] < R[a]
    <3>1. u = <<>> /\ w = <<>> /\ Alike(Horizon, V[a], V[b])
      BY <2>2, <2>4 DEF Jumps
    <3>2. V[b] # <<>>
      BY <1>1, <2>4, <3>1, AlikeEmpty
    <3>3. R[c] < R[b] /\ R[b] < R[a]
      BY <1>3, <2>4, <3>1, <3>2 DEF Jumps
    <3> QED BY <1>1, <2>1, <3>3
  <2> QED BY <2>3, <2>4 DEF Jumps
<1> QED BY <1>2, <1>3

(* eliminate_dead_code merges b into the only block that jumps to it. *)
LEMMA FlowMerge ==
  ASSUME NEW tos \in [Ids -> Seq(Ids)], NEW ow \in [Ids -> Ids], NEW bd \in [Ids -> Seq(Tok)],
         NEW ms, NEW bbs, NEW V, NEW R, LateFlow(tos, ow, ms, bd, bbs, V, R),
         NEW from \in Ids, NEW b \in Ids, from # b, tos[from] = <<b>>,
         Holds(bbs, from), Holds(bbs, b), NEW bbs2, \A x \in Ids : Holds(bbs2, x) => Holds(bbs, x)
  PROVE  LateFlow([tos EXCEPT ![from] = tos[b]], [ow EXCEPT ![from] = ow[b]], ms,
                  [bd EXCEPT ![from] = @ \o bd[b]], bbs2, V, R)
<1> DEFINE tos2 == [tos EXCEPT ![from] = tos[b]]
           ow2 == [ow EXCEPT ![from] = ow[b]]
           bd2 == [bd EXCEPT ![from] = @ \o bd[b]]
<1>1. /\ tos2[from] = tos[b] /\ ow2[from] = ow[b] /\ bd2[from] = bd[from] \o bd[b]
      /\ \A x \in Ids : x # from => tos2[x] = tos[x] /\ ow2[x] = ow[x] /\ bd2[x] = bd[x]
  OBVIOUS
<1>2. /\ Suits(ms, V, R)
      /\ RunsLate(tos, ow, ms, bd, V, R, from) /\ RunsLate(tos, ow, ms, bd, V, R, b)
  BY DEF LateFlow
<1>3. bd[from] \in Seq(Tok) /\ bd[b] \in Seq(Tok) /\ tos[b] \in Seq(Ids)
  OBVIOUS
<1>4. Jumps(bd[from], V, R, from, b)
  <2>1. Len(tos[from]) = 1 /\ tos[from][1] = b
    OBVIOUS
  <2> QED BY <1>2, <2>1 DEF RunsLate
<1> HIDE DEF tos2, ow2, bd2
<1>5. Len(tos[b]) = 1 => Jumps(bd2[from], V, R, from, tos[b][1])
  <2>1. Len(tos[b]) = 1 => tos[b][1] \in Ids
    BY <1>3, OnlyTarget
  <2> QED BY <1>1, <1>2, <1>3, <1>4, <2>1, JumpsOn DEF RunsLate
<1>6. Len(tos[b]) # 1 => Alike(Horizon, V[from], Append(bd2[from], <<ow[b], -1>>))
  <2>1. <<ow[b], -1>> \in Tok
    BY DEF Tok
  <2>2. /\ Append(bd[b], <<ow[b], -1>>) \in Seq(Tok)
        /\ bd[from] \o Append(bd[b], <<ow[b], -1>>) = Append(bd2[from], <<ow[b], -1>>)
    <3> DEFINE z == <<ow[b], -1>>
    <3>1. z \in Tok
      BY <2>1
    <3> HIDE DEF z
    <3>2. Append(bd[b], z) \in Seq(Tok) /\ bd[from] \o Append(bd[b], z) = Append(bd[from] \o bd[b], z)
      BY <1>3, <3>1, AppendFacts
    <3> QED BY <1>1, <3>2 DEF z
  <2>3. Len(tos[b]) # 1 => Alike(Horizon, V[b], Append(bd[b], <<ow[b], -1>>))
    BY <1>2 DEF RunsLate
  <2> QED BY <1>2, <1>3, <1>4, <2>2, <2>3, JumpsOn
<1>7. RunsLate(tos2, ow2, ms, bd2, V, R, from)
  BY <1>1, <1>2, <1>5, <1>6 DEF RunsLate
<1>8. ASSUME NEW x \in Ids, x # from, Holds(bbs, x) PROVE RunsLate(tos2, ow2, ms, bd2, V, R, x)
  <2>1. RunsLate(tos, ow, ms, bd, V, R, x)
    BY <1>8 DEF LateFlow
  <2> QED BY <1>1, <1>8, <2>1 DEF RunsLate
<1>9. LateFlow(tos2, ow2, ms, bd2, bbs2, V, R)
  BY <1>2, <1>7, <1>8 DEF LateFlow
<1> QED BY <1>9 DEF tos2, ow2, bd2

(* remove_empty_bb lets the blocks that branch to b branch to nb. *)
LEMMA FlowRemove ==
  ASSUME NEW tos \in [Ids -> Seq(Ids)], NEW ow \in [Ids -> Ids], NEW bd \in [Ids -> Seq(Tok)],
         NEW ms, NEW bbs, NEW V, NEW R, LateFlow(tos, ow, ms, bd, bbs, V, R),
         NEW b \in Ids, NEW nb \in Ids, tos[b] = <<nb>>, bd[b] = <<>>, Holds(bbs, b),
         NEW bbs2, \A x \in Ids : Holds(bbs2, x) => Holds(bbs, x) /\ x # b,
         NEW tos2, \A x \in Ids : Holds(bbs2, x) => tos2[x] = Replaced(tos[x], b, nb) \/ tos2[x] = tos[x]
  PROVE  LateFlow(tos2, ow, ms, bd, bbs2, V, R)
<1>1. Suits(ms, V, R) /\ RunsLate(tos, ow, ms, bd, V, R, b)
  BY DEF LateFlow
<1>2. Jumps(<<>>, V, R, b, nb)
  <2>1. Len(tos[b]) = 1 /\ tos[b][1] = nb
    OBVIOUS
  <2> QED BY <1>1, <2>1 DEF RunsLate
<1>3. Alike(Horizon, V[b], V[nb])
  <2>1. V[nb] \in Seq(Tok)
    BY <1>1 DEF Suits
  <2>2. <<>> \o V[nb] = V[nb]
    BY <2>1
  <2> QED BY <1>2, <2>2 DEF Jumps
<1>4. ASSUME NEW x \in Ids, Holds(bbs2, x) PROVE RunsLate(tos2, ow, ms, bd, V, R, x)
  <2>1. RunsLate(tos, ow, ms, bd, V, R, x) /\ tos[x] \in Seq(Ids) /\ bd[x] \in Seq(Tok)
    BY <1>4 DEF LateFlow
  <2>2. CASE tos2[x] = tos[x]
    BY <2>1, <2>2 DEF RunsLate
  <2>3. CASE tos2[x] = Replaced(tos[x], b, nb)
    <3>1. /\ Len(tos2[x]) = Len(tos[x]) /\ Len(tos[x]) \in Nat
          /\ \A i \in 1..Len(tos[x]) : tos2[x][i] = IF tos[x][i] = b THEN nb ELSE tos[x][i]
      <4> DEFINE r == Replaced(tos[x], b, nb)
      <4>1. /\ Len(r) = Len(tos[x])
            /\ \A i \in 1..Len(tos[x]) : r[i] = IF tos[x][i] = b THEN nb ELSE tos[x][i]
        BY <2>1, ReplacedHolds
      <4>2. Len(tos[x]) \in Nat
        BY <2>1
      <4> HIDE DEF r
      <4> QED BY <2>3, <4>1, <4>2 DEF r
    <3>2. Len(tos[x]) = 1 => Jumps(bd[x], V, R, x, tos2[x][1])
      <4>1. Len(tos[x]) = 1 => 1 \in 1..Len(tos[x])
        BY <3>1
      <4>2. Jumps(bd[x], V, R, x, b) => Jumps(bd[x] \o <<>>, V, R, x, nb)
        <5>1. <<>> \in Seq(Tok)
          OBVIOUS
        <5> QED BY <1>1, <1>2, <2>1, <5>1, JumpsOn
      <4>3. bd[x] \o <<>> = bd[x]
        BY <2>1
      <4> QED BY <2>1, <3>1, <4>1, <4>2, <4>3 DEF RunsLate
    <3>3. Len(tos[x]) = 2 =>
            \A i \in 1..2 : Alike(Horizon, V[tos2[x][i]], WayParsed(ms, V, ow[x], i))
      <4>1. SUFFICES ASSUME Len(tos[x]) = 2, NEW i \in 1..2
                     PROVE  Alike(Horizon, V[tos2[x][i]], WayParsed(ms, V, ow[x], i))
        OBVIOUS
      <4>2. /\ tos2[x][i] = IF tos[x][i] = b THEN nb ELSE tos[x][i]
            /\ Alike(Horizon, V[tos[x][i]], WayParsed(ms, V, ow[x], i))
        BY <2>1, <3>1, <4>1 DEF RunsLate
      <4>3. Alike(Horizon, V[nb], V[b])
        BY <1>3, AlikeSym
      <4> QED BY <4>2, <4>3, AlikeTrans
    <3> QED BY <2>1, <3>1, <3>2, <3>3 DEF RunsLate
  <2> QED BY <1>4, <2>2, <2>3
<1> QED BY <1>1, <1>4 DEF LateFlow

-----------------------------------------------------------------------------
(* What is left of the function at the end executes what was parsed.        *)
ParsedOK ==
  /\ \A b \in 1..NumBBs : prog.body[b] = <<>> \/ prog.body[b] = << <<b, 0>> >>
  /\ 1 \notin prog.phis

LEMMA ParsedTarget ==
  ASSUME ProgOK, NEW b \in 1..NumBBs
  PROVE  /\ prog.to[b] \in Seq(1..NumBBs) /\ Len(prog.to[b]) \in 0..2
         /\ \A i \in 1..Len(prog.to[b]) : prog.to[b][i] \in 1..NumBBs
         /\ Len(prog.to[b]) = 1 => prog.to[b][1] \in 1..NumBBs /\ prog.to[b] = <<prog.to[b][1]>>
<1>1. prog.to[b] \in Targets
  BY DEF ProgOK
<1>2. prog.to[b] \in Seq(1..NumBBs) /\ Len(prog.to[b]) \in 0..2
  BY <1>1, TargetsFacts
<1> QED BY <1>2, OnlyTarget, ElementOfSeq

LEMMA ParsedGraph ==
  ASSUME ProgOK, ParsedOK, NEW ms
  PROVE  JumpGraph(1..NumBBs, ParsedChunk(ms), ParsedNext)
<1>1. ASSUME NEW b \in 1..NumBBs
      PROVE  ParsedChunk(ms)[b] \in Seq(Tok) /\ (ParsedNext[b] = 0 \/ ParsedNext[b] \in 1..NumBBs)
  <2>1. /\ b \in Ids
        /\ <<b, 0>> \in Tok /\ <<b, -1>> \in Tok
    <3>1. b \in Ids
      BY IdsFacts
    <3> QED BY <3>1 DEF Tok
  <2>2. ParsedNext[b] = 0 \/ ParsedNext[b] \in 1..NumBBs
    BY ParsedTarget DEF ParsedNext
  <2>3. prog.body[b] \in Seq(Tok)
    <3>1. << <<b, 0>> >> \in Seq(Tok) /\ <<>> \in Seq(Tok)
      BY <2>1
    <3> QED BY <3>1 DEF ParsedOK
  <2>4. \A x : MoveKept(ms, b, x) \in Seq(Tok)
    <3> TAKE x
    <3>1. CASE x \in prog.phis /\ <<b, x>> \notin ms
      <4>1. x \in Int
        BY <3>1, IdsFacts DEF ProgOK
      <4>2. <<b, x>> \in Tok
        BY <2>1, <4>1 DEF Tok
      <4>3. << <<b, x>> >> \in Seq(Tok)
        BY <4>2
      <4> QED BY <3>1, <4>3 DEF MoveKept
    <3>2. CASE ~(x \in prog.phis /\ <<b, x>> \notin ms)
      BY <3>2 DEF MoveKept
    <3> QED BY <3>1, <3>2
  <2>5. /\ Append(prog.body[b], <<b, -1>>) \in Seq(Tok)
        /\ prog.body[b] \o MoveKept(ms, b, prog.to[b][1]) \in Seq(Tok)
    <3>1. \A u, w \in Seq(Tok) : \A x \in Tok : u \o w \in Seq(Tok) /\ Append(u, x) \in Seq(Tok)
      OBVIOUS
    <3> QED BY <2>1, <2>3, <2>4, <3>1
  <2>6. ParsedChunk(ms)[b] = IF Len(prog.to[b]) # 1 THEN Append(prog.body[b], <<b, -1>>)
                             ELSE prog.body[b] \o MoveKept(ms, b, prog.to[b][1])
    BY DEF ParsedChunk
  <2> QED BY <2>2, <2>5, <2>6
<1> QED BY <1>1, IdsFacts DEF JumpGraph

LEMMA StepsUnroll ==
  ASSUME NEW I, NEW c, NEW nx, JumpGraph(I, c, nx), NEW M \in Nat, NEW T, StepsOf(T, M, I, c, nx)
  PROVE  (\A b \in I : T[0][b] = <<>>) /\ Unrolls(T, M, I, c, nx)
<1> DEFINE Typed2(n) == \A b \in I : T[n][b] \in Seq(Tok)
           S == {n \in Nat : n \in 0..M => Typed2(n)}
<1>1. \A b \in I : T[0][b] = <<>>
  BY DEF StepsOf
<1>2. 0 \in S
  <2>1. <<>> \in Seq(Tok)
    OBVIOUS
  <2>2. Typed2(0)
    BY <1>1, <2>1
  <2> HIDE DEF Typed2
  <2> QED BY <2>2
<1>3. ASSUME NEW n \in 0..M, n < M, Typed2(n), NEW b \in I
      PROVE  T[n + 1][b] \in Seq(Tok) /\ Alike(Horizon, T[n + 1][b], After(c, nx, T[n], b))
  <2>1. /\ c[b] \in Seq(Tok)
        /\ nx[b] = 0 \/ nx[b] \in I
    BY DEF JumpGraph
  <2>2. T[n + 1][b] = IF nx[b] = 0 THEN c[b] ELSE Shown(c[b] \o T[n][nx[b]])
    BY <1>3 DEF StepsOf
  <2>3. CASE nx[b] = 0
    BY <2>1, <2>2, <2>3, AlikeSame DEF After
  <2>4. CASE nx[b] # 0
    <3>1. T[n][nx[b]] \in Seq(Tok)
      BY <1>3, <2>1, <2>4
    <3> DEFINE s == c[b] \o T[n][nx[b]]
    <3>2. s \in Seq(Tok)
      BY <2>1, <3>1
    <3>3. T[n + 1][b] = Shown(s) /\ After(c, nx, T[n], b) = s
      BY <2>2, <2>4 DEF After
    <3> HIDE DEF s
    <3>4. Shown(s) \in Seq(Tok) /\ Alike(Horizon, Shown(s), s)
      BY <3>2, ShownFacts
    <3> QED BY <3>3, <3>4
  <2> QED BY <2>3, <2>4
<1>4. ASSUME NEW n \in Nat, n \in S PROVE n + 1 \in S
  <2>1. n + 1 \in 0..M => n \in 0..M /\ n < M
    OBVIOUS
  <2>2. n + 1 \in 0..M => Typed2(n)
    BY <1>4, <2>1
  <2>3. n + 1 \in 0..M => Typed2(n + 1)
    BY <1>3, <2>1, <2>2
  <2> QED BY <2>3
<1>5. \A n \in Nat : n \in S => n + 1 \in S
  BY <1>4
<1>6. Nat \subseteq S
  <2> HIDE DEF S
  <2> QED BY <1>2, <1>5, NatSetInduction
<1>7. \A n \in 0..M : Typed2(n)
  BY <1>6
<1> HIDE DEF Typed2
<1>8. \A n \in 0..M : \A b \in I : n < M => Alike(Horizon, T[n + 1][b], After(c, nx, T[n], b))
  BY <1>3, <1>7
<1> QED BY <1>1, <1>7, <1>8 DEF Unrolls, Typed2

LEMMA StepsEnough ==
  Cardinality(Ids) \in Nat /\ Steps \in Nat /\ Steps >= Horizon * Cardinality(Ids) /\ Steps >= Horizon * NumBBs
<1>1. /\ Steps \in Nat /\ Steps = Horizon * Cardinality(Ids)
      /\ Cardinality(Ids) = NumBBs + 2 * MaxMulti /\ NumBBs \in Nat /\ MaxMulti \in Nat /\ Horizon \in Nat
  BY StepsFacts, HorizonFacts, IdsFacts
<1>2. \A h, n, m \in Nat : h * (n + 2 * m) >= h * n
  <2> TAKE h, n, m \in Nat
  <2>1. h * (n + 2 * m) = h * n + h * (2 * m)
    OBVIOUS
  <2>2. h * (2 * m) \in Nat /\ h * n \in Nat
    OBVIOUS
  <2> QED BY <2>1, <2>2
<1>3. Horizon * (NumBBs + 2 * MaxMulti) >= Horizon * NumBBs
  BY <1>1, <1>2
<1> QED BY <1>1, <1>3

(* What the function as parsed executes. *)
LEMMA ParsedIs ==
  ASSUME ProgOK, ParsedOK, NEW V, NEW R, Suits(killed, V, R), NEW b \in 1..NumBBs
  PROVE  ParsedTrace[Steps][b] \in Seq(Tok) /\ Alike(Horizon, ParsedTrace[Steps][b], V[b])
<1> DEFINE I == 1..NumBBs
           C == ParsedChunk(killed)
<1>1. JumpGraph(I, C, ParsedNext)
  BY ParsedGraph
<1>2. StepsOf(ParsedTrace, Steps, I, C, ParsedNext)
  BY ParsedTraceSteps
<1>3. Solves(I, NumBBs, C, ParsedNext, V, R)
  BY DEF Suits
<1> HIDE DEF I, C
<1>4. (\A x \in I : ParsedTrace[0][x] = <<>>) /\ Unrolls(ParsedTrace, Steps, I, C, ParsedNext)
  BY <1>1, <1>2, StepsEnough, StepsUnroll
<1>5. \A x \in I : ParsedTrace[Steps][x] \in Seq(Tok) /\ Alike(Horizon, ParsedTrace[Steps][x], V[x])
  BY <1>1, <1>3, <1>4, StepsEnough, HorizonFacts, SolutionTraced
<1> QED BY <1>5 DEF I

(* What is left of it executes. *)
LEMMA LeftIs ==
  ASSUME to \in [Ids -> Seq(Ids)], own \in [Ids -> Ids], body \in [Ids -> Seq(Tok)],
         \A a, c : Holds(if_bbs, a) /\ Holds(to[a], c) => Holds(if_bbs, c),
         NEW V, NEW R, LateFlow(to, own, killed, body, if_bbs, V, R),
         NEW b \in Ids, Holds(if_bbs, b)
  PROVE  FinalTrace[Steps][b] \in Seq(Tok) /\ Alike(Horizon, FinalTrace[Steps][b], V[b])
<1> DEFINE I == {x \in Ids : Holds(if_bbs, x)}
           N == Cardinality(Ids)
<1>1. \A x \in Ids : /\ LeftChunk[x] = IF Len(to[x]) # 1 THEN Append(body[x], <<own[x], -1>>) ELSE body[x]
                     /\ LeftNext[x] = IF Len(to[x]) = 1 THEN to[x][1] ELSE 0
  BY DEF LeftChunk, LeftNext
<1>2. \A x \in Ids : Len(to[x]) = 1 => to[x][1] \in Ids /\ Holds(to[x], to[x][1]) /\ to[x][1] # 0
  <2>1. \A x \in Ids : to[x] \in Seq(Ids)
    OBVIOUS
  <2>2. \A x \in Ids : Len(to[x]) = 1 => Holds(to[x], to[x][1])
    BY DEF Holds
  <2> QED BY <2>1, <2>2, OnlyTarget, IdsFacts
<1>3. JumpGraph(I, LeftChunk, LeftNext)
  <2>1. ASSUME NEW x \in I PROVE LeftChunk[x] \in Seq(Tok) /\ (LeftNext[x] = 0 \/ LeftNext[x] \in I)
    <3>1. x \in Ids /\ <<own[x], -1>> \in Tok /\ body[x] \in Seq(Tok)
      BY DEF Tok
    <3>2. \A s \in Seq(Tok) : \A e \in Tok : Append(s, e) \in Seq(Tok)
      OBVIOUS
    <3>3. LeftChunk[x] \in Seq(Tok)
      BY <1>1, <3>1, <3>2
    <3>4. LeftNext[x] = 0 \/ LeftNext[x] \in I
      BY <1>1, <1>2, <3>1
    <3> QED BY <3>3, <3>4
  <2>2. 0 \notin I
    BY IdsFacts
  <2> QED BY <2>1, <2>2 DEF JumpGraph
<1>4. StepsOf(FinalTrace, Steps, I, LeftChunk, LeftNext)
  <2>1. StepsOf(FinalTrace, Steps, Ids, LeftChunk, LeftNext)
    <3>1. \A x \in Ids : to[x] \in Seq(Ids)
      OBVIOUS
    <3> QED BY <3>1, FinalTraceSteps
  <2>2. \A x \in I : x \in Ids
    OBVIOUS
  <2> QED BY <2>1, <2>2 DEF StepsOf
<1>5. Solves(I, N, LeftChunk, LeftNext, V, R)
  <2> SUFFICES ASSUME NEW x \in I
               PROVE  /\ V[x] \in Seq(Tok)
                      /\ R[x] \in 0..(N-1)
                      /\ Alike(Horizon, V[x], After(LeftChunk, LeftNext, V, x))
                      /\ LeftNext[x] # 0 /\ LeftChunk[x] = <<>> /\ V[x] # <<>> => R[LeftNext[x]] < R[x]
    BY DEF Solves
  <2>1. V[x] \in Seq(Tok) /\ R[x] \in 0..(N-1) /\ RunsLate(to, own, killed, body, V, R, x)
    BY DEF LateFlow, Suits
  <2>2. CASE Len(to[x]) = 1
    <3>1. LeftNext[x] = to[x][1] /\ LeftChunk[x] = body[x] /\ to[x][1] # 0
      BY <1>1, <1>2, <2>2
    <3>2. Jumps(body[x], V, R, x, to[x][1])
      BY <2>1, <2>2 DEF RunsLate
    <3> QED BY <2>1, <3>1, <3>2 DEF Jumps, After
  <2>3. CASE Len(to[x]) # 1
    <3>1. LeftNext[x] = 0 /\ LeftChunk[x] = Append(body[x], <<own[x], -1>>)
      BY <1>1, <2>3
    <3>2. Alike(Horizon, V[x], Append(body[x], <<own[x], -1>>))
      BY <2>1, <2>3 DEF RunsLate
    <3> QED BY <2>1, <3>1, <3>2 DEF After
  <2> QED BY <2>2, <2>3
<1>6. b \in I
  OBVIOUS
<1> HIDE DEF I, N
<1>7. (\A x \in I : FinalTrace[0][x] = <<>>) /\ Unrolls(FinalTrace, Steps, I, LeftChunk, LeftNext)
  BY <1>3, <1>4, StepsEnough, StepsUnroll
<1>8. N \in Nat /\ Steps >= Horizon * N /\ Steps \in Nat
  BY StepsEnough DEF N
<1>9. \A x \in I : FinalTrace[Steps][x] \in Seq(Tok) /\ Alike(Horizon, FinalTrace[Steps][x], V[x])
  BY <1>3, <1>5, <1>7, <1>8, SolutionTraced
<1> QED BY <1>6, <1>9

-----------------------------------------------------------------------------
(* The function executes nothing before block b but what follows it.        *)
Leads(b) ==
  /\ b \in 1..NumBBs
  /\ \A i \in 1..NumBBs : i < b =>
       prog.body[i] = <<>> /\ prog.to[i] = <<i + 1>> /\ i + 1 \notin prog.phis

LEMMA LeadsAlike ==
  ASSUME NEW ms, NEW V, NEW R, Suits(ms, V, R), NEW b, Leads(b)
  PROVE  Alike(Horizon, V[b], V[1])
<1> DEFINE S == {n \in Nat : Leads(n + 1) => Alike(Horizon, V[n + 1], V[1])}
<1>1. 0 \in S
  BY AlikeSame
<1>2. ASSUME NEW n \in Nat, n \in S PROVE n + 1 \in S
  <2>1. SUFFICES ASSUME Leads((n + 1) + 1) PROVE Alike(Horizon, V[(n + 1) + 1], V[1])
    OBVIOUS
  <2> DEFINE k == n + 1
  <2>2. k \in 1..NumBBs /\ k < k + 1 /\ k + 1 \in 1..NumBBs
    BY <2>1, IdsFacts DEF Leads
  <2>3. prog.body[k] = <<>> /\ prog.to[k] = <<k + 1>> /\ k + 1 \notin prog.phis
    BY <2>1, <2>2 DEF Leads
  <2>4. Leads(k)
    <3>1. \A i \in 1..NumBBs : i < k => i < k + 1
      BY <2>2
    <3> QED BY <2>1, <2>2, <3>1 DEF Leads
  <2>5. Alike(Horizon, V[k], V[1])
    BY <1>2, <2>4
  <2> HIDE DEF k
  <2>6. Alike(Horizon, V[k], After(ParsedChunk(ms), ParsedNext, V, k))
    BY <2>2 DEF Suits, Solves
  <2>7. ParsedChunk(ms)[k] = <<>> /\ ParsedNext[k] = k + 1
    <3>1. Len(prog.to[k]) = 1 /\ prog.to[k][1] = k + 1
      BY <2>3
    <3>2. MoveKept(ms, k, k + 1) = <<>>
      BY <2>3 DEF MoveKept
    <3>3. <<>> \o <<>> = <<>>
      OBVIOUS
    <3> QED BY <2>2, <2>3, <3>1, <3>2, <3>3 DEF ParsedChunk, ParsedNext
  <2>8. After(ParsedChunk(ms), ParsedNext, V, k) = V[k + 1]
    <3>1. V[k + 1] \in Seq(Tok)
      BY <2>2, IdsFacts DEF Suits
    <3>2. <<>> \o V[k + 1] = V[k + 1]
      BY <3>1
    <3> QED BY <2>2, <2>7, <3>2 DEF After
  <2>9. Alike(Horizon, V[k + 1], V[1])
    BY <2>5, <2>6, <2>8, AlikeSym, AlikeTrans
  <2> QED BY <2>9 DEF k
<1>3. \A n \in Nat : n \in S => n + 1 \in S
  BY <1>2
<1>4. Nat \subseteq S
  <2> HIDE DEF S
  <2> QED BY <1>1, <1>3, NatSetInduction
<1>5. b - 1 \in Nat /\ (b - 1) + 1 = b
  BY IdsFacts DEF Leads
<1>6. b - 1 \in S
  BY <1>4, <1>5
<1> QED BY <1>5, <1>6

LEMMA BodyTokens ==
  ASSUME CfgInv
  PROVE  body \in [Ids -> Seq(Tok)] /\ (1..NumBBs) \X (0..NumBBs) \subseteq Tok
<1>1. (1..NumBBs) \X (0..NumBBs) \subseteq Tok
  <2>1. 1..NumBBs \subseteq Ids /\ 0..NumBBs \subseteq Int
    BY IdsFacts
  <2> QED BY <2>1 DEF Tok
<1>2. \A s \in Seq((1..NumBBs) \X (0..NumBBs)) : s \in Seq(Tok)
  BY <1>1, SeqWiden
<1>3. body \in [Ids -> Seq((1..NumBBs) \X (0..NumBBs))]
  BY Typed
<1> QED BY <1>1, <1>2, <1>3

LEMMA EndSame ==
  ASSUME CfgInv, ParsedOK, NEW V, NEW R, LateFlow(to, own, killed, body, if_bbs, V, R),
         if_bbs # <<>>, Leads(if_bbs[1])
  PROVE  SameBehaviour
<1> DEFINE F(b) == FinalTrace[Steps][b]
           P(b) == ParsedTrace[Steps][b]
<1>1. /\ to \in [Ids -> Seq(Ids)] /\ own \in [Ids -> Ids] /\ body \in [Ids -> Seq(Tok)]
      /\ \A a, c : Holds(if_bbs, a) /\ Holds(to[a], c) => Holds(if_bbs, c)
      /\ if_bbs \in Seq(Ids)
      /\ ProgOK
  BY Typed, BodyTokens DEF CfgInv, GraphOK
<1>2. Suits(killed, V, R) /\ \A b \in Ids : Holds(if_bbs, b) => RunsLate(to, own, killed, body, V, R, b)
  BY DEF LateFlow
<1>3. \A b \in Ids : Holds(if_bbs, b) => F(b) \in Seq(Tok) /\ Alike(Horizon, F(b), V[b])
  BY <1>1, LeftIs
<1>4. \A b \in 1..NumBBs : P(b) \in Seq(Tok) /\ Alike(Horizon, P(b), V[b])
  BY <1>1, <1>2, ParsedIs
<1> HIDE DEF F, P
<1>5. Shown(F(if_bbs[1])) = Shown(P(1))
  <2>1. if_bbs[1] \in Ids /\ Holds(if_bbs, if_bbs[1])
    <3>1. 1 \in 1..Len(if_bbs)
      BY <1>1
    <3> QED BY <1>1, <3>1, ElementOfSeq DEF Holds
  <2>2. Alike(Horizon, V[if_bbs[1]], V[1])
    BY <1>2, LeadsAlike
  <2>3. /\ F(if_bbs[1]) \in Seq(Tok) /\ Alike(Horizon, F(if_bbs[1]), V[if_bbs[1]])
        /\ P(1) \in Seq(Tok) /\ Alike(Horizon, V[1], P(1))
    BY <1>3, <1>4, <2>1, IdsFacts, AlikeSym
  <2>4. Alike(Horizon, F(if_bbs[1]), P(1))
    BY <2>2, <2>3, AlikeTrans
  <2> QED BY <2>3, <2>4, AlikeShown
<1>6. ASSUME NEW b \in Blocks, Len(to[b]) = 2, NEW i \in 1..2
      PROVE  Shown(F(to[b][i])) = Shown(MoveOn(own[b], prog.to[own[b]][i]) \o P(prog.to[own[b]][i]))
  <2> DEFINE x == to[b][i]
             t == prog.to[own[b]][i]
             m == MoveKept(killed, own[b], t)
  <2>1. Holds(if_bbs, b) /\ b \in Ids
    <3>1. PICK k \in 1..Len(if_bbs) : b = if_bbs[k]
      BY <1>6, Zenon DEF Blocks
    <3> QED BY <1>1, <3>1, ElementOfSeq DEF Holds
  <2>2. Decision(own[b]) /\ Alike(Horizon, V[x], WayParsed(killed, V, own[b], i))
    BY <1>2, <1>6, <2>1 DEF RunsLate
  <2>3. t \in 1..NumBBs
    BY <1>1, <2>2, ParsedTarget DEF Decision
  <2>4. x \in Ids /\ Holds(if_bbs, x)
    <3>1. to[b] \in Seq(Ids) /\ i \in 1..Len(to[b])
      BY <1>1, <1>6, <2>1
    <3>2. x \in Ids /\ Holds(to[b], x)
      BY <3>1, ElementOfSeq DEF Holds
    <3> QED BY <1>1, <2>1, <3>2
  <2>5. MoveOn(own[b], t) = m
    BY DEF MoveOn, MoveKept
  <2>6. m \in Seq(Tok)
    <3>1. own[b] \in Ids /\ t \in Int
      BY <1>1, <2>1, <2>3
    <3>2. <<own[b], t>> \in Tok
      BY <3>1 DEF Tok
    <3>3. << <<own[b], t>> >> \in Seq(Tok) /\ <<>> \in Seq(Tok)
      BY <3>2
    <3> QED BY <3>3 DEF MoveKept
  <2>7. WayParsed(killed, V, own[b], i) = m \o V[t]
    BY DEF WayParsed
  <2> HIDE DEF x, t, m
  <2>8. V[t] \in Seq(Tok) /\ P(t) \in Seq(Tok) /\ Alike(Horizon, V[t], P(t))
    <3>1. t \in Ids
      BY <2>3, IdsFacts
    <3> QED BY <1>2, <1>4, <2>3, <3>1, AlikeSym DEF Suits
  <2>9. Alike(Horizon, m \o V[t], m \o P(t))
    <3>1. Horizon \in Nat /\ Len(m) \in Nat /\ Horizon <= Horizon + Len(m)
      BY <2>6, HorizonFacts
    <3> QED BY <2>6, <2>8, <3>1, AlikeAfter
  <2>10. F(x) \in Seq(Tok) /\ Alike(Horizon, F(x), V[x])
    BY <1>3, <2>4
  <2>11. Alike(Horizon, F(x), m \o P(t))
    BY <2>2, <2>7, <2>9, <2>10, AlikeTrans
  <2>12. m \o P(t) \in Seq(Tok)
    BY <2>6, <2>8
  <2>13. Shown(F(x)) = Shown(m \o P(t))
    BY <2>10, <2>11, <2>12, AlikeShown
  <2> QED BY <2>5, <2>13 DEF x, t
<1> QED BY <1>5, <1>6, Zenon DEF SameBehaviour, F, P

-----------------------------------------------------------------------------
(* While there are PHIs, their moves are on the edges.                      *)
EntryMove(entries, ms, p, t) ==
  IF Names(entries, p)
  THEN Kept(ms, <<entries[CHOOSE i \in 1..Len(entries) : entries[i].pred = p].orig, t>>)
  ELSE <<>>

EdgeMove(ph, ms, p, t) == EntryMove(ph[t], ms, p, t)

RunsEarly(ph, tos, ow, ms, bd, V, R, b) ==
  /\ Len(tos[b]) = 1 => Jumps(bd[b] \o EdgeMove(ph, ms, b, tos[b][1]), V, R, b, tos[b][1])
  /\ Len(tos[b]) # 1 => Alike(Horizon, V[b], Append(bd[b], <<ow[b], -1>>))
  /\ Len(tos[b]) = 2 =>
       /\ Decision(ow[b])
       /\ \A i \in 1..2 : Alike(Horizon, EdgeMove(ph, ms, b, tos[b][i]) \o V[tos[b][i]],
                                         WayParsed(ms, V, ow[b], i))

EarlyFlow(ph, tos, ow, ms, bd, bbs, V, R) ==
  /\ Suits(ms, V, R)
  /\ \A b \in Ids : Holds(bbs, b) => RunsEarly(ph, tos, ow, ms, bd, V, R, b)

Entries == Seq([pred : Ids, orig : 1..NumBBs])

AgreeAt(entries) ==
  \A i, j \in 1..Len(entries) : entries[i].pred = entries[j].pred => entries[i].orig = entries[j].orig

LEMMA EdgeMoveIs ==
  ASSUME NEW ph, NEW ms, NEW t, AgreeAt(ph[t]), NEW i \in 1..Len(ph[t])
  PROVE  EdgeMove(ph, ms, ph[t][i].pred, t) = Kept(ms, <<ph[t][i].orig, t>>)
<1> DEFINE s == ph[t]
           p == s[i].pred
           c == CHOOSE j \in 1..Len(s) : s[j].pred = p
<1>1. c \in 1..Len(s) /\ s[c].pred = p
  OBVIOUS
<1>2. s[c].orig = s[i].orig
  BY <1>1 DEF AgreeAt
<1>3. Names(s, p)
  BY DEF Names
<1>4. EdgeMove(ph, ms, p, t) = IF Names(s, p) THEN Kept(ms, <<s[c].orig, t>>) ELSE <<>>
  BY DEF EdgeMove, EntryMove
<1> QED BY <1>2, <1>3, <1>4

LEMMA EdgeMoveNone ==
  ASSUME NEW ph, NEW ms, NEW p, NEW t, ~Names(ph[t], p) \/ ph[t] = <<>>
  PROVE  EdgeMove(ph, ms, p, t) = <<>>
<1>1. ph[t] = <<>> => ~Names(ph[t], p)
  BY DEF Names
<1> QED BY <1>1 DEF EdgeMove, EntryMove

LEMMA EdgeMoveTyped ==
  ASSUME NEW ph, NEW ms, NEW p, NEW t \in Ids, ph[t] \in Entries
  PROVE  EdgeMove(ph, ms, p, t) \in Seq(Tok)
<1>1. CASE ~Names(ph[t], p)
  <2>1. EdgeMove(ph, ms, p, t) = <<>>
    BY <1>1, EdgeMoveNone
  <2> QED BY <2>1
<1>2. CASE Names(ph[t], p)
  <2> DEFINE c == CHOOSE j \in 1..Len(ph[t]) : ph[t][j].pred = p
  <2>1. c \in 1..Len(ph[t])
    BY <1>2 DEF Names
  <2> HIDE DEF c
  <2>2. ph[t][c] \in [pred : Ids, orig : 1..NumBBs]
    BY <2>1, ElementOfSeq DEF Entries
  <2>3. <<ph[t][c].orig, t>> \in Tok
    <3>1. ph[t][c].orig \in Ids /\ t \in Int
      BY <2>2, IdsFacts
    <3> QED BY <3>1 DEF Tok
  <2>4. \A m \in Tok : Kept(ms, m) \in Seq(Tok)
    BY DEF Kept
  <2>5. EdgeMove(ph, ms, p, t) = Kept(ms, <<ph[t][c].orig, t>>)
    BY <1>2 DEF EdgeMove, EntryMove, c
  <2> QED BY <2>3, <2>4, <2>5
<1> QED BY <1>1, <1>2

(* exit_ssa moves the moves of the edges into b to the blocks they leave.   *)
LEMMA FlowMoves ==
  ASSUME NEW ph \in [Ids -> Entries], NEW tos \in [Ids -> Seq(Ids)], NEW ow, NEW bd \in [Ids -> Seq(Tok)],
         NEW ms, NEW bbs, NEW V, NEW R, EarlyFlow(ph, tos, ow, ms, bd, bbs, V, R),
         NEW b \in Ids,
         \A p \in Ids : Holds(bbs, p) /\ Holds(tos[p], b) /\ Names(ph[b], p) => Len(tos[p]) = 1,
         NEW bd2,
         \A p \in Ids : Holds(bbs, p) =>
            bd2[p] = IF Holds(tos[p], b) /\ Names(ph[b], p) THEN bd[p] \o EdgeMove(ph, ms, p, b) ELSE bd[p]
  PROVE  EarlyFlow([ph EXCEPT ![b] = <<>>], tos, ow, ms, bd2, bbs, V, R)
<1> DEFINE ph2 == [ph EXCEPT ![b] = <<>>]
<1>1. ph2[b] = <<>> /\ \A x \in Ids : x # b => ph2[x] = ph[x]
  OBVIOUS
<1> HIDE DEF ph2
<1>2. \A p : EdgeMove(ph2, ms, p, b) = <<>>
  BY <1>1, EdgeMoveNone
<1>3. \A p : \A x \in Ids : x # b => EdgeMove(ph2, ms, p, x) = EdgeMove(ph, ms, p, x)
  BY <1>1 DEF EdgeMove
<1>4. \A p : ~Names(ph[b], p) => EdgeMove(ph, ms, p, b) = <<>>
  BY EdgeMoveNone
<1>5. ASSUME NEW p \in Ids, Holds(bbs, p) PROVE RunsEarly(ph2, tos, ow, ms, bd2, V, R, p)
  <2>1. /\ RunsEarly(ph, tos, ow, ms, bd, V, R, p)
        /\ bd[p] \in Seq(Tok) /\ tos[p] \in Seq(Ids)
        /\ bd2[p] = IF Holds(tos[p], b) /\ Names(ph[b], p) THEN bd[p] \o EdgeMove(ph, ms, p, b) ELSE bd[p]
        /\ Holds(tos[p], b) /\ Names(ph[b], p) => Len(tos[p]) = 1
    <3>1. RunsEarly(ph, tos, ow, ms, bd, V, R, p)
      BY <1>5 DEF EarlyFlow
    <3>2. bd[p] \in Seq(Tok) /\ tos[p] \in Seq(Ids)
      OBVIOUS
    <3>3. bd2[p] = IF Holds(tos[p], b) /\ Names(ph[b], p) THEN bd[p] \o EdgeMove(ph, ms, p, b) ELSE bd[p]
      BY <1>5
    <3>4. Holds(tos[p], b) /\ Names(ph[b], p) => Len(tos[p]) = 1
      BY <1>5
    <3> QED BY <3>1, <3>2, <3>3, <3>4
  <2>2. CASE Len(tos[p]) = 1
    <3> DEFINE x == tos[p][1]
    <3>1. x \in Ids /\ Holds(tos[p], x)
      BY <2>1, <2>2, OnlyTarget DEF Holds
    <3>2. x # b => ~Holds(tos[p], b)
      BY <2>2 DEF Holds
    <3>3. bd2[p] \o EdgeMove(ph2, ms, p, x) = bd[p] \o EdgeMove(ph, ms, p, x)
      <4>1. CASE x # b
        BY <1>3, <2>1, <3>1, <3>2, <4>1
      <4>2. CASE x = b /\ ~Names(ph[b], p)
        BY <1>2, <1>4, <2>1, <4>2
      <4>3. CASE x = b /\ Names(ph[b], p)
        <5>1. EdgeMove(ph, ms, p, b) \in Seq(Tok)
          BY EdgeMoveTyped
        <5>2. bd[p] \o EdgeMove(ph, ms, p, b) \in Seq(Tok)
          BY <2>1, <5>1
        <5>3. bd2[p] = bd[p] \o EdgeMove(ph, ms, p, b)
          BY <2>1, <3>1, <4>3
        <5>4. bd2[p] \o <<>> = bd2[p]
          BY <5>2, <5>3
        <5> QED BY <1>2, <4>3, <5>3, <5>4
      <4> QED BY <4>1, <4>2, <4>3
    <3>4. Jumps(bd[p] \o EdgeMove(ph, ms, p, x), V, R, p, x)
      BY <2>1, <2>2 DEF RunsEarly
    <3>5. Jumps(bd2[p] \o EdgeMove(ph2, ms, p, x), V, R, p, x)
      BY <3>3, <3>4
    <3> QED BY <2>2, <3>5 DEF RunsEarly
  <2>3. CASE Len(tos[p]) # 1
    <3>1. bd2[p] = bd[p] /\ ~(Holds(tos[p], b) /\ Names(ph[b], p))
      BY <2>1, <2>3
    <3>2. ASSUME Len(tos[p]) = 2, NEW i \in 1..2
          PROVE  EdgeMove(ph2, ms, p, tos[p][i]) = EdgeMove(ph, ms, p, tos[p][i])
      <4>1. tos[p][i] \in Ids /\ Holds(tos[p], tos[p][i])
        <5>1. i \in 1..Len(tos[p])
          BY <3>2
        <5> QED BY <2>1, <5>1, ElementOfSeq DEF Holds
      <4>2. CASE tos[p][i] = b
        BY <1>2, <1>4, <3>1, <4>1, <4>2
      <4>3. CASE tos[p][i] # b
        BY <1>3, <4>1, <4>3
      <4> QED BY <4>2, <4>3
    <3> QED BY <2>1, <2>3, <3>1, <3>2 DEF RunsEarly
  <2> QED BY <2>2, <2>3
<1>6. Suits(ms, V, R)
  BY DEF EarlyFlow
<1> QED BY <1>5, <1>6 DEF EarlyFlow, ph2

(* No PHIs are left. *)
LEMMA FlowLater ==
  ASSUME NEW ph, NEW tos \in [Ids -> Seq(Ids)], NEW ow, NEW bd \in [Ids -> Seq(Tok)],
         NEW ms, NEW bbs, NEW V, NEW R, EarlyFlow(ph, tos, ow, ms, bd, bbs, V, R),
         \A b \in Ids : Holds(bbs, b) => ph[b] = <<>>,
         \A a, c : Holds(bbs, a) /\ Holds(tos[a], c) => Holds(bbs, c)
  PROVE  LateFlow(tos, ow, ms, bd, bbs, V, R)
<1>1. Suits(ms, V, R)
  BY DEF EarlyFlow
<1>2. ASSUME NEW b \in Ids, Holds(bbs, b) PROVE RunsLate(tos, ow, ms, bd, V, R, b)
  <2>1. RunsEarly(ph, tos, ow, ms, bd, V, R, b) /\ bd[b] \in Seq(Tok) /\ tos[b] \in Seq(Ids)
    BY <1>2 DEF EarlyFlow
  <2>2. ASSUME NEW i \in 1..Len(tos[b])
        PROVE  tos[b][i] \in Ids /\ EdgeMove(ph, ms, b, tos[b][i]) = <<>>
    <3>1. tos[b][i] \in Ids /\ Holds(tos[b], tos[b][i])
      BY <2>1, ElementOfSeq DEF Holds
    <3>2. Holds(bbs, tos[b][i])
      BY <1>2, <3>1
    <3> QED BY <3>1, <3>2, EdgeMoveNone
  <2>3. Len(tos[b]) = 1 => Jumps(bd[b], V, R, b, tos[b][1])
    <3>1. bd[b] \o <<>> = bd[b]
      BY <2>1
    <3>2. Len(tos[b]) = 1 => 1 \in 1..Len(tos[b])
      OBVIOUS
    <3> QED BY <2>1, <2>2, <3>1, <3>2 DEF RunsEarly
  <2>4. ASSUME Len(tos[b]) = 2, NEW i \in 1..2
        PROVE  Alike(Horizon, V[tos[b][i]], WayParsed(ms, V, ow[b], i))
    <3>1. i \in 1..Len(tos[b])
      BY <2>4
    <3>2. V[tos[b][i]] \in Seq(Tok)
      BY <1>1, <2>2, <3>1 DEF Suits
    <3>3. <<>> \o V[tos[b][i]] = V[tos[b][i]]
      BY <3>2
    <3> QED BY <2>1, <2>2, <2>4, <3>1, <3>3 DEF RunsEarly
  <2> QED BY <2>1, <2>3, <2>4 DEF RunsEarly, RunsLate
<1> QED BY <1>1, <1>2 DEF LateFlow

-----------------------------------------------------------------------------
(* The PHIs of t name nb where they named from. *)
Renamed(entries2, entries, from, nb) ==
  /\ Len(entries2) = Len(entries)
  /\ \A i \in 1..Len(entries) :
       /\ entries2[i].pred = IF entries[i].pred = from THEN nb ELSE entries[i].pred
       /\ entries2[i].orig = entries[i].orig

MovesRenamed(entries2, entries, from, nb, ms, t) ==
  /\ EntryMove(entries2, ms, nb, t) = EntryMove(entries, ms, from, t)
  /\ \A p : p # from /\ p # nb => EntryMove(entries2, ms, p, t) = EntryMove(entries, ms, p, t)

LEMMA RenamedMoves ==
  ASSUME NEW entries2, NEW entries \in Entries, NEW from, NEW nb, Renamed(entries2, entries, from, nb),
         ~Names(entries, nb), AgreeAt(entries), NEW ms, NEW t, from # nb
  PROVE  MovesRenamed(entries2, entries, from, nb, ms, t)
<1>1. AgreeAt(entries2)
  <2>1. \A i \in 1..Len(entries) : entries[i].pred # nb
    BY DEF Names
  <2> QED BY <2>1 DEF AgreeAt, Renamed
<1>2. \A i \in 1..Len(entries2) : EntryMove(entries2, ms, entries2[i].pred, t) = Kept(ms, <<entries2[i].orig, t>>)
  <2> TAKE i \in 1..Len(entries2)
  <2> DEFINE ph == [x \in {t} |-> entries2]
  <2>1. ph[t] = entries2
    OBVIOUS
  <2> HIDE DEF ph
  <2>2. EdgeMove(ph, ms, ph[t][i].pred, t) = Kept(ms, <<ph[t][i].orig, t>>)
    BY <1>1, <2>1, EdgeMoveIs
  <2> QED BY <2>1, <2>2 DEF EdgeMove
<1>3. \A i \in 1..Len(entries) : EntryMove(entries, ms, entries[i].pred, t) = Kept(ms, <<entries[i].orig, t>>)
  <2> TAKE i \in 1..Len(entries)
  <2> DEFINE ph == [x \in {t} |-> entries]
  <2>1. ph[t] = entries
    OBVIOUS
  <2> HIDE DEF ph
  <2>2. EdgeMove(ph, ms, ph[t][i].pred, t) = Kept(ms, <<ph[t][i].orig, t>>)
    BY <2>1, EdgeMoveIs
  <2> QED BY <2>1, <2>2 DEF EdgeMove
<1>4. ASSUME NEW p, NEW q,
             \A i \in 1..Len(entries) : entries2[i].pred = q <=> entries[i].pred = p
      PROVE  EntryMove(entries2, ms, q, t) = EntryMove(entries, ms, p, t)
  <2>1. CASE \E i \in 1..Len(entries) : entries[i].pred = p
    <3>1. PICK i \in 1..Len(entries) : entries[i].pred = p
      BY <2>1
    <3>2. entries2[i].pred = q /\ i \in 1..Len(entries2) /\ entries2[i].orig = entries[i].orig
      BY <1>4, <3>1 DEF Renamed
    <3> QED BY <1>2, <1>3, <3>1, <3>2
  <2>2. CASE ~\E i \in 1..Len(entries) : entries[i].pred = p
    <3>1. ~Names(entries, p) /\ ~Names(entries2, q)
      BY <1>4, <2>2 DEF Names, Renamed
    <3> QED BY <3>1 DEF EntryMove
  <2> QED BY <2>1, <2>2
<1>5. \A i \in 1..Len(entries) : entries2[i].pred = nb <=> entries[i].pred = from
  BY DEF Renamed, Names
<1>6. \A p : p # from /\ p # nb => \A i \in 1..Len(entries) : entries2[i].pred = p <=> entries[i].pred = p
  BY DEF Renamed
<1> QED BY <1>4, <1>5, <1>6 DEF MovesRenamed

(* Another block with nothing of its own changes nothing for the others. *)
SameParsed(V2, R2, V, R) ==
  /\ \A b \in 1..NumBBs : V2[b] = V[b] /\ R2[b] = R[b]
  /\ \A b \in Ids : V2[b] \in Seq(Tok) /\ R2[b] \in 0..(Cardinality(Ids) - 1)

SameWays(ms, V2, V) == \A p : Decision(p) => \A i \in 1..2 : WayParsed(ms, V2, p, i) = WayParsed(ms, V, p, i)

LEMMA SuitsMore ==
  ASSUME ProgOK, ParsedOK, NEW ms, NEW V, NEW R, Suits(ms, V, R),
         NEW V2, NEW R2, SameParsed(V2, R2, V, R)
  PROVE  Suits(ms, V2, R2) /\ SameWays(ms, V2, V)
<1>1. JumpGraph(1..NumBBs, ParsedChunk(ms), ParsedNext)
  BY ParsedGraph
<1> DEFINE I == 1..NumBBs
           c == ParsedChunk(ms)
<1>2. Solves(I, NumBBs, c, ParsedNext, V, R)
  BY DEF Suits
<1>3. \A b \in I : c[b] \in Seq(Tok) /\ (ParsedNext[b] = 0 \/ ParsedNext[b] \in I)
  BY <1>1 DEF JumpGraph
<1>4. \A b \in I : V2[b] = V[b] /\ R2[b] = R[b]
  BY DEF SameParsed
<1> HIDE DEF I, c
<1>5. \A b \in I : /\ After(c, ParsedNext, V2, b) = After(c, ParsedNext, V, b)
                   /\ ParsedNext[b] # 0 => R2[ParsedNext[b]] = R[ParsedNext[b]]
  BY <1>3, <1>4 DEF After
<1>6. Solves(I, NumBBs, c, ParsedNext, V2, R2)
  BY <1>2, <1>4, <1>5 DEF Solves
<1>7. ASSUME NEW p, Decision(p), NEW i \in 1..2 PROVE WayParsed(ms, V2, p, i) = WayParsed(ms, V, p, i)
  <2>1. prog.to[p][i] \in I
    BY <1>7, ParsedTarget DEF Decision, I
  <2> QED BY <1>4, <2>1 DEF WayParsed
<1>8. Suits(ms, V2, R2)
  BY <1>6 DEF Suits, SameParsed, I, c
<1> QED BY <1>7, <1>8 DEF SameWays

(* break_crtitical_edges puts nb on the edge from from to t. *)
SplitFrom(ph, tos, bd, bbs, from, t, nb) ==
  /\ from \in Ids /\ t \in 1..NumBBs /\ nb \in Ids /\ nb \notin 1..NumBBs /\ from # nb
  /\ Holds(bbs, from) /\ Len(tos[from]) # 1
  /\ ~Holds(bbs, nb) /\ \A p \in Ids : Holds(bbs, p) => ~Holds(tos[p], nb)
  /\ bd[nb] = <<>> /\ ph[nb] = <<>> /\ ~Names(ph[t], nb) /\ AgreeAt(ph[t])

SplitInto(ph2, ph, tos2, tos, bbs2, bbs, from, t, nb) ==
  /\ \A x \in Ids : x # t => ph2[x] = ph[x]
  /\ Renamed(ph2[t], ph[t], from, nb)
  /\ tos2[nb] = <<t>> /\ tos2[from] = Replaced(tos[from], t, nb)
  /\ \A x \in Ids : x # nb /\ x # from => tos2[x] = tos[x]
  /\ \A x : Holds(bbs2, x) <=> Holds(bbs, x) \/ x = nb

LEMMA FlowSplit ==
  ASSUME ProgOK, ParsedOK,
         NEW ph \in [Ids -> Entries], NEW tos \in [Ids -> Seq(Ids)], NEW ow, NEW bd \in [Ids -> Seq(Tok)],
         NEW ms, NEW bbs, NEW V, NEW R, EarlyFlow(ph, tos, ow, ms, bd, bbs, V, R),
         NEW from, NEW t, NEW nb, SplitFrom(ph, tos, bd, bbs, from, t, nb),
         NEW ph2, NEW tos2, NEW bbs2, SplitInto(ph2, ph, tos2, tos, bbs2, bbs, from, t, nb)
  PROVE  \E V2, R2 : EarlyFlow(ph2, tos2, ow, ms, bd, bbs2, V2, R2)
<1> USE DEF SplitFrom, SplitInto
<1> DEFINE m == EdgeMove(ph, ms, from, t)
           V2 == [x \in Ids |-> IF x = nb THEN m \o V[t] ELSE V[x]]
           R2 == [x \in Ids |-> IF x = nb THEN R[t] + 1 ELSE R[x]]
<1>1. /\ Suits(ms, V, R) /\ t \in Ids /\ t # nb
      /\ \A b \in Ids : V[b] \in Seq(Tok) /\ R[b] \in 0..(Cardinality(Ids) - 1)
      /\ \A b \in 1..NumBBs : R[b] \in 0..(NumBBs - 1)
  BY IdsFacts DEF EarlyFlow, Suits, Solves
<1>2. m \in Seq(Tok)
  <2>1. ph[t] \in Entries
    BY <1>1
  <2> QED BY <1>1, <2>1, EdgeMoveTyped
<1>3. /\ V2[nb] = m \o V[t] /\ R2[nb] = R[t] + 1
      /\ \A x \in Ids : x # nb => V2[x] = V[x] /\ R2[x] = R[x]
  OBVIOUS
<1> HIDE DEF V2, R2, m
<1>4. \A b \in Ids : V2[b] \in Seq(Tok) /\ R2[b] \in 0..(Cardinality(Ids) - 1)
  <2>1. m \o V[t] \in Seq(Tok)
    <3>1. \A u, w \in Seq(Tok) : u \o w \in Seq(Tok)
      OBVIOUS
    <3> QED BY <1>1, <1>2, <3>1
  <2>2. R[t] + 1 \in 0..(Cardinality(Ids) - 1)
    <3>1. /\ Cardinality(Ids) = NumBBs + 2 * MaxMulti /\ NumBBs \in Nat /\ MaxMulti \in Nat
          /\ nb \in Nat /\ nb > NumBBs /\ nb <= NumBBs + 2 * MaxMulti
      <4>1. Cardinality(Ids) = NumBBs + 2 * MaxMulti
        BY StepsFacts
      <4>2. NumBBs \in Nat /\ MaxMulti \in Nat /\ nb \in 1..(NumBBs + 2 * MaxMulti)
        BY IdsFacts
      <4> QED BY <4>1, <4>2
    <3>2. R[t] \in 0..(NumBBs - 1)
      BY <1>1
    <3> QED BY <3>1, <3>2
  <2> QED BY <1>1, <1>3, <2>1, <2>2
<1>5. \A b \in 1..NumBBs : b \in Ids /\ b # nb /\ V2[b] = V[b] /\ R2[b] = R[b]
  BY <1>3, IdsFacts
<1>6. /\ Suits(ms, V2, R2)
      /\ \A p : Decision(p) => \A i \in 1..2 : WayParsed(ms, V2, p, i) = WayParsed(ms, V, p, i)
  <2>1. SameParsed(V2, R2, V, R) /\ Suits(ms, V, R)
    BY <1>1, <1>4, <1>5 DEF SameParsed
  <2>2. Suits(ms, V2, R2) /\ SameWays(ms, V2, V)
    BY <2>1, SuitsMore
  <2> QED BY <2>2 DEF SameWays
<1>7. /\ EdgeMove(ph2, ms, nb, t) = m
      /\ \A p : p # from /\ p # nb => EdgeMove(ph2, ms, p, t) = EdgeMove(ph, ms, p, t)
      /\ \A p : \A x \in Ids : x # t => EdgeMove(ph2, ms, p, x) = EdgeMove(ph, ms, p, x)
      /\ EdgeMove(ph2, ms, from, nb) = <<>>
  <2>1. ph[t] \in Entries
    BY <1>1
  <2>2. /\ EntryMove(ph2[t], ms, nb, t) = EntryMove(ph[t], ms, from, t)
        /\ \A p : p # from /\ p # nb => EntryMove(ph2[t], ms, p, t) = EntryMove(ph[t], ms, p, t)
    <3>1. MovesRenamed(ph2[t], ph[t], from, nb, ms, t)
      BY <2>1, RenamedMoves
    <3> QED BY <3>1 DEF MovesRenamed
  <2>3. ph2[nb] = <<>>
    BY <1>1
  <2>4. EdgeMove(ph2, ms, from, nb) = <<>>
    BY <2>3, EdgeMoveNone
  <2> QED BY <2>2, <2>4 DEF EdgeMove, m
<1>8. RunsEarly(ph2, tos2, ow, ms, bd, V2, R2, nb)
  <2>1. Len(tos2[nb]) = 1 /\ tos2[nb][1] = t
    OBVIOUS
  <2>2. <<>> \o m = m
    BY <1>2
  <2>3. V2[t] = V[t] /\ R2[t] = R[t] /\ R[t] < R[t] + 1
    BY <1>1, <1>3
  <2>4. Jumps(m, V2, R2, nb, t)
    BY <1>3, <2>3, AlikeSame DEF Jumps
  <2> QED BY <1>7, <2>1, <2>2, <2>4 DEF RunsEarly
<1>9. RunsEarly(ph2, tos2, ow, ms, bd, V2, R2, from)
  <2>1. RunsEarly(ph, tos, ow, ms, bd, V, R, from) /\ tos[from] \in Seq(Ids)
    BY DEF EarlyFlow
  <2>2. /\ Len(tos2[from]) = Len(tos[from]) /\ Len(tos[from]) \in Nat
        /\ \A i \in 1..Len(tos[from]) : tos2[from][i] = IF tos[from][i] = t THEN nb ELSE tos[from][i]
    <3> DEFINE r == Replaced(tos[from], t, nb)
    <3>1. /\ Len(r) = Len(tos[from])
          /\ \A i \in 1..Len(tos[from]) : r[i] = IF tos[from][i] = t THEN nb ELSE tos[from][i]
      BY <2>1, ReplacedHolds
    <3>2. Len(tos[from]) \in Nat
      BY <2>1
    <3> HIDE DEF r
    <3> QED BY <3>1, <3>2 DEF r
  <2>3. V2[from] = V[from]
    BY <1>3
  <2>4. Alike(Horizon, V2[from], Append(bd[from], <<ow[from], -1>>))
    BY <2>1, <2>3 DEF RunsEarly
  <2>5. ASSUME Len(tos[from]) = 2, NEW i \in 1..2
        PROVE  Alike(Horizon, EdgeMove(ph2, ms, from, tos2[from][i]) \o V2[tos2[from][i]],
                     WayParsed(ms, V2, ow[from], i))
    <3> DEFINE x == tos[from][i]
    <3>1. /\ i \in 1..Len(tos[from]) /\ x \in Ids /\ Holds(tos[from], x)
          /\ tos2[from][i] = IF x = t THEN nb ELSE x
      <4>1. i \in 1..Len(tos[from])
        BY <2>5
      <4> QED BY <2>1, <2>2, <4>1, ElementOfSeq DEF Holds
    <3>2. x # nb
      BY <3>1
    <3>3. Decision(ow[from]) /\ Alike(Horizon, EdgeMove(ph, ms, from, x) \o V[x], WayParsed(ms, V, ow[from], i))
      BY <2>1, <2>5 DEF RunsEarly
    <3>4. EdgeMove(ph2, ms, from, tos2[from][i]) \o V2[tos2[from][i]] = EdgeMove(ph, ms, from, x) \o V[x]
      <4> HIDE DEF x
      <4>1. CASE x = t
        <5>1. <<>> \o V2[nb] = V2[nb]
          BY <1>4
        <5>2. V2[nb] = EdgeMove(ph, ms, from, x) \o V[x]
          BY <1>3, <4>1 DEF m
        <5> QED BY <1>7, <3>1, <4>1, <5>1, <5>2
      <4>2. CASE x # t
        <5>1. tos2[from][i] = x /\ x \in Ids
          BY <3>1, <4>2
        <5>2. V2[x] = V[x]
          BY <1>3, <3>2, <5>1
        <5>3. EdgeMove(ph2, ms, from, x) = EdgeMove(ph, ms, from, x)
          BY <1>7, <4>2, <5>1
        <5> QED BY <5>1, <5>2, <5>3
      <4> QED BY <4>1, <4>2 DEF x
    <3> QED BY <1>6, <3>3, <3>4
  <2> QED BY <2>1, <2>2, <2>4, <2>5 DEF RunsEarly
<1>10. ASSUME NEW p \in Ids, Holds(bbs, p), p # from PROVE RunsEarly(ph2, tos2, ow, ms, bd, V2, R2, p)
  <2>1. p # nb /\ tos2[p] = tos[p] /\ V2[p] = V[p] /\ R2[p] = R[p]
    BY <1>3, <1>10
  <2>2. RunsEarly(ph, tos, ow, ms, bd, V, R, p) /\ tos[p] \in Seq(Ids)
    BY <1>10 DEF EarlyFlow
  <2>3. ASSUME NEW i \in 1..Len(tos[p])
        PROVE  /\ V2[tos[p][i]] = V[tos[p][i]] /\ R2[tos[p][i]] = R[tos[p][i]]
               /\ EdgeMove(ph2, ms, p, tos[p][i]) = EdgeMove(ph, ms, p, tos[p][i])
    <3>1. tos[p][i] \in Ids /\ Holds(tos[p], tos[p][i])
      BY <2>2, ElementOfSeq DEF Holds
    <3>2. tos[p][i] # nb
      BY <1>10, <3>1
    <3> QED BY <1>3, <1>7, <1>10, <2>1, <3>1, <3>2
  <2>4. Len(tos[p]) = 1 => Jumps(bd[p] \o EdgeMove(ph2, ms, p, tos[p][1]), V2, R2, p, tos[p][1])
    <3>1. Len(tos[p]) = 1 => 1 \in 1..Len(tos[p])
      OBVIOUS
    <3> QED BY <2>1, <2>2, <2>3, <3>1 DEF RunsEarly, Jumps
  <2>5. Len(tos[p]) # 1 => Alike(Horizon, V2[p], Append(bd[p], <<ow[p], -1>>))
    BY <2>1, <2>2 DEF RunsEarly
  <2>6. ASSUME Len(tos[p]) = 2, NEW i \in 1..2
        PROVE  /\ Decision(ow[p])
               /\ Alike(Horizon, EdgeMove(ph2, ms, p, tos[p][i]) \o V2[tos[p][i]], WayParsed(ms, V2, ow[p], i))
    <3>1. i \in 1..Len(tos[p])
      BY <2>6
    <3>2. Decision(ow[p]) /\ Alike(Horizon, EdgeMove(ph, ms, p, tos[p][i]) \o V[tos[p][i]], WayParsed(ms, V, ow[p], i))
      BY <2>2, <2>6 DEF RunsEarly
    <3> QED BY <1>6, <2>3, <3>1, <3>2
  <2> QED BY <2>1, <2>4, <2>5, <2>6 DEF RunsEarly
<1>11. \A b \in Ids : Holds(bbs2, b) => RunsEarly(ph2, tos2, ow, ms, bd, V2, R2, b)
  BY <1>8, <1>9, <1>10
<1> QED BY <1>6, <1>11 DEF EarlyFlow

-----------------------------------------------------------------------------
(* What the blocks execute without the moves in ms, which are those that    *)
(* will have been removed.                                                  *)
Stripped(ms) == [b \in Ids |-> Dropping(body[b], ms)]

Early == {"critical", "ssa"}

FlowInv ==
  /\ phase \in Early =>
       \A ms \in SUBSET Moves : \E V, R : EarlyFlow(phi, to, own, ms, Stripped(ms), if_bbs, V, R)
  /\ phase \in {"dead", "coalesce"} =>
       \A ms \in SUBSET Moves : \E V, R : LateFlow(to, own, ms, Stripped(ms), if_bbs, V, R)
  /\ phase \in {"empty", "done"} => \E V, R : LateFlow(to, own, killed, body, if_bbs, V, R)

LEMMA GoneFacts ==
  ASSUME ProgOK, NEW ms \in SUBSET Moves
  PROVE  \A b : <<b, 0>> \notin ms
<1>1. \A m \in Moves : m[2] \in 1..NumBBs
  BY DEF Moves, ProgOK
<1>2. ms \subseteq Moves
  BY DEF Moves
<1>3. 0 \notin 1..NumBBs
  BY IdsFacts
<1> QED BY <1>1, <1>2, <1>3

LEMMA StrippedTyped ==
  ASSUME CfgInv, NEW ms
  PROVE  /\ Stripped(ms) \in [Ids -> Seq(Tok)]
         /\ \A b \in Ids : Stripped(ms)[b] = Dropping(body[b], ms) /\ body[b] \in Seq(Tok)
<1>1. \A b \in Ids : body[b] \in Seq(Tok)
  BY BodyTokens
<1>2. \A b \in Ids : Dropping(body[b], ms) \in Seq(Tok)
  <2> TAKE b \in Ids
  <2> DEFINE T == Tok
  <2>1. body[b] \in Seq(T)
    BY <1>1
  <2> HIDE DEF T
  <2>2. Dropping(body[b], ms) \in Seq(T)
    BY <2>1, DroppingHolds
  <2> QED BY <2>2 DEF T
<1> QED BY <1>1, <1>2 DEF Stripped

LEMMA DroppingNone ==
  ASSUME NEW S, NEW x \in S, NEW ms, x \notin ms
  PROVE  /\ Dropping(<<>>, ms) = <<>>
         /\ Dropping(<<x>>, ms) = <<x>>
<1>1. Dropping(<<>>, ms) = <<>>
  <2>1. <<>> \in Seq(S)
    OBVIOUS
  <2>2. /\ Dropping(<<>>, ms) \in Seq(S)
        /\ \A y : Holds(Dropping(<<>>, ms), y) <=> Holds(<<>>, y) /\ y \notin ms
    BY <2>1, DroppingHolds
  <2>3. \A y : ~Holds(<<>>, y)
    BY DEF Holds
  <2> DEFINE d == Dropping(<<>>, ms)
  <2>4. d \in Seq(S) /\ \A y : ~Holds(d, y)
    BY <2>2, <2>3
  <2> HIDE DEF d
  <2>5. Len(d) = 0
    <3>1. Len(d) \in Nat /\ (Len(d) # 0 => 1 \in 1..Len(d))
      BY <2>4
    <3>2. 1 \in 1..Len(d) => Holds(d, d[1])
      BY DEF Holds
    <3> QED BY <2>4, <3>1, <3>2
  <2> QED BY <2>4, <2>5 DEF d
<1>2. Dropping(<<x>>, ms) = <<x>>
  <2>1. <<x>> = Append(<<>>, x) /\ <<>> \in Seq(S)
    OBVIOUS
  <2>2. Dropping(Append(<<>>, x), ms) = Dropping(<<>>, ms) \o Kept(ms, x)
    BY <2>1, DroppingAppend
  <2>3. Kept(ms, x) = <<x>> /\ <<>> \o <<x>> = <<x>>
    BY DEF Kept
  <2> QED BY <1>1, <2>1, <2>2, <2>3
<1> QED BY <1>1, <1>2

(* The same, seen from the next state. *)
LEMMA SuitsNext ==
  ASSUME prog' = prog, NEW ms, NEW V, NEW R, Suits(ms, V, R)
  PROVE  Suits(ms, V, R)'
<1>1. ParsedChunk(ms)' = ParsedChunk(ms) /\ ParsedNext' = ParsedNext
  BY DEF ParsedChunk, ParsedNext, MoveKept
<1> DEFINE c == ParsedChunk(ms)
<1>2. Suits(ms, V, R)' <=>
        /\ \A b \in Ids : V[b] \in Seq(Tok) /\ R[b] \in 0..(Cardinality(Ids) - 1)
        /\ Solves(1..NumBBs, NumBBs, ParsedChunk(ms)', ParsedNext', V, R)
  BY Zenon DEF Suits, Solves, After, Alike, Horizon, Tok, Ids
<1> QED BY <1>1, <1>2 DEF Suits

LEMMA LateNext ==
  ASSUME prog' = prog, NEW tos, NEW ow, NEW ms, NEW bd, NEW bbs, NEW V, NEW R,
         LateFlow(tos, ow, ms, bd, bbs, V, R)
  PROVE  LateFlow(tos, ow, ms, bd, bbs, V, R)'
<1>1. Suits(ms, V, R)'
  BY SuitsNext DEF LateFlow
<1>2. \A b : RunsLate(tos, ow, ms, bd, V, R, b)' <=> RunsLate(tos, ow, ms, bd, V, R, b)
  BY DEF RunsLate, Decision, WayParsed, MoveKept, Jumps, Alike
<1> QED BY <1>1, <1>2 DEF LateFlow, Holds

LEMMA EarlyNext ==
  ASSUME prog' = prog, NEW ph, NEW tos, NEW ow, NEW ms, NEW bd, NEW bbs, NEW V, NEW R,
         EarlyFlow(ph, tos, ow, ms, bd, bbs, V, R)
  PROVE  EarlyFlow(ph, tos, ow, ms, bd, bbs, V, R)'
<1>1. Suits(ms, V, R)'
  BY SuitsNext DEF EarlyFlow
<1>2. \A b : RunsEarly(ph, tos, ow, ms, bd, V, R, b)' <=> RunsEarly(ph, tos, ow, ms, bd, V, R, b)
  BY DEF RunsEarly, Decision, WayParsed, MoveKept
<1> QED BY <1>1, <1>2 DEF EarlyFlow

LEMMA GoneNext ==
  ASSUME prog' = prog
  PROVE  Moves' = Moves
BY DEF Moves

FlowNext ==
  /\ phase' \in Early =>
       \A ms \in SUBSET Moves : \E V, R : EarlyFlow(phi', to', own', ms, Stripped(ms)', if_bbs', V, R)
  /\ phase' \in {"dead", "coalesce"} =>
       \A ms \in SUBSET Moves : \E V, R : LateFlow(to', own', ms, Stripped(ms)', if_bbs', V, R)
  /\ phase' \in {"empty", "done"} => \E V, R : LateFlow(to', own', killed', body', if_bbs', V, R)

LEMMA FlowKept ==
  ASSUME prog' = prog, FlowNext
  PROVE  FlowInv'
<1>1. Moves' = Moves
  BY GoneNext
<1>2. ASSUME phase' \in Early, NEW ms \in SUBSET Moves
      PROVE  (\E V, R : EarlyFlow(phi, to, own, ms, Stripped(ms), if_bbs, V, R))'
  <2>1. PICK V, R : EarlyFlow(phi', to', own', ms, Stripped(ms)', if_bbs', V, R)
    BY <1>2 DEF FlowNext
  <2>2. PICK ph, tos, ow, bd, bbs : ph = phi' /\ tos = to' /\ ow = own' /\ bd = Stripped(ms)' /\ bbs = if_bbs'
    OBVIOUS
  <2>3. EarlyFlow(ph, tos, ow, ms, bd, bbs, V, R)
    BY <2>1, <2>2
  <2>4. EarlyFlow(ph, tos, ow, ms, bd, bbs, V, R)'
    BY <2>3, EarlyNext
  <2>5. EarlyFlow(phi, to, own, ms, Stripped(ms), if_bbs, V, R)'
    BY <2>2, <2>4
  <2> QED BY <2>5
<1>3. ASSUME phase' \in {"dead", "coalesce"}, NEW ms \in SUBSET Moves
      PROVE  (\E V, R : LateFlow(to, own, ms, Stripped(ms), if_bbs, V, R))'
  <2>1. PICK V, R : LateFlow(to', own', ms, Stripped(ms)', if_bbs', V, R)
    BY <1>3 DEF FlowNext
  <2>2. PICK tos, ow, bd, bbs : tos = to' /\ ow = own' /\ bd = Stripped(ms)' /\ bbs = if_bbs'
    OBVIOUS
  <2>3. LateFlow(tos, ow, ms, bd, bbs, V, R)
    BY <2>1, <2>2
  <2>4. LateFlow(tos, ow, ms, bd, bbs, V, R)'
    BY <2>3, LateNext
  <2>5. LateFlow(to, own, ms, Stripped(ms), if_bbs, V, R)'
    BY <2>2, <2>4
  <2> QED BY <2>5
<1>4. ASSUME phase' \in {"empty", "done"}
      PROVE  (\E V, R : LateFlow(to, own, killed, body, if_bbs, V, R))'
  <2>1. PICK V, R : LateFlow(to', own', killed', body', if_bbs', V, R)
    BY <1>4 DEF FlowNext
  <2>2. PICK tos, ow, ms, bd, bbs : tos = to' /\ ow = own' /\ ms = killed' /\ bd = body' /\ bbs = if_bbs'
    OBVIOUS
  <2>3. LateFlow(tos, ow, ms, bd, bbs, V, R)
    BY <2>1, <2>2
  <2>4. LateFlow(tos, ow, ms, bd, bbs, V, R)'
    BY <2>3, LateNext
  <2>5. LateFlow(to, own, killed, body, if_bbs, V, R)'
    BY <2>2, <2>4
  <2> QED BY <2>5
<1> QED BY <1>1, <1>2, <1>3, <1>4 DEF FlowInv, Early

-----------------------------------------------------------------------------
(* Each pass keeps what is executed. *)
LEMMA FlowFrame ==
  ASSUME FlowInv, UNCHANGED <<prog, to, own, body, phi, killed>>,
         \A b \in Ids : Holds(if_bbs', b) => Holds(if_bbs, b),
         phase' \in Early => phase \in Early,
         phase' \in {"dead", "coalesce"} => phase \in {"dead", "coalesce"},
         phase' \in {"empty", "done"} => phase \in {"empty", "done"}
  PROVE  FlowInv'
<1>1. \A ms : Stripped(ms)' = Stripped(ms)
  BY DEF Stripped
<1>2. \A ms, V, R : EarlyFlow(phi, to, own, ms, Stripped(ms), if_bbs, V, R)
                      => EarlyFlow(phi, to, own, ms, Stripped(ms), if_bbs', V, R)
  BY DEF EarlyFlow
<1>3. \A ms, bd, V, R : LateFlow(to, own, ms, bd, if_bbs, V, R) => LateFlow(to, own, ms, bd, if_bbs', V, R)
  BY DEF LateFlow
<1>4. ASSUME phase' \in Early, NEW ms \in SUBSET Moves
      PROVE  \E V, R : EarlyFlow(phi', to', own', ms, Stripped(ms)', if_bbs', V, R)
  <2>1. PICK V, R : EarlyFlow(phi, to, own, ms, Stripped(ms), if_bbs, V, R)
    BY <1>4 DEF FlowInv
  <2>2. EarlyFlow(phi, to, own, ms, Stripped(ms), if_bbs', V, R)
    BY <1>2, <2>1
  <2>3. phi' = phi /\ to' = to /\ own' = own /\ Stripped(ms)' = Stripped(ms)
    BY <1>1
  <2> QED BY <2>2, <2>3
<1>5. ASSUME phase' \in {"dead", "coalesce"}, NEW ms \in SUBSET Moves
      PROVE  \E V, R : LateFlow(to', own', ms, Stripped(ms)', if_bbs', V, R)
  <2>1. PICK V, R : LateFlow(to, own, ms, Stripped(ms), if_bbs, V, R)
    BY <1>5 DEF FlowInv
  <2>2. LateFlow(to, own, ms, Stripped(ms), if_bbs', V, R)
    BY <1>3, <2>1
  <2>3. to' = to /\ own' = own /\ Stripped(ms)' = Stripped(ms)
    BY <1>1
  <2> QED BY <2>2, <2>3
<1>6. ASSUME phase' \in {"empty", "done"}
      PROVE  \E V, R : LateFlow(to', own', killed', body', if_bbs', V, R)
  <2>1. PICK V, R : LateFlow(to, own, killed, body, if_bbs, V, R)
    BY <1>6 DEF FlowInv
  <2>2. LateFlow(to, own, killed, body, if_bbs', V, R)
    BY <1>3, <2>1
  <2> QED BY <2>2
<1>7. FlowNext
  BY <1>4, <1>5, <1>6 DEF FlowNext
<1>8. prog' = prog
  OBVIOUS
<1> QED BY <1>7, <1>8, FlowKept

LEMMA FlowSkips ==
  ASSUME CfgInv, FlowInv,
         \/ KeepEdge \/ StartSsa \/ MultiplePhiEntries
         \/ DestroyUnreachable \/ MergeWithItself \/ KeepBlock \/ StartCoalesce
         \/ UnableToTransform \/ KeepNonEmpty \/ Finish
  PROVE  FlowInv'
<1>1. /\ UNCHANGED <<prog, to, own, body, phi, killed>>
      /\ if_bbs' = if_bbs \/ if_bbs' = Without(if_bbs, Head(todo))
      /\ phase' \in Early => phase \in Early
      /\ phase' \in {"dead", "coalesce"} => phase \in {"dead", "coalesce"}
      /\ phase' \in {"empty", "done"} => phase \in {"empty", "done"}
  BY DEF KeepEdge, StartSsa, MultiplePhiEntries, DestroyUnreachable, MergeWithItself, KeepBlock, StartCoalesce,
         UnableToTransform, KeepNonEmpty, Finish, Visit, Skip, Start, Fail, Early
<1>2. \A b \in Ids : Holds(if_bbs', b) => Holds(if_bbs, b)
  <2>1. if_bbs \in Seq(Ids)
    BY Typed
  <2>2. \A x : Holds(Without(if_bbs, Head(todo)), x) => Holds(if_bbs, x)
    BY <2>1, WithoutHolds
  <2>3. CASE if_bbs' = if_bbs
    BY <2>3 DEF Holds
  <2>4. CASE if_bbs' = Without(if_bbs, Head(todo))
    BY <2>2, <2>4
  <2> QED BY <1>1, <2>3, <2>4
<1> QED BY <1>1, <1>2, FlowFrame

LEMMA FlowStartDead ==
  ASSUME CfgInv, FlowInv, StartDead
  PROVE  FlowInv'
<1>1. /\ phase = "ssa" /\ phase' = "dead" /\ todo = <<>>
      /\ UNCHANGED <<prog, if_bbs, to, own, body, phi, killed>>
  BY DEF StartDead, Start
<1>2. \A b \in Ids : Holds(if_bbs, b) => phi[b] = <<>>
  <2>1. \A b : ~Holds(todo, b)
    BY <1>1 DEF Holds
  <2> QED BY <1>1, <2>1 DEF CfgInv, PhisLeft
<1>3. to \in [Ids -> Seq(Ids)] /\ \A a, c : Holds(if_bbs, a) /\ Holds(to[a], c) => Holds(if_bbs, c)
  BY Typed DEF CfgInv, GraphOK
<1>4. ASSUME NEW ms \in SUBSET Moves
      PROVE  \E V, R : LateFlow(to', own', ms, Stripped(ms)', if_bbs', V, R)
  <2>1. PICK V, R : EarlyFlow(phi, to, own, ms, Stripped(ms), if_bbs, V, R)
    BY <1>1 DEF FlowInv, Early
  <2>2. Stripped(ms) \in [Ids -> Seq(Tok)]
    BY StrippedTyped
  <2> DEFINE bd == Stripped(ms)
  <2>3. EarlyFlow(phi, to, own, ms, bd, if_bbs, V, R) /\ bd \in [Ids -> Seq(Tok)]
    BY <2>1, <2>2
  <2>4. Stripped(ms)' = bd
    BY <1>1 DEF Stripped
  <2> HIDE DEF bd
  <2>5. LateFlow(to, own, ms, bd, if_bbs, V, R)
    BY <1>2, <1>3, <2>3, FlowLater
  <2>6. to' = to /\ own' = own /\ if_bbs' = if_bbs
    BY <1>1
  <2> QED BY <2>4, <2>5, <2>6
<1>5. FlowNext
  BY <1>1, <1>4 DEF FlowNext, Early
<1> QED BY <1>1, <1>5, FlowKept

LEMMA FlowCoalesce ==
  ASSUME CfgInv, FlowInv, NEW ms \in SUBSET Moves, coalesce(ms)
  PROVE  FlowInv'
<1>1. /\ phase = "coalesce" /\ phase' = "empty" /\ killed' = ms
      /\ body' = Stripped(ms)
      /\ UNCHANGED <<prog, if_bbs, to, own>>
  BY DEF coalesce, Stripped
<1>2. PICK V, R : LateFlow(to, own, ms, Stripped(ms), if_bbs, V, R)
  BY <1>1 DEF FlowInv, Moves
<1>3. LateFlow(to', own', killed', body', if_bbs', V, R)
  <2>1. to' = to /\ own' = own /\ if_bbs' = if_bbs
    BY <1>1
  <2> QED BY <1>1, <1>2, <2>1
<1>4. FlowNext
  BY <1>1, <1>3 DEF FlowNext, Early
<1> QED BY <1>1, <1>4, FlowKept

LEMMA FlowRemoveEmpty ==
  ASSUME CfgInv, FlowInv, RemoveEmpty
  PROVE  FlowInv'
<1> DEFINE b == Head(todo)
           nb == to[b][1]
<1>1. /\ phase = "empty" /\ phase' = "empty" /\ todo # <<>> /\ todo' = Tail(todo)
      /\ Empty(b)
      /\ UNCHANGED <<prog, own, body, killed>>
      /\ if_bbs' = Without(if_bbs, b)
  BY DEF RemoveEmpty, Visit
<1>2. to' = [p \in Ids |-> IF p \in Preds(b) THEN Replaced(to[p], b, nb) ELSE to[p]]
  BY DEF RemoveEmpty, bb_change_branch
<1>3. /\ to \in [Ids -> Seq(Ids)] /\ own \in [Ids -> Ids] /\ body \in [Ids -> Seq(Tok)] /\ if_bbs \in Seq(Ids)
      /\ b \in Ids
  BY <1>1, Typed, BodyTokens, VisitTail
<1>4. nb \in Ids /\ to[b] = <<nb>> /\ body[b] = <<>>
  <2>1. to[b] \in Seq(Ids) /\ Len(to[b]) = 1
    BY <1>1, <1>3 DEF Empty
  <2>2. nb \in Ids /\ to[b] = <<nb>>
    BY <2>1, OnlyTarget
  <2> QED BY <1>1, <2>2 DEF Empty
<1>5. PICK V, R : LateFlow(to, own, killed, body, if_bbs, V, R)
  BY <1>1 DEF FlowInv
<1>6. \A x \in Ids : Holds(if_bbs', x) => Holds(if_bbs, x) /\ x # b
  BY <1>1, <1>3, WithoutHolds
<1>7. \A x \in Ids : to'[x] = Replaced(to[x], b, nb) \/ to'[x] = to[x]
  BY <1>2
<1>8. Holds(if_bbs, b) => LateFlow(to', own, killed, body, if_bbs', V, R)
  <2> DEFINE tos2 == to'
             bbs2 == if_bbs'
  <2>1. \A x \in Ids : Holds(bbs2, x) => tos2[x] = Replaced(to[x], b, nb) \/ tos2[x] = to[x]
    BY <1>7
  <2>2. \A x \in Ids : Holds(bbs2, x) => Holds(if_bbs, x) /\ x # b
    BY <1>6
  <2> HIDE DEF tos2, bbs2, b, nb
  <2>3. Holds(if_bbs, b) => LateFlow(tos2, own, killed, body, bbs2, V, R)
    BY <1>3, <1>4, <1>5, <2>1, <2>2, FlowRemove
  <2> QED BY <2>3 DEF tos2, bbs2
<1>9. ~Holds(if_bbs, b) => LateFlow(to', own, killed, body, if_bbs', V, R)
  <2>1. ~Holds(if_bbs, b) => \A p : p \notin Preds(b)
    BY PredsForm DEF CfgInv, GraphOK
  <2>2. ~Holds(if_bbs, b) => \A x \in Ids : to'[x] = to[x]
    BY <1>2, <2>1
  <2> DEFINE tos2 == to'
             bbs2 == if_bbs'
  <2>3. \A x \in Ids : Holds(bbs2, x) => Holds(if_bbs, x)
    BY <1>6
  <2>4. ~Holds(if_bbs, b) => \A x \in Ids : tos2[x] = to[x]
    BY <2>2
  <2> HIDE DEF tos2, bbs2, b, nb
  <2>5. ~Holds(if_bbs, b) => LateFlow(tos2, own, killed, body, bbs2, V, R)
    BY <1>5, <2>3, <2>4 DEF LateFlow, RunsLate
  <2> QED BY <2>5 DEF tos2, bbs2
<1>10. LateFlow(to', own', killed', body', if_bbs', V, R)
  <2>1. own' = own /\ killed' = killed /\ body' = body
    BY <1>1
  <2> QED BY <1>8, <1>9, <2>1
<1>11. FlowNext
  BY <1>1, <1>10 DEF FlowNext, Early
<1> QED BY <1>1, <1>11, FlowKept

LEMMA FlowMerges ==
  ASSUME CfgInv, FlowInv, Merge
  PROVE  FlowInv'
<1> DEFINE b == Head(todo)
           from == CHOOSE p \in Preds(b) : TRUE
<1>1. /\ phase = "dead" /\ phase' = "dead" /\ todo # <<>> /\ todo' = Tail(todo)
      /\ Mergeable(b) /\ b \notin Preds(b)
      /\ UNCHANGED <<prog, killed, phi>>
  BY DEF Merge, Visit
<1>2. /\ if_bbs' = Without(if_bbs, b)
      /\ body' = [body EXCEPT ![from] = @ \o body[b]]
      /\ to' = [to EXCEPT ![from] = to[b]]
      /\ own' = [own EXCEPT ![from] = own[b]]
  BY DEF Merge
<1>3. /\ to \in [Ids -> Seq(Ids)] /\ own \in [Ids -> Ids] /\ body \in [Ids -> Seq(Tok)] /\ if_bbs \in Seq(Ids)
      /\ b \in Ids
  BY <1>1, Typed, BodyTokens, VisitTail
<1>4. from \in Ids /\ from # b /\ Holds(if_bbs, from) /\ Holds(if_bbs, b) /\ to[from] = <<b>>
  <2>1. PICK p \in Ids : Preds(b) = {p}
    BY <1>1, OnlyPred DEF Mergeable
  <2>2. from = p /\ from \in Preds(b)
    BY <2>1
  <2> HIDE DEF from
  <2>3. Holds(if_edges, <<from, b>>) /\ Len(to[from]) = 1
    BY <1>1, <2>2, PredsForm DEF Mergeable
  <2>4. Holds(if_bbs, from) /\ Holds(to[from], b) /\ Holds(if_bbs, b)
    BY <2>3 DEF CfgInv, GraphOK
  <2>5. to[from] = <<b>>
    <3>1. to[from] = <<to[from][1]>> /\ to[from][1] = b
      <4>1. to[from] \in Seq(Ids)
        BY <1>3, <2>1, <2>2
      <4>2. to[from] = <<to[from][1]>>
        BY <2>3, <4>1, OnlyTarget
      <4>3. to[from][1] = b
        BY <2>3, <2>4 DEF Holds
      <4> QED BY <4>2, <4>3
    <3> QED BY <3>1
  <2> QED BY <1>1, <2>1, <2>2, <2>4, <2>5
<1> HIDE DEF from, b
<1>5. ASSUME NEW ms \in SUBSET Moves
      PROVE  \E V, R : LateFlow(to', own', ms, Stripped(ms)', if_bbs', V, R)
  <2>1. PICK V, R : LateFlow(to, own, ms, Stripped(ms), if_bbs, V, R)
    BY <1>1, <1>5 DEF FlowInv
  <2> DEFINE bd == Stripped(ms)
             bbs2 == if_bbs'
  <2>2. bd \in [Ids -> Seq(Tok)] /\ \A x \in Ids : bd[x] = Dropping(body[x], ms) /\ body[x] \in Seq(Tok)
    BY StrippedTyped
  <2>3. Stripped(ms)' = [bd EXCEPT ![from] = @ \o bd[b]]
    <3>1. Stripped(ms)' = [x \in Ids |-> Dropping(body'[x], ms)]
      BY DEF Stripped
    <3>2. Dropping(body[from] \o body[b], ms) = Dropping(body[from], ms) \o Dropping(body[b], ms)
      <4>1. \A u, w \in Seq(Tok) : Dropping(u \o w, ms) = Dropping(u, ms) \o Dropping(w, ms)
        <5> TAKE u, w \in Seq(Tok)
        <5> QED BY DroppingConcat
      <4>2. body[from] \in Seq(Tok) /\ body[b] \in Seq(Tok)
        BY <1>3, <1>4
      <4> QED BY <4>1, <4>2
    <3>3. \A x \in Ids : body'[x] = IF x = from THEN body[from] \o body[b] ELSE body[x]
      BY <1>2, <1>3
    <3> HIDE DEF bd
    <3>4. \A x \in Ids : Dropping(body'[x], ms) = IF x = from THEN bd[from] \o bd[b] ELSE bd[x]
      BY <1>3, <1>4, <2>2, <3>2, <3>3
    <3> QED BY <2>2, <3>1, <3>4
  <2>4. \A x \in Ids : Holds(bbs2, x) => Holds(if_bbs, x)
    BY <1>2, <1>3, WithoutHolds
  <2>5. LateFlow(to, own, ms, bd, if_bbs, V, R)
    BY <2>1
  <2> HIDE DEF bd, bbs2
  <2>6. LateFlow([to EXCEPT ![from] = to[b]], [own EXCEPT ![from] = own[b]], ms,
                 [bd EXCEPT ![from] = @ \o bd[b]], bbs2, V, R)
    BY <1>3, <1>4, <2>2, <2>4, <2>5, FlowMerge
  <2>7. LateFlow(to', own', ms, Stripped(ms)', if_bbs', V, R)
    BY <1>2, <2>3, <2>6 DEF bbs2
  <2> QED BY <2>7
<1>6. FlowNext
  BY <1>1, <1>5 DEF FlowNext, Early
<1> QED BY <1>1, <1>6, FlowKept

-----------------------------------------------------------------------------
(* While there are PHIs: the blocks of the function as parsed keep their    *)
(* branches, and an edge into a block with PHIs is either still to be       *)
(* visited or the only way out of the block it leaves.                      *)
EntryFirst == if_bbs # <<>> /\ if_bbs[1] = 1 /\ \A i \in 1..Len(if_bbs) : if_bbs[i] = 1 => i = 1

BranchesParsed ==
  \A b \in 1..NumBBs :
    /\ Len(to[b]) = Len(prog.to[b])
    /\ Len(prog.to[b]) = 1 => to[b] = prog.to[b]
    /\ prog.body[b] # <<>> => Holds(body[b], <<b, 0>>)

MovesCome ==
  \A b \in 1..NumBBs : Holds(if_bbs, b) =>
    \A x \in prog.phis : prog.to[b] = <<x>> /\ phi[x] = <<>> => Holds(body[b], <<b, x>>)

NewEmpty == phase = "critical" => \A b \in Ids : b \notin 1..NumBBs => body[b] = <<>>

OnlyTo(s, t) == \A x : Holds(s, x) => x = t

Settled ==
  \A p, t \in Ids : Holds(if_bbs, p) /\ Holds(to[p], t) /\ phi[t] # <<>> =>
    (phase = "critical" /\ Holds(todo, <<p, t>>)) \/ OnlyTo(to[p], t)

TwiceNamed(entries, p) ==
  \E i, j \in 1..Len(entries) : i # j /\ entries[i].pred = p /\ entries[j].pred = p

TwiceEntered ==
  \A p, t \in Ids : Len(to[p]) >= 2 /\ to[p][1] = t /\ to[p][2] = t /\ phi[t] # <<>> => TwiceNamed(phi[t], p)

OrigIsPred == \A b \in Ids : \A i \in 1..Len(phi[b]) : phi[b][i].pred \in 1..NumBBs => phi[b][i].orig = phi[b][i].pred

EarlyInv ==
  phase \in Early =>
    /\ EntryFirst /\ BranchesParsed /\ MovesCome /\ NewEmpty
    /\ Settled /\ TwiceEntered /\ OrigIsPred

LEMMA PairBound ==
  ASSUME NEW S, IsFiniteSet(S), NEW i \in S, NEW j \in S, i # j
  PROVE  Cardinality(S) \in Nat /\ Cardinality(S) >= 2
<1> DEFINE one == {j}
<1>1. i \notin one /\ IsFiniteSet(one) /\ Cardinality(one) = 1
  BY FS_Singleton
<1>2. {i, j} = one \cup {i} /\ {i, j} \subseteq S
  OBVIOUS
<1> HIDE DEF one
<1>3. Cardinality(one \cup {i}) = Cardinality(one) + 1
  BY <1>1, FS_AddElement
<1>4. Cardinality({i, j}) = 1 + 1
  BY <1>1, <1>2, <1>3, Zenon
<1>5. Cardinality({i, j}) <= Cardinality(S) /\ Cardinality(S) \in Nat
  BY <1>2, FS_Subset, FS_CardinalityType
<1> QED BY <1>4, <1>5

LEMMA OnlyEntry ==
  ASSUME NEW b \in Ids, phi[b] \in Entries, NEW p, Cardinality(EntriesFor(b, p)) <= 1
  PROVE  ~TwiceNamed(phi[b], p)
<1>1. SUFFICES ASSUME NEW i \in 1..Len(phi[b]), NEW j \in 1..Len(phi[b]), i # j,
                      phi[b][i].pred = p, phi[b][j].pred = p
               PROVE  FALSE
  BY DEF TwiceNamed
<1> DEFINE E == EntriesFor(b, p)
<1>2. IsFiniteSet(E)
  <2>1. Len(phi[b]) \in Nat
    BY DEF Entries
  <2>2. IsFiniteSet(1..Len(phi[b]))
    BY <2>1, FS_Interval
  <2> QED BY <2>2, FS_Subset DEF EntriesFor
<1>3. i \in E /\ j \in E /\ i # j /\ Cardinality(E) <= 1
  BY <1>1 DEF EntriesFor
<1> HIDE DEF E
<1>4. Cardinality(E) \in Nat /\ Cardinality(E) >= 2
  BY <1>2, <1>3, PairBound
<1> QED BY <1>3, <1>4

(* What exit_ssa does to one block. *)
LEMMA ExitFacts ==
  ASSUME CfgInv, exit_ssa_bb, NEW b, b = Head(todo)
  PROVE  /\ phase = "ssa" /\ phase' = "ssa" /\ todo # <<>> /\ todo' = Tail(todo)
         /\ UNCHANGED <<prog, if_bbs, if_num_bbs, to, own, if_edges, killed>>
         /\ b \in Ids /\ phi \in [Ids -> Entries] /\ body \in [Ids -> Seq(Tok)]
         /\ phi' = [phi EXCEPT ![b] = <<>>]
         /\ \A p \in Ids : Holds(if_bbs, p) /\ Holds(to[p], b) => ~TwiceNamed(phi[b], p)
         /\ \A p \in Ids :
              \/ /\ Holds(if_bbs, p) /\ Holds(to[p], b) /\ Names(phi[b], p)
                 /\ \E i \in 1..Len(phi[b]) :
                      /\ phi[b][i].pred = p
                      /\ <<phi[b][i].orig, b>> \in Tok
                      /\ body'[p] = Append(body[p], <<phi[b][i].orig, b>>)
              \/ /\ ~(Holds(if_bbs, p) /\ Holds(to[p], b) /\ Names(phi[b], p))
                 /\ body'[p] = body[p]
<1>1. /\ phase = "ssa" /\ phase' = "ssa" /\ todo # <<>> /\ todo' = Tail(todo)
      /\ UNCHANGED <<prog, if_bbs, if_num_bbs, to, own, if_edges, killed>>
  BY DEF exit_ssa_bb, Visit
<1>2. /\ body' = [p \in Ids |->
                    IF p \in Preds(b) /\ EntriesFor(b, p) # {}
                    THEN LET i == CHOOSE j \in EntriesFor(b, p) : TRUE
                         IN  Append(body[p], <<phi[b][i].orig, b>>)
                    ELSE body[p]]
      /\ phi' = [phi EXCEPT ![b] = <<>>]
      /\ \A p \in Preds(b) : Cardinality(EntriesFor(b, p)) <= 1
  BY DEF exit_ssa_bb
<1>3. /\ b \in Ids /\ phi \in [Ids -> Entries] /\ body \in [Ids -> Seq(Tok)]
      /\ GraphOK(if_bbs, if_edges, to)
  BY <1>1, Typed, VisitTail, BodyTokens DEF Entries
<1>4. \A p : p \in Preds(b) <=> Holds(if_bbs, p) /\ Holds(to[p], b)
  BY <1>3, PredsForm DEF GraphOK
<1>5. \A p : EntriesFor(b, p) # {} <=> Names(phi[b], p)
  BY DEF EntriesFor, Names
<1>6. ASSUME NEW p \in Ids, Holds(if_bbs, p), Holds(to[p], b)
      PROVE  ~TwiceNamed(phi[b], p)
  <2>1. phi[b] \in Entries /\ Cardinality(EntriesFor(b, p)) <= 1
    BY <1>2, <1>3, <1>4, <1>6
  <2> QED BY <1>3, <2>1, OnlyEntry
<1>7. ASSUME NEW p \in Ids, Holds(if_bbs, p), Holds(to[p], b), Names(phi[b], p)
      PROVE  \E i \in 1..Len(phi[b]) :
                      /\ phi[b][i].pred = p
                      /\ <<phi[b][i].orig, b>> \in Tok
                      /\ body'[p] = Append(body[p], <<phi[b][i].orig, b>>)
  <2> DEFINE i == CHOOSE j \in EntriesFor(b, p) : TRUE
  <2>1. i \in EntriesFor(b, p)
    BY <1>5, <1>7
  <2>2. body'[p] = Append(body[p], <<phi[b][i].orig, b>>)
    BY <1>2, <1>4, <1>5, <1>7
  <2> HIDE DEF i
  <2>3. i \in 1..Len(phi[b]) /\ phi[b][i].pred = p
    BY <2>1 DEF EntriesFor
  <2>4. <<phi[b][i].orig, b>> \in Tok
    <3>1. phi[b] \in Entries
      BY <1>3
    <3>2. phi[b][i] \in [pred : Ids, orig : 1..NumBBs]
      BY <2>3, <3>1, ElementOfSeq DEF Entries
    <3>3. phi[b][i].orig \in Ids /\ b \in Int
      BY <1>3, <3>2, IdsFacts
    <3> QED BY <3>3 DEF Tok
  <2> QED BY <2>2, <2>3, <2>4
<1>8. ASSUME NEW p \in Ids, ~(Holds(if_bbs, p) /\ Holds(to[p], b) /\ Names(phi[b], p))
      PROVE  body'[p] = body[p]
  BY <1>2, <1>4, <1>5, <1>8
<1> QED BY <1>1, <1>2, <1>3, <1>6, <1>7, <1>8

LEMMA FlowExit ==
  ASSUME CfgInv, FlowInv, EarlyInv, exit_ssa_bb
  PROVE  FlowInv'
<1> DEFINE b == Head(todo)
<1> DEFINE At(p) == Holds(if_bbs, p) /\ Holds(to[p], b) /\ Names(phi[b], p)
<1>1. /\ phase = "ssa" /\ phase' = "ssa"
      /\ UNCHANGED <<prog, if_bbs, if_num_bbs, to, own, if_edges, killed>>
      /\ b \in Ids /\ phi \in [Ids -> Entries] /\ body \in [Ids -> Seq(Tok)]
      /\ phi' = [phi EXCEPT ![b] = <<>>]
      /\ \A p \in Ids : Holds(if_bbs, p) /\ Holds(to[p], b) => ~TwiceNamed(phi[b], p)
  BY ExitFacts
<1>2. \A p \in Ids :
        \/ At(p) /\ \E i \in 1..Len(phi[b]) : /\ phi[b][i].pred = p
                                              /\ <<phi[b][i].orig, b>> \in Tok
                                              /\ body'[p] = Append(body[p], <<phi[b][i].orig, b>>)
        \/ ~At(p) /\ body'[p] = body[p]
  BY ExitFacts
<1> HIDE DEF b
<1>3. to \in [Ids -> Seq(Ids)]
  BY Typed
<1>4. ASSUME NEW p \in Ids, At(p) PROVE Len(to[p]) = 1
  <2>1. phi[b] # <<>>
    BY <1>4 DEF Names
  <2>2. OnlyTo(to[p], b) /\ TwiceEntered
    BY <1>1, <1>4, <2>1 DEF EarlyInv, Early, Settled
  <2>3. to[p] \in Seq(Ids) /\ Len(to[p]) \in Nat /\ Len(to[p]) # 0
    BY <1>3, <1>4 DEF Holds
  <2>4. SUFFICES ASSUME Len(to[p]) >= 2 PROVE FALSE
    <3>1. \A n \in Nat : n = 0 \/ n = 1 \/ n >= 2
      OBVIOUS
    <3> QED BY <2>3, <3>1, Zenon
  <2>5. 1 \in 1..Len(to[p]) /\ 2 \in 1..Len(to[p])
    BY <2>3, <2>4
  <2>6. to[p][1] = b /\ to[p][2] = b
    BY <2>2, <2>5 DEF OnlyTo, Holds
  <2> QED BY <1>1, <1>4, <2>1, <2>2, <2>4, <2>6 DEF TwiceEntered
<1>5. AgreeAt(phi[b])
  <2>1. CASE phi[b] = <<>>
    BY <2>1 DEF AgreeAt
  <2>2. CASE phi[b] # <<>>
    BY <1>1, <2>2 DEF CfgInv, EntriesParsed, AgreeAt
  <2> QED BY <2>1, <2>2
<1>6. ASSUME NEW ms \in SUBSET Moves
      PROVE  \E V, R : EarlyFlow(phi', to', own', ms, Stripped(ms)', if_bbs', V, R)
  <2>1. PICK V, R : EarlyFlow(phi, to, own, ms, Stripped(ms), if_bbs, V, R)
    BY <1>1, <1>6 DEF FlowInv, Early
  <2> DEFINE bd == Stripped(ms)
             bd2 == Stripped(ms)'
  <2>2. bd \in [Ids -> Seq(Tok)] /\ \A x \in Ids : bd[x] = Dropping(body[x], ms)
    BY StrippedTyped
  <2>3. \A x \in Ids : bd2[x] = Dropping(body'[x], ms)
    BY DEF Stripped
  <2> HIDE DEF bd, bd2
  <2>4. ASSUME NEW p \in Ids, Holds(if_bbs, p)
        PROVE  bd2[p] = IF Holds(to[p], b) /\ Names(phi[b], p) THEN bd[p] \o EdgeMove(phi, ms, p, b) ELSE bd[p]
    <3>1. CASE At(p)
      <4>1. PICK i \in 1..Len(phi[b]) : /\ phi[b][i].pred = p
                                        /\ <<phi[b][i].orig, b>> \in Tok
                                        /\ body'[p] = Append(body[p], <<phi[b][i].orig, b>>)
        BY <1>2, <3>1
      <4>2. EdgeMove(phi, ms, p, b) = Kept(ms, <<phi[b][i].orig, b>>)
        BY <1>5, <4>1, EdgeMoveIs
      <4>3. \A u \in Seq(Tok) : \A m \in Tok : Dropping(Append(u, m), ms) = Dropping(u, ms) \o Kept(ms, m)
        <5> TAKE u \in Seq(Tok)
        <5> TAKE m \in Tok
        <5> QED BY DroppingAppend
      <4>4. body[p] \in Seq(Tok)
        BY <1>1
      <4>5. Dropping(body'[p], ms) = Dropping(body[p], ms) \o Kept(ms, <<phi[b][i].orig, b>>)
        BY <4>1, <4>3, <4>4
      <4> QED BY <2>2, <2>3, <3>1, <4>2, <4>5
    <3>2. CASE ~At(p)
      BY <1>2, <2>2, <2>3, <2>4, <3>2
    <3> QED BY <3>1, <3>2
  <2>5. EarlyFlow(phi, to, own, ms, bd, if_bbs, V, R)
    BY <2>1 DEF bd
  <2>6. EarlyFlow([phi EXCEPT ![b] = <<>>], to, own, ms, bd2, if_bbs, V, R)
    <3>1. \A p \in Ids : Holds(if_bbs, p) /\ Holds(to[p], b) /\ Names(phi[b], p) => Len(to[p]) = 1
      BY <1>4
    <3> HIDE DEF At
    <3> QED BY <1>1, <1>3, <2>2, <2>4, <2>5, <3>1, FlowMoves
  <2>7. to' = to /\ own' = own /\ if_bbs' = if_bbs
    BY <1>1
  <2> QED BY <1>1, <2>6, <2>7 DEF bd2
<1>7. FlowNext
  BY <1>1, <1>6 DEF FlowNext, Early
<1> QED BY <1>1, <1>7, FlowKept

-----------------------------------------------------------------------------
(* What break_crtitical_edges does to one edge. *)
BreakSites(from, t, nb) ==
  /\ Head(todo) = <<from, t>> /\ todo # <<>> /\ todo' = Tail(todo)
  /\ from \in 1..NumBBs /\ from \in Ids
  /\ t \in prog.phis /\ t \in 1..NumBBs /\ t \in Ids
  /\ nb \in Ids /\ nb \notin 1..NumBBs /\ from # nb /\ t # nb
  /\ Holds(if_bbs, from) /\ Holds(if_bbs, t) /\ ~Holds(if_bbs, nb)
  /\ \A p : Holds(if_bbs, p) => ~Holds(to[p], nb)
  /\ Len(to[from]) = Len(prog.to[from]) /\ Len(prog.to[from]) > 1

BreakBranches(from, t, nb) ==
  /\ to'[nb] = <<t>> /\ to'[from] = Replaced(to[from], t, nb)
  /\ \A x \in Ids : x # nb /\ x # from => to'[x] = to[x]

BreakPhis(from, t, nb) ==
  /\ phi[t] # <<>> /\ phi[nb] = <<>> /\ ~Names(phi[t], nb) /\ AgreeAt(phi[t])
  /\ \A x \in Ids : x # t => phi'[x] = phi[x]
  /\ Renamed(phi'[t], phi[t], from, nb)

BreakOrder(t, nb) ==
  \E pos \in 1..Len(if_bbs) : if_bbs[pos] = t /\ IsInsertion(if_bbs', if_bbs, pos, nb)

LEMMA BreakFacts ==
  ASSUME CfgInv, break_critical_edge
  PROVE  /\ phase = "critical" /\ phase' = "critical"
         /\ UNCHANGED <<prog, own, body, killed>>
         /\ \E from, t, nb : /\ BreakSites(from, t, nb) /\ BreakBranches(from, t, nb) /\ BreakPhis(from, t, nb)
                             /\ BreakOrder(t, nb)
                             /\ \A x : Holds(if_bbs', x) <=> Holds(if_bbs, x) \/ x = nb
<1> DEFINE from == Head(todo)[1]
           t    == Head(todo)[2]
           nb   == if_num_bbs + 1
           pos  == CHOOSE i \in 1..Len(if_bbs) : if_bbs[i] = t
<1>1. /\ phase = "critical" /\ phase' = "critical" /\ todo # <<>> /\ todo' = Tail(todo)
      /\ phi[t] # <<>> /\ Critical(Head(todo))
      /\ UNCHANGED <<prog, own, body, killed>>
  BY DEF break_critical_edge, Visit, Critical
<1>2. /\ if_num_bbs' = nb
      /\ if_bbs' = InsertAt(if_bbs, pos, nb)
      /\ to' = [to EXCEPT ![nb] = <<t>>, ![from] = Replaced(@, t, nb)]
      /\ phi' = [phi EXCEPT ![t] = PhiMoved(@, from, nb)]
  BY DEF break_critical_edge, bb_make, bb_change_branch
<1>3. /\ if_bbs \in Seq(1..if_num_bbs) /\ if_bbs \in Seq(Ids) /\ if_num_bbs \in Nat /\ NumBBs <= if_num_bbs
      /\ to \in [Ids -> Seq(Ids)]
      /\ phi \in [Ids -> Entries]
      /\ todo \in Seq(Ids \X Ids)
      /\ GraphOK(if_bbs, if_edges, to)
      /\ EdgesListed /\ EntriesParsed /\ ProgOK
  BY <1>1, Typed DEF CfgInv, Entries
<1>4. Head(todo) \in Ids \X Ids /\ Holds(todo, Head(todo))
  BY <1>1, <1>3, TailHolds
<1>5. from \in Ids /\ t \in Ids /\ Head(todo) = <<from, t>>
  BY <1>4
<1>6. from \in 1..NumBBs /\ Holds(if_edges, <<from, t>>)
  BY <1>3, <1>4, <1>5, Zenon DEF EdgesListed
<1>7. Len(prog.to[from]) > 1 /\ Len(to[from]) = Len(prog.to[from])
  <2>1. Head(todo) \in Pending(todo)
    BY <1>1, CriticalPending
  <2>2. Len(to[from]) = Len(prog.to[from])
    BY <1>3, <1>6, Zenon DEF EdgesListed
  <2> QED BY <2>1, <2>2 DEF Pending
<1>8. nb \in Ids /\ nb \notin 1..if_num_bbs /\ nb \notin 1..NumBBs
  <2>1. CfgInv'
    BY BreakKeeps
  <2>2. if_num_bbs' \in Ids
    BY <2>1 DEF CfgInv, TypeOK
  <2>3. nb \notin 1..if_num_bbs /\ nb \notin 1..NumBBs
    BY <1>3, IdsFacts
  <2> QED BY <1>2, <2>2, <2>3
<1>9. ~Holds(if_bbs, nb)
  BY <1>3, <1>8, ElementOfSeq DEF Holds
<1>10. /\ Holds(if_bbs, from) /\ Holds(if_bbs, t) /\ Holds(to[from], t)
       /\ \A p : Holds(if_bbs, p) => ~Holds(to[p], nb)
  <2>1. Holds(if_bbs, from) /\ Holds(to[from], t)
    BY <1>3, <1>6, Zenon DEF GraphOK
  <2>2. Holds(if_bbs, t)
    BY <1>3, <2>1, Zenon DEF GraphOK
  <2> HIDE DEF nb
  <2>3. \A p : Holds(if_bbs, p) => ~Holds(to[p], nb)
    <3>1. \A a, c : Holds(if_bbs, a) /\ Holds(to[a], c) => Holds(if_bbs, c)
      BY <1>3, Zenon DEF GraphOK
    <3> QED BY <1>9, <3>1, Zenon
  <2> QED BY <2>1, <2>2, <2>3
<1>11. pos \in 1..Len(if_bbs) /\ if_bbs[pos] = t
  BY <1>10 DEF Holds
<1>12. \A i \in 1..Len(phi[t]) : phi[t][i].pred <= if_num_bbs
  BY <1>1, <1>3, <1>5 DEF EntriesParsed
<1>13. t \in prog.phis /\ AgreeAt(phi[t]) /\ phi[nb] = <<>>
  <2>1. t \in prog.phis /\ AgreeAt(phi[t])
    BY <1>1, <1>3, <1>5 DEF EntriesParsed, AgreeAt
  <2>2. phi[nb] = <<>>
    BY <1>3, <1>8 DEF EntriesParsed, ProgOK
  <2> QED BY <2>1, <2>2
<1>14. ~Names(phi[t], nb)
  <2>1. \A x : x <= if_num_bbs => x # if_num_bbs + 1
    <3>1. ~(if_num_bbs + 1 <= if_num_bbs)
      BY <1>3
    <3> QED BY <3>1, Zenon
  <2> QED BY <1>12, <2>1, Zenon DEF Names
<1>15. t \in 1..NumBBs /\ from # nb /\ t # nb
  BY <1>3, <1>6, <1>8, <1>13 DEF ProgOK
<1> HIDE DEF pos, nb, from, t
<1>16. IsInsertion(if_bbs', if_bbs, pos, nb) /\ \A x : Holds(if_bbs', x) <=> Holds(if_bbs, x) \/ x = nb
  <2>1. pos \in 1..(Len(if_bbs) + 1)
    BY <1>3, <1>11
  <2>2. IsInsertion(InsertAt(if_bbs, pos, nb), if_bbs, pos, nb)
    BY <1>3, <1>8, <2>1, InsertAtFacts
  <2>3. \A x : Holds(InsertAt(if_bbs, pos, nb), x) <=> Holds(if_bbs, x) \/ x = nb
    BY <1>3, <1>8, <1>11, InsertedHolds
  <2> QED BY <1>2, <2>2, <2>3
<1>17. BreakBranches(from, t, nb)
  BY <1>2, <1>3, <1>5, <1>8, <1>15 DEF BreakBranches
<1>18. Renamed(phi'[t], phi[t], from, nb) /\ \A x \in Ids : x # t => phi'[x] = phi[x]
  <2> DEFINE s == phi[t]
             s2 == phi'[t]
  <2>1. phi[t] \in Entries /\ phi'[t] = PhiMoved(phi[t], from, nb) /\ \A x \in Ids : x # t => phi'[x] = phi[x]
    BY <1>2, <1>3, <1>5
  <2>2. s \in Seq([pred : Ids, orig : 1..NumBBs]) /\ s2 = PhiMoved(s, from, nb)
    BY <2>1 DEF Entries
  <2> HIDE DEF s, s2
  <2>3. s2 = [i \in 1..Len(s) |->
               [pred |-> IF s[i].pred = from THEN nb ELSE s[i].pred, orig |-> s[i].orig]]
    BY <2>2, Zenon DEF PhiMoved
  <2>4. Renamed(s2, s, from, nb)
    BY <2>2, <2>3 DEF Renamed
  <2> QED BY <2>1, <2>4 DEF s, s2
<1>19. BreakSites(from, t, nb)
  BY <1>1, <1>5, <1>6, <1>7, <1>8, <1>9, <1>10, <1>13, <1>15 DEF BreakSites
<1>20. BreakPhis(from, t, nb)
  BY <1>1, <1>13, <1>14, <1>18 DEF BreakPhis, t
<1>21. BreakOrder(t, nb)
  BY <1>11, <1>16 DEF BreakOrder
<1> QED BY <1>1, <1>16, <1>17, <1>19, <1>20, <1>21

LEMMA FlowBreak ==
  ASSUME CfgInv, FlowInv, EarlyInv, ParsedOK, break_critical_edge
  PROVE  FlowInv'
<1>1. phase = "critical" /\ phase' = "critical" /\ UNCHANGED <<prog, own, body, killed>>
  BY BreakFacts
<1>2. PICK from, t, nb : /\ BreakSites(from, t, nb) /\ BreakBranches(from, t, nb) /\ BreakPhis(from, t, nb)
                         /\ \A x : Holds(if_bbs', x) <=> Holds(if_bbs, x) \/ x = nb
  BY BreakFacts
<1>3. phi \in [Ids -> Entries] /\ to \in [Ids -> Seq(Ids)] /\ ProgOK
  BY Typed DEF CfgInv, Entries
<1>4. body[nb] = <<>>
  BY <1>1, <1>2 DEF EarlyInv, Early, NewEmpty, BreakSites
<1>5. ASSUME NEW ms \in SUBSET Moves
      PROVE  \E V, R : EarlyFlow(phi', to', own', ms, Stripped(ms)', if_bbs', V, R)
  <2>1. PICK V, R : EarlyFlow(phi, to, own, ms, Stripped(ms), if_bbs, V, R)
    BY <1>1, <1>5 DEF FlowInv, Early
  <2> DEFINE bd == Stripped(ms)
             ph2 == phi'
             tos2 == to'
             bbs2 == if_bbs'
  <2>2. bd \in [Ids -> Seq(Tok)] /\ \A x \in Ids : bd[x] = Dropping(body[x], ms)
    BY StrippedTyped
  <2>3. bd[nb] = <<>>
    <3>1. Dropping(<<>>, ms) = <<>>
      <4> DEFINE x == <<1, 0>>
      <4>1. x \notin ms
        BY <1>3, GoneFacts
      <4>2. x \in {x}
        OBVIOUS
      <4> HIDE DEF x
      <4> QED BY <4>1, <4>2, DroppingNone
    <3> QED BY <1>2, <1>4, <2>2, <3>1 DEF BreakSites
  <2>4. Stripped(ms)' = bd
    BY <1>1 DEF Stripped
  <2>5. EarlyFlow(phi, to, own, ms, bd, if_bbs, V, R)
    BY <2>1
  <2> HIDE DEF bd
  <2>6. /\ from \in Ids /\ t \in 1..NumBBs /\ nb \in Ids /\ nb \notin 1..NumBBs /\ from # nb
        /\ Holds(if_bbs, from) /\ Len(to[from]) # 1 /\ ~Holds(if_bbs, nb)
        /\ \A p \in Ids : Holds(if_bbs, p) => ~Holds(to[p], nb)
    <3>1. Len(to[from]) # 1
      <4>1. \A n : n > 1 => n # 1
        <5>1. ~(1 > 1)
          OBVIOUS
        <5> QED BY <5>1, Zenon
      <4> QED BY <1>2, <4>1, Zenon DEF BreakSites
    <3> QED BY <1>2, <3>1 DEF BreakSites
  <2>7. phi[nb] = <<>> /\ ~Names(phi[t], nb) /\ AgreeAt(phi[t])
    BY <1>2, Zenon DEF BreakPhis
  <2>8. (\A x \in Ids : x # t => ph2[x] = phi[x]) /\ Renamed(ph2[t], phi[t], from, nb)
    BY <1>2, Zenon DEF BreakPhis
  <2>9. /\ tos2[nb] = <<t>> /\ tos2[from] = Replaced(to[from], t, nb)
        /\ \A x \in Ids : x # nb /\ x # from => tos2[x] = to[x]
    BY <1>2 DEF BreakBranches
  <2>10. \A x : Holds(bbs2, x) <=> Holds(if_bbs, x) \/ x = nb
    BY <1>2
  <2> HIDE DEF ph2, tos2, bbs2
  <2>11. \E V2, R2 : EarlyFlow(ph2, tos2, own, ms, bd, bbs2, V2, R2)
    <3>1. SplitFrom(phi, to, bd, if_bbs, from, t, nb)
      BY <2>3, <2>6, <2>7 DEF SplitFrom
    <3>2. SplitInto(ph2, phi, tos2, to, bbs2, if_bbs, from, t, nb)
      BY <2>8, <2>9, <2>10 DEF SplitInto
    <3> QED BY <1>3, <2>2, <2>5, <3>1, <3>2, FlowSplit
  <2> QED BY <1>1, <2>4, <2>11 DEF ph2, tos2, bbs2
<1>6. FlowNext
  BY <1>1, <1>5 DEF FlowNext, Early
<1> QED BY <1>1, <1>6, FlowKept

-----------------------------------------------------------------------------
(* A block that branches twice to another is listed twice by its PHIs. *)
Twin(r, x) == \E j, k \in 1..Len(r) : j # k /\ r[j] = x /\ r[k] = x

LEMMA TwinConcat ==
  ASSUME NEW S, NEW a \in Seq(S), NEW b \in Seq(S), NEW x, Twin(a, x) \/ Twin(b, x)
  PROVE  Twin(a \o b, x)
<1>1. /\ Len(a \o b) = Len(a) + Len(b) /\ Len(a) \in Nat /\ Len(b) \in Nat
      /\ \A k \in 1..Len(a) : (a \o b)[k] = a[k] /\ k \in 1..(Len(a) + Len(b))
      /\ \A k \in 1..Len(b) : (a \o b)[Len(a) + k] = b[k] /\ Len(a) + k \in 1..(Len(a) + Len(b))
  OBVIOUS
<1>2. CASE Twin(a, x)
  <2>1. PICK j \in 1..Len(a), k \in 1..Len(a) : j # k /\ a[j] = x /\ a[k] = x
    BY <1>2 DEF Twin
  <2> QED BY <1>1, <2>1 DEF Twin
<1>3. CASE Twin(b, x)
  <2>1. PICK j \in 1..Len(b), k \in 1..Len(b) : j # k /\ b[j] = x /\ b[k] = x
    BY <1>3 DEF Twin
  <2> DEFINE J == Len(a) + j
             K == Len(a) + k
             r == a \o b
  <2>2. J # K
    BY <1>1, <2>1
  <2>3. J \in 1..Len(r) /\ K \in 1..Len(r) /\ r[J] = x /\ r[K] = x
    BY <1>1, <2>1
  <2> HIDE DEF J, K, r
  <2>4. Twin(r, x)
    BY <2>2, <2>3 DEF Twin
  <2> QED BY <2>4 DEF r
<1> QED BY <1>2, <1>3

LEMMA FlattenTwin ==
  ASSUME NEW S, NEW s \in Seq(Seq(S)), NEW i \in 1..Len(s), NEW x, Twin(s[i], x)
  PROVE  Twin(FlattenSeq(s), x)
<1>0. Len(s) \in Nat /\ Len(s) # 0 /\ \A n \in 1..Len(s) : s[n] \in Seq(S)
  BY ElementOfSeq
<1>1. PICK g : /\ FlattenSeq(s) = g[Len(s)]
               /\ \A n \in 1..Len(s) : g[n] = IF n = 1 THEN s[n] ELSE g[n-1] \o s[n]
  BY <1>0, FlattenUnfolds
<1> DEFINE Right(n) == g[n] \in Seq(S) /\ (n >= i => Twin(g[n], x))
           T == {n \in Nat : n + 1 \in 1..Len(s) => Right(n + 1)}
<1>2. 0 \in T
  <2>1. 0 + 1 = 1 /\ 1 \in 1..Len(s) /\ (1 >= i => i = 1)
    BY <1>0
  <2>2. g[1] = s[1]
    BY <1>1, <2>1
  <2> QED BY <1>0, <2>1, <2>2
<1>3. ASSUME NEW n \in Nat, n \in T PROVE n + 1 \in T
  <2> SUFFICES ASSUME (n + 1) + 1 \in 1..Len(s) PROVE Right((n + 1) + 1)
    OBVIOUS
  <2> DEFINE k == (n + 1) + 1
  <2>1. n + 1 \in 1..Len(s) /\ k # 1 /\ k - 1 = n + 1 /\ k \in 1..Len(s) /\ (k >= i => n + 1 >= i \/ k = i)
    BY <1>0
  <2>2. Right(n + 1)
    BY <1>3, <2>1
  <2>3. g[k] = g[n + 1] \o s[k]
    <3>1. g[k] = g[k - 1] \o s[k]
      BY <1>1, <2>1
    <3> QED BY <2>1, <3>1
  <2> HIDE DEF k
  <2>4. g[n + 1] \in Seq(S) /\ s[k] \in Seq(S)
    BY <1>0, <2>1, <2>2
  <2> DEFINE u == g[n + 1]
             w == s[k]
  <2>5. u \in Seq(S) /\ w \in Seq(S) /\ g[k] = u \o w
    BY <2>3, <2>4
  <2>6. k >= i => Twin(u, x) \/ Twin(w, x)
    BY <2>1, <2>2
  <2> HIDE DEF u, w
  <2>7. g[k] \in Seq(S)
    BY <2>5
  <2>8. k >= i => Twin(g[k], x)
    BY <2>5, <2>6, TwinConcat
  <2> QED BY <2>7, <2>8 DEF k
<1>4. \A n \in Nat : n \in T => n + 1 \in T
  BY <1>3
<1> HIDE DEF T
<1>5. Nat \subseteq T
  BY <1>2, <1>4, NatSetInduction
<1> DEFINE m == Len(s) - 1
<1>6. m \in T /\ m + 1 = Len(s) /\ m + 1 \in 1..Len(s) /\ Len(s) >= i
  BY <1>0, <1>5
<1>7. Right(Len(s))
  BY <1>6, Zenon DEF T
<1> QED BY <1>1, <1>6, <1>7

LEMMA IntoTwice ==
  ASSUME NEW t \in [1..NumBBs -> Targets], NEW p \in 1..NumBBs, NEW b,
         Len(t[p]) >= 2, t[p][1] = b, t[p][2] = b
  PROVE  Twin(Into(t, b), p)
<1> DEFINE K(q) == {k \in 1..Len(t[q]) : t[q][k] = b}
           c(q) == Cardinality(K(q))
           s == [q \in 1..NumBBs |-> [i \in 1..c(q) |-> q]]
<1>0. NumBBs \in Nat
  BY IdsFacts
<1>1. ASSUME NEW q \in 1..NumBBs PROVE c(q) \in Nat /\ IsFiniteSet(K(q))
  <2>1. Len(t[q]) \in Nat
    BY TargetsFacts
  <2>2. IsFiniteSet(1..Len(t[q]))
    BY <2>1, FS_Interval
  <2>3. IsFiniteSet(K(q))
    BY <2>2, FS_Subset
  <2> QED BY <2>3, FS_CardinalityType
<1>2. c(p) >= 2
  <2>1. t[p] \in Seq(Ids) /\ Len(t[p]) \in Nat
    BY TargetsFacts
  <2>2. 1 \in K(p) /\ 2 \in K(p) /\ 1 # 2
    <3>1. 1 \in 1..Len(t[p]) /\ 2 \in 1..Len(t[p])
      BY <2>1
    <3> QED BY <3>1
  <2>3. IsFiniteSet(K(p))
    BY <1>1
  <2> HIDE DEF K
  <2> QED BY <2>2, <2>3, PairBound
<1>3. Into(t, b) = FlattenSeq(s)
  BY DEF Into
<1> HIDE DEF c
<1>4. \A q \in 1..NumBBs : /\ [i \in 1..c(q) |-> q] \in Seq(1..NumBBs)
                           /\ Len([i \in 1..c(q) |-> q]) = c(q)
                           /\ \A k \in 1..c(q) : [i \in 1..c(q) |-> q][k] = q
  BY <1>1, ConstantSeq, Zenon
<1>5. s \in Seq(Seq(1..NumBBs)) /\ Len(s) = NumBBs
  BY <1>0, <1>4
<1>6. s[p] = [i \in 1..c(p) |-> p]
  OBVIOUS
<1> HIDE DEF s
<1>7. Twin(s[p], p)
  <2>1. Len(s[p]) = c(p) /\ s[p][1] = p /\ s[p][2] = p /\ 1 \in 1..c(p) /\ 2 \in 1..c(p)
    <3>1. 1 \in 1..c(p) /\ 2 \in 1..c(p)
      <4>1. \A n \in Nat : n >= 2 => 1 \in 1..n /\ 2 \in 1..n
        OBVIOUS
      <4> QED BY <1>1, <1>2, <4>1, Zenon
    <3> DEFINE e == [i \in 1..c(p) |-> p]
    <3>2. Len(e) = c(p) /\ \A k \in 1..c(p) : e[k] = p
      BY <1>4
    <3>3. s[p] = e
      BY <1>6
    <3> HIDE DEF e
    <3>4. e[1] = p /\ e[2] = p
      BY <3>1, <3>2
    <3> QED BY <3>1, <3>2, <3>3, <3>4, Zenon
  <2>2. 1 # 2
    OBVIOUS
  <2> QED BY <2>1, <2>2, Zenon DEF Twin
<1>8. p \in 1..Len(s)
  BY <1>5
<1>9. Twin(FlattenSeq(s), p)
  BY <1>5, <1>7, <1>8, FlattenTwin
<1> QED BY <1>3, <1>9

-----------------------------------------------------------------------------
(* The function as it was parsed. *)
PhiParsed(entries, s) ==
  /\ Len(entries) = Len(s)
  /\ \A i \in 1..Len(s) : entries[i].pred = s[i] /\ entries[i].orig = s[i]

LEMMA PhiParsedFrom ==
  ASSUME NEW S, NEW s \in Seq(S)
  PROVE  PhiParsed([i \in 1..Len(s) |-> [pred |-> s[i], orig |-> s[i]]], s)
<1>1. Len(s) \in Nat
  OBVIOUS
<1> QED BY <1>1 DEF PhiParsed

LEMMA InitFacts ==
  ASSUME Init
  PROVE  /\ ParsedOK /\ ProgOK /\ phase = "critical"
         /\ \A x \in prog.phis : Into(prog.to, x) # <<>>
         /\ \A b \in 1..NumBBs : to[b] = prog.to[b] /\ body[b] = prog.body[b]
         /\ \A b \in Ids : b \notin 1..NumBBs => to[b] = <<>> /\ body[b] = <<>>
         /\ \A b \in Ids : IF b \in prog.phis THEN PhiParsed(phi[b], Into(prog.to, b)) ELSE phi[b] = <<>>
         /\ if_bbs = [i \in 1..NumBBs |-> i] /\ if_bbs \in Seq(1..NumBBs) /\ Len(if_bbs) = NumBBs
         /\ \A i \in 1..NumBBs : if_bbs[i] = i
         /\ own = [b \in Ids |-> b] /\ todo = if_edges /\ killed = {}
<1>1. PICK t \in [1..NumBBs -> Targets], busy \in SUBSET (1..NumBBs),
           phis \in SUBSET (1..NumBBs), byval \in SUBSET (1..NumBBs) :
       /\ Admitted(t, busy, phis, byval)
       /\ prog = [to    |-> t,
                  body  |-> [b \in 1..NumBBs |-> IF b \in busy THEN << <<b, 0>> >> ELSE <<>>],
                  phis  |-> phis,
                  byval |-> byval]
       /\ to = [b \in Ids |-> IF b <= NumBBs THEN t[b] ELSE <<>>]
       /\ phi = [b \in Ids |-> IF b \in phis
                               THEN [i \in 1..Len(Into(t, b)) |->
                                       [pred |-> Into(t, b)[i], orig |-> Into(t, b)[i]]]
                               ELSE <<>>]
       /\ if_edges = construct_cfg(t)
  BY Zenon DEF Init
<1>2. /\ if_bbs = [i \in 1..NumBBs |-> i]
      /\ own = [b \in Ids |-> b]
      /\ body = [b \in Ids |-> IF b <= NumBBs THEN prog.body[b] ELSE <<>>]
      /\ todo = if_edges
      /\ killed = {}
      /\ phase = "critical"
  BY Zenon DEF Init
<1>3. /\ 1..NumBBs \subseteq Ids
      /\ \A b \in Ids : b <= NumBBs <=> b \in 1..NumBBs
  BY IdsFacts
<1>4. /\ prog.to = t /\ prog.phis = phis
      /\ prog.body = [b \in 1..NumBBs |-> IF b \in busy THEN << <<b, 0>> >> ELSE <<>>]
  BY <1>1
<1>5. \A b : Into(t, b) \in Seq(1..NumBBs) /\ \A p : Holds(Into(t, b), p) <=> p \in 1..NumBBs /\ Holds(t[p], b)
  BY IntoFacts
<1>6. \A x \in phis : Into(t, x) # <<>>
  BY <1>1 DEF Admitted
<1>7. 1 \notin phis
  <2>1. SUFFICES ASSUME 1 \in phis PROVE FALSE
    OBVIOUS
  <2>2. Into(t, 1) # <<>> /\ Into(t, 1) \in Seq(1..NumBBs)
    BY <1>5, <1>6, <2>1
  <2>3. 1 \in 1..Len(Into(t, 1))
    BY <2>2
  <2>4. PICK p \in 1..NumBBs : Holds(t[p], 1)
    BY <1>5, <2>3 DEF Holds
  <2>5. t[p] \in Targets
    OBVIOUS
  <2>6. \A x \in 2..NumBBs : x # 1
    BY IdsFacts
  <2> QED BY <2>4, <2>5, <2>6 DEF Holds, Targets
<1>8. ParsedOK
  <2>1. \A b \in 1..NumBBs : prog.body[b] = <<>> \/ prog.body[b] = << <<b, 0>> >>
    BY <1>4
  <2> QED BY <1>4, <1>7, <2>1 DEF ParsedOK
<1>9. ProgOK
  BY <1>4 DEF ProgOK
<1>10. \A b \in Ids : /\ to[b] = (IF b <= NumBBs THEN t[b] ELSE <<>>)
                      /\ body[b] = (IF b <= NumBBs THEN prog.body[b] ELSE <<>>)
  BY <1>1, <1>2
<1>11. /\ \A b \in 1..NumBBs : to[b] = prog.to[b] /\ body[b] = prog.body[b]
       /\ \A b \in Ids : b \notin 1..NumBBs => to[b] = <<>> /\ body[b] = <<>>
  BY <1>3, <1>4, <1>10
<1>12. ASSUME NEW b \in Ids
       PROVE  IF b \in prog.phis THEN PhiParsed(phi[b], Into(prog.to, b)) ELSE phi[b] = <<>>
  <2>1. phi[b] = IF b \in phis
                 THEN [i \in 1..Len(Into(t, b)) |-> [pred |-> Into(t, b)[i], orig |-> Into(t, b)[i]]]
                 ELSE <<>>
    BY <1>1
  <2>2. PhiParsed([i \in 1..Len(Into(t, b)) |-> [pred |-> Into(t, b)[i], orig |-> Into(t, b)[i]]], Into(t, b))
    BY <1>5, PhiParsedFrom
  <2> QED BY <1>4, <2>1, <2>2
<1>13. if_bbs \in Seq(1..NumBBs) /\ Len(if_bbs) = NumBBs /\ \A i \in 1..NumBBs : if_bbs[i] = i
  BY <1>2, IdsFacts
<1> QED BY <1>2, <1>4, <1>6, <1>8, <1>9, <1>11, <1>12, <1>13

Leading(s) == \A i, j \in 1..Len(s) : i < j /\ Leads(s[j]) => Leads(s[i])

LEMMA EarlyInit ==
  ASSUME Init
  PROVE  EarlyInv /\ Leading(if_bbs)
<1>1. /\ ParsedOK /\ ProgOK /\ phase = "critical"
      /\ \A x \in prog.phis : Into(prog.to, x) # <<>>
      /\ \A b \in 1..NumBBs : to[b] = prog.to[b] /\ body[b] = prog.body[b]
      /\ \A b \in Ids : b \notin 1..NumBBs => to[b] = <<>> /\ body[b] = <<>>
      /\ if_bbs \in Seq(1..NumBBs) /\ Len(if_bbs) = NumBBs /\ \A i \in 1..NumBBs : if_bbs[i] = i
      /\ todo = if_edges
  BY InitFacts
<1>2. \A b \in Ids : IF b \in prog.phis THEN PhiParsed(phi[b], Into(prog.to, b)) ELSE phi[b] = <<>>
  BY InitFacts
<1>3. CfgInv /\ GraphOK(if_bbs, if_edges, to)
  BY CfgInit DEF CfgInv
<1>4. \A x : /\ Into(prog.to, x) \in Seq(1..NumBBs)
             /\ \A p : Holds(Into(prog.to, x), p) <=> p \in 1..NumBBs /\ Holds(prog.to[p], x)
  BY <1>1, IntoFacts DEF ProgOK
<1>5. \A b \in Ids : b \in prog.phis => phi[b] # <<>>
  <2> TAKE b \in Ids
  <2> HAVE b \in prog.phis
  <2>1. Len(phi[b]) = Len(Into(prog.to, b)) /\ Into(prog.to, b) # <<>> /\ Into(prog.to, b) \in Seq(1..NumBBs)
    BY <1>1, <1>2, <1>4 DEF PhiParsed
  <2>2. Len(Into(prog.to, b)) # 0
    BY <2>1
  <2> QED BY <2>1, <2>2
<1>6. EntryFirst
  <2>1. 1 \in 1..NumBBs /\ NumBBs # 0 /\ if_bbs # <<>>
    BY <1>1, IdsFacts
  <2> QED BY <1>1, <2>1 DEF EntryFirst
<1>7. BranchesParsed
  <2>1. ASSUME NEW b \in 1..NumBBs, prog.body[b] # <<>> PROVE Holds(body[b], <<b, 0>>)
    <3>1. body[b] = << <<b, 0>> >>
      BY <1>1, <2>1 DEF ParsedOK
    <3>2. Len(<< <<b, 0>> >>) = 1 /\ << <<b, 0>> >>[1] = <<b, 0>> /\ 1 \in 1..1
      OBVIOUS
    <3> QED BY <3>1, <3>2 DEF Holds
  <2> QED BY <1>1, <2>1, Zenon DEF BranchesParsed
<1>8. MovesCome
  <2>1. \A x \in prog.phis : x \in Ids /\ phi[x] # <<>>
    BY <1>1, <1>5, IdsFacts DEF ProgOK
  <2> QED BY <2>1 DEF MovesCome
<1>9. NewEmpty
  BY <1>1 DEF NewEmpty
<1>10. Settled
  <2>1. \A p, t \in Ids : Holds(if_bbs, p) /\ Holds(to[p], t) => Holds(if_edges, <<p, t>>)
    BY <1>3 DEF GraphOK
  <2> QED BY <1>1, <2>1 DEF Settled
<1>11. TwiceEntered
  <2>1. SUFFICES ASSUME NEW p \in Ids, NEW t \in Ids, Len(to[p]) >= 2, to[p][1] = t, to[p][2] = t, phi[t] # <<>>
                 PROVE  TwiceNamed(phi[t], p)
    BY DEF TwiceEntered
  <2>2. p \in 1..NumBBs
    <3>1. Len(<<>>) = 0 /\ ~(0 >= 2)
      OBVIOUS
    <3> QED BY <1>1, <2>1, <3>1
  <2>3. t \in prog.phis /\ PhiParsed(phi[t], Into(prog.to, t))
    BY <1>2, <2>1
  <2>4. Twin(Into(prog.to, t), p)
    BY <1>1, <2>1, <2>2, IntoTwice DEF ProgOK
  <2> QED BY <2>3, <2>4 DEF Twin, TwiceNamed, PhiParsed
<1>12. OrigIsPred
  <2>1. SUFFICES ASSUME NEW b \in Ids, NEW i \in 1..Len(phi[b]) PROVE phi[b][i].orig = phi[b][i].pred
    BY DEF OrigIsPred
  <2>2. phi[b] # <<>>
    <3>1. Len(<<>>) = 0 /\ 1..0 = {}
      OBVIOUS
    <3> QED BY <3>1
  <2> QED BY <1>2, <2>2 DEF PhiParsed
<1>13. Leading(if_bbs)
  <2>1. SUFFICES ASSUME NEW i \in 1..NumBBs, NEW j \in 1..NumBBs, i < j, Leads(j) PROVE Leads(i)
    BY <1>1 DEF Leading
  <2>2. \A k \in 1..NumBBs : k < i => k < j
    BY <2>1, IdsFacts
  <2> QED BY <2>1, <2>2 DEF Leads
<1> QED BY <1>6, <1>7, <1>8, <1>9, <1>10, <1>11, <1>12, <1>13 DEF EarlyInv

-----------------------------------------------------------------------------
(* The steps that leave PHIs keep this. *)
LEMMA OneWayOut ==
  ASSUME CfgInv, NEW a, NEW t, NEW x, Holds(if_edges, <<a, t>>), Holds(if_edges, <<a, x>>),
         ~(Cardinality(Out(a)) >= 2)
  PROVE  x = t
<1>1. SUFFICES ASSUME x # t PROVE FALSE
  OBVIOUS
<1>2. PICK i \in 1..Len(if_edges), j \in 1..Len(if_edges) : if_edges[i] = <<a, t>> /\ if_edges[j] = <<a, x>>
  BY DEF Holds
<1> DEFINE E == Out(a)
<1>3. i \in E /\ j \in E /\ i # j
  BY <1>1, <1>2 DEF Out
<1>4. IsFiniteSet(E)
  <2>1. Len(if_edges) \in Nat
    BY Typed
  <2>2. IsFiniteSet(1..Len(if_edges))
    BY <2>1, FS_Interval
  <2> QED BY <2>2, FS_Subset DEF Out
<1>5. ~(Cardinality(E) >= 2)
  OBVIOUS
<1> HIDE DEF E
<1> QED BY <1>3, <1>4, <1>5, PairBound

LEMMA EarlyKeepEdge ==
  ASSUME CfgInv, EarlyInv, KeepEdge
  PROVE  EarlyInv'
<1>1. /\ phase = "critical" /\ todo # <<>> /\ todo' = Tail(todo) /\ phase' = phase /\ ~Critical(Head(todo))
      /\ UNCHANGED <<prog, if_bbs, if_num_bbs, to, own, body, phi, if_edges, killed>>
  BY DEF KeepEdge, Visit, Skip
<1>2. /\ EntryFirst /\ BranchesParsed /\ MovesCome /\ NewEmpty /\ Settled /\ TwiceEntered /\ OrigIsPred
  BY <1>1 DEF EarlyInv, Early
<1>3. /\ EntryFirst' /\ BranchesParsed' /\ MovesCome' /\ NewEmpty' /\ TwiceEntered' /\ OrigIsPred'
  <2>1. EntryFirst'
    BY <1>1, <1>2 DEF EntryFirst
  <2>2. BranchesParsed' /\ MovesCome'
    BY <1>1, <1>2 DEF BranchesParsed, MovesCome, Holds
  <2>3. NewEmpty' /\ OrigIsPred'
    BY <1>1, <1>2 DEF NewEmpty, OrigIsPred
  <2>4. TwiceEntered'
    BY <1>1, <1>2 DEF TwiceEntered, TwiceNamed
  <2> QED BY <2>1, <2>2, <2>3, <2>4
<1>4. todo \in Seq(Ids \X Ids) /\ \A x : Holds(todo, x) <=> Holds(todo', x) \/ x = Head(todo)
  BY <1>1, Typed, TailHolds
<1>5. GraphOK(if_bbs, if_edges, to)
  BY DEF CfgInv
<1>6. ASSUME NEW p \in Ids, NEW t \in Ids, Holds(if_bbs, p), Holds(to[p], t), phi[t] # <<>>
      PROVE  Holds(todo', <<p, t>>) \/ OnlyTo(to[p], t)
  <2>1. CASE Holds(todo', <<p, t>>)
    BY <2>1
  <2>2. CASE OnlyTo(to[p], t)
    BY <2>2
  <2>3. CASE ~Holds(todo', <<p, t>>) /\ ~OnlyTo(to[p], t)
    <3>1. Holds(todo, <<p, t>>)
      BY <1>2, <1>6, <2>3 DEF Settled
    <3>2. Head(todo) = <<p, t>>
      BY <1>4, <2>3, <3>1
    <3>3. ~(Cardinality(Out(p)) >= 2)
      BY <1>1, <1>6, <3>2 DEF Critical
    <3>4. \A x : Holds(to[p], x) => Holds(if_edges, <<p, x>>)
      BY <1>5, <1>6 DEF GraphOK
    <3>5. OnlyTo(to[p], t)
      BY <1>6, <3>3, <3>4, OneWayOut DEF OnlyTo
    <3> QED BY <2>3, <3>5
  <2> QED BY <2>1, <2>2, <2>3
<1>7. Settled'
  BY <1>1, <1>6 DEF Settled, OnlyTo, Holds
<1> QED BY <1>3, <1>7 DEF EarlyInv

LEMMA EarlyStartSsa ==
  ASSUME CfgInv, EarlyInv, StartSsa
  PROVE  EarlyInv'
<1>1. /\ phase = "critical" /\ todo = <<>> /\ phase' = "ssa"
      /\ UNCHANGED <<prog, if_bbs, if_num_bbs, to, own, body, phi, if_edges, killed>>
  BY DEF StartSsa, Start
<1>2. /\ EntryFirst /\ BranchesParsed /\ MovesCome /\ NewEmpty /\ Settled /\ TwiceEntered /\ OrigIsPred
  BY <1>1 DEF EarlyInv, Early
<1>3. EntryFirst'
  BY <1>1, <1>2 DEF EntryFirst
<1>4. BranchesParsed' /\ MovesCome'
  BY <1>1, <1>2 DEF BranchesParsed, MovesCome, Holds
<1>5. NewEmpty' /\ OrigIsPred'
  BY <1>1, <1>2 DEF NewEmpty, OrigIsPred
<1>6. TwiceEntered'
  BY <1>1, <1>2 DEF TwiceEntered, TwiceNamed
<1>7. Settled'
  <2>1. \A x : ~Holds(todo, x)
    BY <1>1 DEF Holds
  <2>2. \A p, t \in Ids : Holds(if_bbs, p) /\ Holds(to[p], t) /\ phi[t] # <<>> => OnlyTo(to[p], t)
    BY <1>2, <2>1 DEF Settled
  <2> QED BY <1>1, <2>2 DEF Settled, OnlyTo, Holds
<1> QED BY <1>3, <1>4, <1>5, <1>6, <1>7 DEF EarlyInv

LEMMA EarlyExit ==
  ASSUME CfgInv, EarlyInv, exit_ssa_bb
  PROVE  EarlyInv'
<1> DEFINE b == Head(todo)
<1> DEFINE At(p) == Holds(if_bbs, p) /\ Holds(to[p], b) /\ Names(phi[b], p)
<1>1. /\ phase = "ssa" /\ phase' = "ssa"
      /\ UNCHANGED <<prog, if_bbs, if_num_bbs, to, own, if_edges, killed>>
      /\ b \in Ids /\ phi \in [Ids -> Entries] /\ body \in [Ids -> Seq(Tok)]
      /\ phi' = [phi EXCEPT ![b] = <<>>]
  BY ExitFacts
<1>2. \A p \in Ids :
        \/ At(p) /\ \E i \in 1..Len(phi[b]) : /\ phi[b][i].pred = p
                                              /\ <<phi[b][i].orig, b>> \in Tok
                                              /\ body'[p] = Append(body[p], <<phi[b][i].orig, b>>)
        \/ ~At(p) /\ body'[p] = body[p]
  BY ExitFacts
<1> HIDE DEF b
<1>3. /\ EntryFirst /\ BranchesParsed /\ MovesCome /\ Settled /\ TwiceEntered /\ OrigIsPred
  BY <1>1 DEF EarlyInv, Early
<1>4. phi'[b] = <<>> /\ \A x \in Ids : phi'[x] # <<>> => phi'[x] = phi[x]
  BY <1>1
<1>5. \A p \in Ids : \A m : Holds(body[p], m) => Holds(body'[p], m)
  <2> TAKE p \in Ids
  <2> TAKE m
  <2> HAVE Holds(body[p], m)
  <2>1. CASE At(p)
    <3>1. PICK i \in 1..Len(phi[b]) : /\ <<phi[b][i].orig, b>> \in Tok
                                      /\ body'[p] = Append(body[p], <<phi[b][i].orig, b>>)
      BY <1>2, <2>1
    <3> DEFINE e == <<phi[b][i].orig, b>>
    <3>2. body[p] \in Seq(Tok) /\ e \in Tok /\ body'[p] = Append(body[p], e)
      BY <1>1, <3>1
    <3> HIDE DEF e
    <3>3. /\ Len(body'[p]) = Len(body[p]) + 1 /\ Len(body[p]) \in Nat
          /\ \A k \in 1..Len(body[p]) : body'[p][k] = body[p][k] /\ k \in 1..(Len(body[p]) + 1)
      BY <3>2
    <3> QED BY <3>3 DEF Holds
  <2>2. CASE ~At(p)
    BY <1>2, <2>2
  <2> QED BY <2>1, <2>2
<1>6. EntryFirst'
  BY <1>1, <1>3 DEF EntryFirst
<1>7. BranchesParsed'
  <2>1. \A p \in 1..NumBBs : prog.body[p] # <<>> => Holds(body'[p], <<p, 0>>)
    BY <1>3, <1>5, IdsFacts DEF BranchesParsed
  <2>2. BranchesParsed' <=> \A p \in 1..NumBBs :
                                /\ Len(to'[p]) = Len(prog'.to[p])
                                /\ Len(prog'.to[p]) = 1 => to'[p] = prog'.to[p]
                                /\ prog'.body[p] # <<>> => Holds(body'[p], <<p, 0>>)
    BY DEF BranchesParsed, Holds
  <2>3. prog' = prog /\ to' = to
    BY <1>1
  <2> QED BY <1>3, <2>1, <2>2, <2>3 DEF BranchesParsed
<1>8. MovesCome'
  <2>1. SUFFICES ASSUME NEW p \in 1..NumBBs, Holds(if_bbs, p), NEW x \in prog.phis,
                        prog.to[p] = <<x>>, phi'[x] = <<>>
                 PROVE  Holds(body'[p], <<p, x>>)
    BY <1>1 DEF MovesCome, Holds
  <2>2. p \in Ids /\ x \in Ids
    BY IdsFacts DEF CfgInv, ProgOK
  <2>3. CASE phi[x] = <<>>
    <3>1. Holds(body[p], <<p, x>>)
      BY <1>3, <2>1, <2>3 DEF MovesCome
    <3> QED BY <1>5, <2>2, <3>1
  <2>4. CASE phi[x] # <<>>
    <3>1. x = b
      BY <1>1, <2>1, <2>2, <2>4
    <3>2. to[p] = <<x>>
      <4>1. Len(prog.to[p]) = 1
        BY <2>1
      <4> QED BY <1>3, <2>1, <4>1 DEF BranchesParsed
    <3>3. Holds(to[p], x)
      <4>1. Len(<<x>>) = 1 /\ <<x>>[1] = x /\ 1 \in 1..1
        OBVIOUS
      <4> QED BY <3>2, <4>1 DEF Holds
    <3>4. GraphOK(if_bbs, if_edges, to) /\ PhisOK(if_bbs, if_edges, phi)
      BY DEF CfgInv
    <3>5. Holds(if_bbs, x) /\ Holds(if_edges, <<p, x>>)
      BY <2>1, <3>3, <3>4 DEF GraphOK
    <3>6. Names(phi[x], p)
      BY <2>4, <3>4, <3>5 DEF PhisOK
    <3>7. PICK i \in 1..Len(phi[b]) : /\ phi[b][i].pred = p
                                      /\ <<phi[b][i].orig, b>> \in Tok
                                      /\ body'[p] = Append(body[p], <<phi[b][i].orig, b>>)
      BY <1>2, <2>1, <2>2, <3>1, <3>3, <3>6
    <3>8. phi[b][i].orig = p
      BY <1>1, <1>3, <2>1, <3>7 DEF OrigIsPred
    <3> DEFINE e == <<p, x>>
    <3>9. body[p] \in Seq(Tok) /\ e \in Tok /\ body'[p] = Append(body[p], e)
      BY <1>1, <2>2, <3>1, <3>7, <3>8
    <3> HIDE DEF e
    <3>10. Len(body'[p]) = Len(body[p]) + 1 /\ Len(body[p]) \in Nat /\ body'[p][Len(body[p]) + 1] = e
      BY <3>9
    <3>11. Len(body[p]) + 1 \in 1..Len(body'[p])
      BY <3>10
    <3>12. Holds(body'[p], e)
      BY <3>10, <3>11 DEF Holds
    <3> QED BY <3>12 DEF e
  <2> QED BY <2>3, <2>4
<1>9. NewEmpty'
  BY <1>1 DEF NewEmpty
<1>10. Settled'
  <2>1. \A p, t \in Ids : Holds(if_bbs, p) /\ Holds(to[p], t) /\ phi'[t] # <<>> => OnlyTo(to[p], t)
    BY <1>1, <1>3, <1>4 DEF Settled
  <2> QED BY <1>1, <2>1 DEF Settled, OnlyTo, Holds
<1>11. TwiceEntered'
  <2>1. \A p, t \in Ids : Len(to[p]) >= 2 /\ to[p][1] = t /\ to[p][2] = t /\ phi'[t] # <<>> => TwiceNamed(phi'[t], p)
    BY <1>3, <1>4 DEF TwiceEntered
  <2> QED BY <1>1, <2>1 DEF TwiceEntered, TwiceNamed
<1>12. OrigIsPred'
  <2>1. \A x \in Ids : \A i \in 1..Len(phi'[x]) : phi'[x] # <<>>
    <3>1. Len(<<>>) = 0 /\ 1..0 = {}
      OBVIOUS
    <3> QED BY <3>1
  <2> QED BY <1>3, <1>4, <2>1 DEF OrigIsPred
<1> QED BY <1>6, <1>7, <1>8, <1>9, <1>10, <1>11, <1>12 DEF EarlyInv

-----------------------------------------------------------------------------
(* break_crtitical_edges keeps it as well. *)
LEMMA EarlyBreak ==
  ASSUME CfgInv, EarlyInv, ParsedOK, break_critical_edge
  PROVE  EarlyInv'
<1>1. phase = "critical" /\ phase' = "critical" /\ UNCHANGED <<prog, own, body, killed>>
  BY BreakFacts
<1>2. PICK from, t, nb : /\ BreakSites(from, t, nb) /\ BreakBranches(from, t, nb) /\ BreakPhis(from, t, nb)
                         /\ BreakOrder(t, nb)
                         /\ \A x : Holds(if_bbs', x) <=> Holds(if_bbs, x) \/ x = nb
  BY BreakFacts
<1>3. /\ Head(todo) = <<from, t>> /\ todo # <<>> /\ todo' = Tail(todo)
      /\ from \in 1..NumBBs /\ from \in Ids
      /\ t \in prog.phis /\ t \in 1..NumBBs /\ t \in Ids
      /\ nb \in Ids /\ nb \notin 1..NumBBs /\ from # nb /\ t # nb
      /\ Holds(if_bbs, from) /\ Holds(if_bbs, t) /\ ~Holds(if_bbs, nb)
      /\ \A p : Holds(if_bbs, p) => ~Holds(to[p], nb)
      /\ Len(to[from]) = Len(prog.to[from]) /\ Len(prog.to[from]) # 1
  <2>1. \A n : n > 1 => n # 1
    <3>1. ~(1 > 1)
      OBVIOUS
    <3> QED BY <3>1, Zenon
  <2>2. Len(prog.to[from]) > 1
    BY <1>2 DEF BreakSites
  <2>3. Len(prog.to[from]) # 1
    BY <2>1, <2>2, Zenon
  <2> QED BY <1>2, <2>3 DEF BreakSites
<1>4. /\ to'[nb] = <<t>> /\ to'[from] = Replaced(to[from], t, nb)
      /\ \A x \in Ids : x # nb /\ x # from => to'[x] = to[x]
  BY <1>2 DEF BreakBranches
<1>5. /\ phi[t] # <<>> /\ phi[nb] = <<>> /\ ~Names(phi[t], nb)
      /\ \A x \in Ids : x # t => phi'[x] = phi[x]
      /\ Renamed(phi'[t], phi[t], from, nb)
  BY <1>2, Zenon DEF BreakPhis
<1>6. PICK pos \in 1..Len(if_bbs) : if_bbs[pos] = t /\ IsInsertion(if_bbs', if_bbs, pos, nb)
  BY <1>2 DEF BreakOrder
<1>7. \A x : Holds(if_bbs', x) <=> Holds(if_bbs, x) \/ x = nb
  BY <1>2
<1> HIDE <1>2
<1>8. /\ EntryFirst /\ BranchesParsed /\ MovesCome /\ NewEmpty /\ Settled /\ TwiceEntered /\ OrigIsPred
  BY <1>1 DEF EarlyInv, Early
<1>9. /\ if_bbs \in Seq(Ids) /\ to \in [Ids -> Seq(Ids)] /\ phi \in [Ids -> Entries]
      /\ todo \in Seq(Ids \X Ids) /\ \A b \in 1..NumBBs : b \in Ids
  BY <1>1, Typed, IdsFacts DEF Entries
<1>10. /\ to[from] \in Seq(Ids) /\ Len(to'[from]) = Len(to[from])
       /\ \A i \in 1..Len(to[from]) : to'[from][i] = IF to[from][i] = t THEN nb ELSE to[from][i]
       /\ \A x : Holds(to'[from], x) <=> (Holds(to[from], x) /\ x # t) \/ (x = nb /\ Holds(to[from], t))
  <2>1. to[from] \in Seq(Ids)
    BY <1>3, <1>9
  <2> QED BY <1>3, <1>4, <2>1, ReplacedHolds
<1>11. phi'[t] # <<>> /\ \A x \in Ids : phi'[x] = <<>> <=> phi[x] = <<>>
  <2>1. Len(phi'[t]) = Len(phi[t]) /\ phi[t] \in Entries
    BY <1>3, <1>5, <1>9 DEF Renamed
  <2>2. Len(phi[t]) # 0 /\ Len(<<>>) = 0
    <3>1. \A s \in Entries : Len(s) = 0 => s = <<>>
      BY DEF Entries
    <3> QED BY <1>5, <2>1, <3>1
  <2>3. phi'[t] # <<>>
    BY <2>1, <2>2
  <2> QED BY <1>5, <2>3
<1>12. EntryFirst'
  <2>1. /\ Len(if_bbs') = Len(if_bbs) + 1 /\ Len(if_bbs) \in Nat /\ pos \in 1..Len(if_bbs)
        /\ \A j \in 1..(pos-1) : if_bbs'[j] = if_bbs[j]
        /\ if_bbs'[pos] = nb
        /\ \A j \in (pos+1)..(Len(if_bbs)+1) : if_bbs'[j] = if_bbs[j-1]
    BY <1>6, <1>9 DEF IsInsertion
  <2>2. t # 1 /\ nb # 1
    BY <1>3, IdsFacts DEF ParsedOK
  <2>3. if_bbs[1] = 1 /\ \A i \in 1..Len(if_bbs) : if_bbs[i] = 1 => i = 1
    BY <1>8 DEF EntryFirst
  <2>4. pos # 1 /\ 1 \in 1..(pos - 1)
    BY <1>6, <2>1, <2>2, <2>3
  <2>5. if_bbs'[1] = 1 /\ Len(if_bbs') # 0
    BY <2>1, <2>3, <2>4
  <2>6. if_bbs' # <<>>
    <3>1. Len(<<>>) = 0
      OBVIOUS
    <3> QED BY <2>5, <3>1
  <2>7. ASSUME NEW i \in 1..Len(if_bbs'), if_bbs'[i] = 1 PROVE i = 1
    <3>1. CASE i \in 1..(pos - 1)
      <4>1. i \in 1..Len(if_bbs) /\ if_bbs[i] = 1
        BY <2>1, <2>7, <3>1
      <4> QED BY <2>3, <4>1
    <3>2. CASE i = pos
      BY <2>1, <2>2, <2>7, <3>2
    <3>3. CASE i \in (pos + 1)..(Len(if_bbs) + 1)
      <4>1. i - 1 \in 1..Len(if_bbs) /\ if_bbs[i - 1] = 1 /\ i - 1 # 1
        BY <2>1, <2>4, <2>7, <3>3
      <4> QED BY <2>3, <4>1
    <3> QED BY <2>1, <3>1, <3>2, <3>3
  <2> QED BY <2>5, <2>6, <2>7 DEF EntryFirst
<1>13. BranchesParsed'
  <2>1. ASSUME NEW b \in 1..NumBBs
        PROVE  Len(to'[b]) = Len(prog.to[b]) /\ (Len(prog.to[b]) = 1 => to'[b] = prog.to[b])
    <3>1. b # nb /\ b \in Ids /\ Len(to[b]) = Len(prog.to[b]) /\ (Len(prog.to[b]) = 1 => to[b] = prog.to[b])
      BY <1>3, <1>8, <1>9 DEF BranchesParsed
    <3>2. CASE b = from
      BY <1>3, <1>10, <3>2
    <3>3. CASE b # from
      BY <1>4, <3>1, <3>3
    <3> QED BY <3>2, <3>3
  <2> QED BY <1>1, <1>8, <2>1 DEF BranchesParsed, Holds
<1>14. MovesCome'
  <2>1. \A b \in 1..NumBBs : Holds(if_bbs', b) => Holds(if_bbs, b)
    BY <1>3, <1>7
  <2>2. \A x \in prog.phis : x \in Ids
    BY IdsFacts DEF CfgInv, ProgOK
  <2>3. SUFFICES ASSUME NEW b \in 1..NumBBs, Holds(if_bbs', b), NEW x \in prog.phis, prog.to[b] = <<x>>, phi'[x] = <<>>
                 PROVE  Holds(body[b], <<b, x>>)
    BY <1>1 DEF MovesCome, Holds
  <2> QED BY <1>8, <1>11, <2>1, <2>2, <2>3 DEF MovesCome
<1>15. NewEmpty'
  BY <1>1, <1>8 DEF NewEmpty
<1>16. Settled'
  <2>1. SUFFICES ASSUME NEW p \in Ids, NEW x \in Ids, Holds(if_bbs', p), Holds(to'[p], x), phi'[x] # <<>>
                 PROVE  Holds(todo', <<p, x>>) \/ OnlyTo(to'[p], x)
    BY <1>1 DEF Settled, OnlyTo, Holds
  <2>2. \A e : Holds(todo, e) <=> Holds(todo', e) \/ e = <<from, t>>
    BY <1>3, <1>9, TailHolds
  <2>3. phi[x] # <<>>
    BY <1>11, <2>1
  <2>4. CASE p = nb
    <3>1. \A s, y : s = <<t>> => (Holds(s, y) <=> y = t)
      <4>1. Len(<<t>>) = 1 /\ <<t>>[1] = t /\ 1..1 = {1}
        OBVIOUS
      <4> QED BY <4>1 DEF Holds
    <3>2. \A y : Holds(to'[p], y) <=> y = t
      BY <1>4, <2>4, <3>1, Zenon
    <3> QED BY <2>1, <3>2, Zenon DEF OnlyTo
  <2>5. CASE p = from
    <3>1. x # nb /\ x # t /\ Holds(to[from], x)
      BY <1>5, <1>10, <2>1, <2>3, <2>5
    <3>2. Holds(to[from], t)
      <4>1. Holds(todo, <<from, t>>) /\ EdgesListed /\ GraphOK(if_bbs, if_edges, to)
        BY <1>1, <2>2 DEF CfgInv
      <4>2. Holds(if_edges, <<from, t>>)
        BY <4>1, Zenon DEF EdgesListed
      <4> QED BY <4>1, <4>2, Zenon DEF GraphOK
    <3>3. ~OnlyTo(to[from], x)
      BY <3>1, <3>2 DEF OnlyTo
    <3>4. Holds(todo, <<from, x>>)
      BY <1>3, <1>8, <2>3, <3>1, <3>3 DEF Settled
    <3>5. <<from, x>> # <<from, t>>
      BY <3>1
    <3> QED BY <2>2, <2>5, <3>4, <3>5
  <2>6. CASE p # nb /\ p # from
    <3>1. Holds(if_bbs, p) /\ to'[p] = to[p]
      BY <1>4, <1>7, <2>1, <2>6
    <3>2. Holds(todo, <<p, x>>) \/ OnlyTo(to[p], x)
      BY <1>8, <2>1, <2>3, <3>1 DEF Settled
    <3>3. <<p, x>> # <<from, t>>
      BY <2>6
    <3> QED BY <2>2, <3>1, <3>2, <3>3
  <2> QED BY <2>4, <2>5, <2>6
<1>17. TwiceEntered'
  <2>1. SUFFICES ASSUME NEW p \in Ids, NEW x \in Ids, Len(to'[p]) >= 2, to'[p][1] = x, to'[p][2] = x, phi'[x] # <<>>
                 PROVE  TwiceNamed(phi'[x], p)
    BY DEF TwiceEntered, TwiceNamed
  <2>2. phi[x] # <<>> /\ x # nb
    BY <1>5, <1>11, <2>1
  <2>3. p # nb
    <3>1. Len(<<t>>) = 1 /\ ~(1 >= 2)
      OBVIOUS
    <3> QED BY <1>4, <2>1, <3>1
  <2>4. CASE p = from
    <3>1. Len(to[from]) >= 2 /\ 1 \in 1..Len(to[from]) /\ 2 \in 1..Len(to[from])
      <4>1. Len(to[from]) \in Nat /\ Len(to[from]) >= 2
        BY <1>10, <2>1, <2>4
      <4> QED BY <4>1
    <3>2. to[from][1] = x /\ to[from][2] = x /\ x # t
      BY <1>10, <2>1, <2>2, <2>4, <3>1
    <3>3. TwiceNamed(phi[x], from)
      BY <1>3, <1>8, <2>2, <3>1, <3>2 DEF TwiceEntered
    <3> QED BY <1>5, <2>4, <3>2, <3>3
  <2>5. CASE p # from
    <3>1. to'[p] = to[p]
      BY <1>4, <2>3, <2>5
    <3>2. TwiceNamed(phi[x], p)
      BY <1>8, <2>1, <2>2, <3>1 DEF TwiceEntered
    <3>3. CASE x # t
      BY <1>5, <3>2, <3>3
    <3>4. CASE x = t
      BY <1>5, <2>5, <3>2, <3>4 DEF TwiceNamed, Renamed
    <3> QED BY <3>3, <3>4
  <2> QED BY <2>4, <2>5
<1>18. OrigIsPred'
  <2>1. SUFFICES ASSUME NEW x \in Ids, NEW i \in 1..Len(phi'[x]), phi'[x][i].pred \in 1..NumBBs
                 PROVE  phi'[x][i].orig = phi'[x][i].pred
    BY DEF OrigIsPred
  <2>2. CASE x # t
    BY <1>5, <1>8, <2>1, <2>2 DEF OrigIsPred
  <2>3. CASE x = t
    <3>1. /\ i \in 1..Len(phi[t])
          /\ phi'[t][i].pred = IF phi[t][i].pred = from THEN nb ELSE phi[t][i].pred
          /\ phi'[t][i].orig = phi[t][i].orig
      BY <1>5, <2>1, <2>3 DEF Renamed
    <3>2. phi'[t][i].pred = phi[t][i].pred
      BY <1>3, <2>1, <2>3, <3>1
    <3> QED BY <1>3, <1>8, <2>1, <2>3, <3>1, <3>2 DEF OrigIsPred
  <2> QED BY <2>2, <2>3
<1> QED BY <1>12, <1>13, <1>14, <1>15, <1>16, <1>17, <1>18 DEF EarlyInv

-----------------------------------------------------------------------------
(* No pass writes to the function as parsed. *)
LEMMA ProgStays ==
  ASSUME [Next]_vars
  PROVE  prog' = prog
<1>1. CASE break_critical_edge
  BY <1>1 DEF break_critical_edge
<1>2. CASE KeepEdge \/ KeepBlock \/ KeepNonEmpty
  BY <1>2 DEF KeepEdge, KeepBlock, KeepNonEmpty, Skip
<1>3. CASE StartSsa \/ StartDead \/ StartCoalesce \/ Finish
  BY <1>3 DEF StartSsa, StartDead, StartCoalesce, Finish, Start
<1>4. CASE exit_ssa_bb
  BY <1>4 DEF exit_ssa_bb
<1>5. CASE MultiplePhiEntries \/ UnableToTransform
  BY <1>5 DEF MultiplePhiEntries, UnableToTransform, Fail
<1>6. CASE DestroyUnreachable \/ Merge \/ RemoveEmpty
  BY <1>6 DEF DestroyUnreachable, Merge, RemoveEmpty
<1>7. CASE MergeWithItself
  BY <1>7 DEF MergeWithItself, Fail
<1>8. CASE \E ms \in SUBSET Moves : coalesce(ms)
  BY <1>8, Zenon DEF coalesce
<1>9. CASE UNCHANGED vars
  BY <1>9 DEF vars
<1> QED BY <1>1, <1>2, <1>3, <1>4, <1>5, <1>6, <1>7, <1>8, <1>9, Zenon DEF Next

LEMMA ParsedStays ==
  ASSUME ParsedOK, [Next]_vars
  PROVE  ParsedOK' /\ \A b : Leads(b)' <=> Leads(b)
<1>1. prog' = prog
  BY ProgStays
<1>2. \A b : Leads(b)' <=> Leads(b)
  BY <1>1 DEF Leads
<1> QED BY <1>1, <1>2 DEF ParsedOK

LEMMA EarlyStep ==
  ASSUME CfgInv, EarlyInv, ParsedOK, [Next]_vars
  PROVE  EarlyInv'
<1>1. CASE break_critical_edge
  BY <1>1, EarlyBreak
<1>2. CASE KeepEdge
  BY <1>2, EarlyKeepEdge
<1>3. CASE StartSsa
  BY <1>3, EarlyStartSsa
<1>4. CASE exit_ssa_bb
  BY <1>4, EarlyExit
<1>5. CASE phase' \notin Early
  BY <1>5 DEF EarlyInv, Early
<1>6. CASE MultiplePhiEntries \/ UnableToTransform
  BY <1>5, <1>6 DEF MultiplePhiEntries, UnableToTransform, Fail, Early
<1>7. CASE StartDead \/ StartCoalesce \/ Finish
  BY <1>5, <1>7 DEF StartDead, StartCoalesce, Finish, Start, Early
<1>8. CASE DestroyUnreachable \/ Merge \/ KeepBlock \/ RemoveEmpty \/ KeepNonEmpty
  BY <1>5, <1>8 DEF DestroyUnreachable, Merge, KeepBlock, RemoveEmpty, KeepNonEmpty, Visit, Skip, Early
<1>9. CASE MergeWithItself
  BY <1>5, <1>9 DEF MergeWithItself, Visit, Fail, Early
<1>10. CASE \E ms \in SUBSET Moves : coalesce(ms)
  <2>1. phase' = "empty"
    BY <1>10, Zenon DEF coalesce
  <2> QED BY <1>5, <2>1 DEF Early
<1>11. CASE UNCHANGED vars
  <2>1. /\ UNCHANGED <<prog, if_bbs, if_num_bbs, to, own, body, phi, if_edges, killed, phase, todo>>
    BY <1>11 DEF vars
  <2>2. EntryFirst' <=> EntryFirst
    BY <2>1 DEF EntryFirst
  <2>3. (BranchesParsed' <=> BranchesParsed) /\ (MovesCome' <=> MovesCome)
    BY <2>1 DEF BranchesParsed, MovesCome, Holds
  <2>4. (NewEmpty' <=> NewEmpty) /\ (OrigIsPred' <=> OrigIsPred)
    BY <2>1 DEF NewEmpty, OrigIsPred
  <2>5. Settled' <=> Settled
    BY <2>1 DEF Settled, OnlyTo, Holds
  <2>6. TwiceEntered' <=> TwiceEntered
    BY <2>1 DEF TwiceEntered, TwiceNamed
  <2> QED BY <2>1, <2>2, <2>3, <2>4, <2>5, <2>6 DEF EarlyInv
<1> QED BY <1>1, <1>2, <1>3, <1>4, <1>6, <1>7, <1>8, <1>9, <1>10, <1>11, Zenon DEF Next

-----------------------------------------------------------------------------
(* Blocks that nothing is executed before stay at the front of the list.    *)
LEMMA LeadingAppend ==
  ASSUME NEW S, NEW w \in Seq(S), NEW x \in S, Leading(w),
         Leads(x) => \A y : Holds(w, y) => Leads(y)
  PROVE  Leading(w \o <<x>>)
<1> DEFINE u == w \o <<x>>
           n == Len(w)
<1>1. /\ n \in Nat /\ Len(u) = n + 1 /\ u[n + 1] = x
      /\ \A i \in 1..n : u[i] = w[i]
  OBVIOUS
<1>2. \A i, j \in 1..n : i < j /\ Leads(w[j]) => Leads(w[i])
  BY DEF Leading
<1>3. \A i \in 1..n : Leads(x) => Leads(w[i])
  BY DEF Holds
<1> HIDE DEF n, u
<1>4. ASSUME NEW i \in 1..(n + 1), NEW j \in 1..(n + 1), i < j, Leads(u[j])
      PROVE  Leads(u[i])
  <2>1. i \in 1..n
    BY <1>1, <1>4
  <2>2. CASE j = n + 1
    BY <1>1, <1>3, <1>4, <2>1, <2>2
  <2>3. CASE j # n + 1
    <3>1. j \in 1..n
      BY <1>1, <1>4, <2>3
    <3> QED BY <1>1, <1>2, <1>4, <2>1, <3>1
  <2> QED BY <2>2, <2>3
<1>5. Leading(u)
  BY <1>1, <1>4 DEF Leading
<1> QED BY <1>5 DEF u

LEMMA LeadingDropping ==
  ASSUME NEW S, NEW s \in Seq(S), NEW gone, Leading(s)
  PROVE  Leading(Dropping(s, gone))
<1> DEFINE D(w) == Dropping(w, gone)
           pre(n) == SubSeq(s, 1, n)
           K == {n \in Nat : n \in 0..Len(s) => Leading(D(pre(n)))}
<1>1. Len(s) \in Nat
  OBVIOUS
<1>2. 0 \in K
  <2>1. pre(0) = <<>> /\ <<>> \in Seq(S)
    OBVIOUS
  <2>2. \A x : ~Holds(D(<<>>), x)
    <3>1. \A x : ~Holds(<<>>, x)
      <4>1. Len(<<>>) = 0 /\ 1..0 = {}
        OBVIOUS
      <4> QED BY <4>1 DEF Holds
    <3> QED BY <2>1, <3>1, DroppingHolds
  <2>3. \A i \in 1..Len(D(<<>>)) : FALSE
    BY <2>2 DEF Holds
  <2>4. Leading(D(<<>>))
    BY <2>3 DEF Leading
  <2> QED BY <2>1, <2>4
<1>3. ASSUME NEW n \in Nat, n \in K PROVE n + 1 \in K
  <2>1. SUFFICES ASSUME n + 1 \in 0..Len(s) PROVE Leading(D(pre(n + 1)))
    OBVIOUS
  <2>2. n \in 0..Len(s) /\ n + 1 \in 1..Len(s)
    BY <1>1, <2>1
  <2>3. /\ pre(n) \in Seq(S) /\ s[n + 1] \in S /\ pre(n + 1) = Append(pre(n), s[n + 1])
        /\ Len(pre(n)) = n /\ \A i \in 1..n : pre(n)[i] = s[i] /\ i \in 1..Len(s) /\ i < n + 1
    BY <1>1, <2>2
  <2>4. Leading(D(pre(n)))
    BY <1>3, <2>2
  <2> DEFINE x == s[n + 1]
             p == pre(n)
  <2>5. \A y : Holds(p, y) /\ Leads(x) => Leads(y)
    <3>1. \A i \in 1..n : Leads(x) => Leads(s[i])
      BY <2>2, <2>3 DEF Leading
    <3> QED BY <2>3, <3>1 DEF Holds
  <2>6. p \in Seq(S) /\ x \in S /\ Leading(D(p)) /\ D(pre(n + 1)) = D(Append(p, x))
    BY <2>3, <2>4
  <2> HIDE DEF x, p, pre
  <2>7. D(Append(p, x)) = D(p) \o Kept(gone, x)
    BY <2>6, DroppingAppend
  <2>8. D(p) \in Seq(S) /\ \A y : Holds(D(p), y) => Holds(p, y)
    BY <2>6, DroppingHolds
  <2> HIDE DEF D
  <2>9. CASE x \in gone
    <3>1. D(p) \o <<>> = D(p)
      BY <2>8
    <3> QED BY <2>6, <2>7, <2>9, <3>1 DEF Kept
  <2>10. CASE x \notin gone
    <3>1. Leading(D(p) \o <<x>>)
      BY <2>5, <2>6, <2>8, LeadingAppend
    <3> QED BY <2>6, <2>7, <2>10, <3>1 DEF Kept
  <2> QED BY <2>9, <2>10
<1>4. Len(s) \in K
  <2> HIDE DEF K
  <2> QED BY <1>1, <1>2, <1>3, NatSetInduction
<1>5. pre(Len(s)) = s
  OBVIOUS
<1>6. Len(s) \in 0..Len(s)
  BY <1>1
<1>7. Leading(D(pre(Len(s))))
  BY <1>4, <1>6
<1> QED BY <1>5, <1>7

LEMMA LeadingStep ==
  ASSUME CfgInv, ParsedOK, Leading(if_bbs), [Next]_vars
  PROVE  Leading(if_bbs)'
<1>1. \A b : Leads(b)' <=> Leads(b)
  BY ParsedStays
<1>2. SUFFICES Leading(if_bbs')
  BY <1>1 DEF Leading
<1>3. if_bbs \in Seq(Ids)
  BY Typed
<1>4. CASE if_bbs' = if_bbs
  BY <1>4
<1>5. CASE \E b : if_bbs' = Without(if_bbs, b)
  BY <1>3, <1>5, LeadingDropping DEF Without
<1>6. CASE break_critical_edge
  <2>1. PICK from, t, nb : BreakSites(from, t, nb) /\ BreakOrder(t, nb)
    BY <1>6, BreakFacts
  <2>2. PICK pos \in 1..Len(if_bbs) : if_bbs[pos] = t /\ IsInsertion(if_bbs', if_bbs, pos, nb)
    BY <2>1 DEF BreakOrder
  <2>3. ~Leads(nb)
    BY <2>1 DEF BreakSites, Leads
  <2>4. ~Leads(t)
    <3>1. SUFFICES ASSUME Leads(t) PROVE FALSE
      OBVIOUS
    <3>2. t \in 1..NumBBs /\ t \in prog.phis /\ t # 1
      BY <2>1 DEF BreakSites, ParsedOK
    <3>3. t - 1 \in 1..NumBBs /\ t - 1 < t /\ (t - 1) + 1 = t
      BY <3>2, IdsFacts
    <3> QED BY <3>1, <3>2, <3>3 DEF Leads
  <2> DEFINE n == Len(if_bbs)
             r == if_bbs'
  <2>5. /\ n \in Nat /\ Len(r) = n + 1 /\ pos \in 1..n
        /\ \A j \in 1..(pos - 1) : r[j] = if_bbs[j]
        /\ r[pos] = nb
        /\ \A j \in (pos + 1)..(n + 1) : r[j] = if_bbs[j - 1]
    BY <1>3, <2>2 DEF IsInsertion
  <2>6. \A i, j \in 1..n : i < j /\ Leads(if_bbs[j]) => Leads(if_bbs[i])
    BY DEF Leading
  <2>7. if_bbs[pos] = t
    BY <2>2
  <2> HIDE DEF n, r
  <2>8. ASSUME NEW i \in 1..(n + 1), NEW j \in 1..(n + 1), i < j, Leads(r[j])
        PROVE  Leads(r[i])
    <3>1. j # pos
      BY <2>3, <2>5, <2>8
    <3>2. CASE j < pos
      <4>1. j \in 1..(pos - 1) /\ i \in 1..(pos - 1) /\ i \in 1..n /\ j \in 1..n
        BY <2>5, <2>8, <3>2
      <4> QED BY <2>5, <2>6, <2>8, <4>1
    <3>3. CASE j > pos
      <4>1. j \in (pos + 1)..(n + 1) /\ j - 1 \in 1..n /\ (j - 1 = pos \/ pos < j - 1)
        BY <2>5, <2>8, <3>3
      <4>2. Leads(if_bbs[j - 1])
        BY <2>5, <2>8, <4>1
      <4>3. Leads(if_bbs[pos])
        BY <2>5, <2>6, <4>1, <4>2
      <4> QED BY <2>4, <2>7, <4>3
    <3>4. j < pos \/ j > pos
      BY <2>5, <3>1
    <3> QED BY <3>2, <3>3, <3>4
  <2>9. Leading(r)
    BY <2>5, <2>8 DEF Leading
  <2> QED BY <2>9 DEF r
<1>7. CASE KeepEdge \/ KeepBlock \/ KeepNonEmpty
  BY <1>4, <1>7 DEF KeepEdge, KeepBlock, KeepNonEmpty, Skip
<1>8. CASE StartSsa \/ StartDead \/ StartCoalesce \/ Finish
  BY <1>4, <1>8 DEF StartSsa, StartDead, StartCoalesce, Finish, Start
<1>9. CASE exit_ssa_bb
  BY <1>4, <1>9 DEF exit_ssa_bb
<1>10. CASE MultiplePhiEntries \/ UnableToTransform
  BY <1>4, <1>10 DEF MultiplePhiEntries, UnableToTransform, Fail
<1>11. CASE DestroyUnreachable \/ Merge \/ RemoveEmpty
  BY <1>5, <1>11 DEF DestroyUnreachable, Merge, RemoveEmpty
<1>12. CASE MergeWithItself
  BY <1>4, <1>5, <1>12 DEF MergeWithItself, Fail
<1>13. CASE \E ms \in SUBSET Moves : coalesce(ms)
  <2>1. if_bbs' = if_bbs
    BY <1>13, Zenon DEF coalesce
  <2> QED BY <1>4, <2>1
<1>14. CASE UNCHANGED vars
  BY <1>4, <1>14 DEF vars
<1> QED BY <1>6, <1>7, <1>8, <1>9, <1>10, <1>11, <1>12, <1>13, <1>14, Zenon DEF Next

-----------------------------------------------------------------------------
(* The entry block is never taken away before remove_empty_bb.              *)
EntryLeft ==
  /\ phase \in {"dead", "coalesce"} => Holds(if_bbs, 1)
  /\ phase = "dead" => ~Holds(todo, 1)

Onwards(b) == \E x \in 1..NumBBs : to[b] = <<x>> /\ Leads(x)

(* The moves that do not keep one of the empty blocks at the start from     *)
(* being empty.                                                             *)
GoneMoves == {m \in Moves : ~(Leads(m[1]) /\ prog.body[m[1]] = <<>> /\ Len(prog.to[m[1]]) = 1)}

(* A block that remove_empty_bb keeps, or takes away for the next that      *)
(* leads.                                                                   *)
Anchored(b) == Len(to[b]) # 1 \/ (\E m : Holds(body[b], m) /\ m \notin GoneMoves) \/ Onwards(b)
Lasting(b)  == Len(to[b]) # 1 \/ body[b] # <<>> \/ Onwards(b)

EntryHeld ==
  ~HasEntryFar =>
    /\ phase \in {"dead", "coalesce"} => \A b \in Ids : Holds(if_bbs, b) /\ Leads(b) => Anchored(b)
    /\ phase \in {"empty", "done"} /\ ~EntryBared =>
         /\ \E b \in Ids : Holds(if_bbs, b) /\ Leads(b)
         /\ \A b \in Ids : Holds(if_bbs, b) /\ Leads(b) => Lasting(b)

(* The blocks before one that leads, and it, are an empty start. *)
LEMMA LeadsEmpty ==
  ASSUME ParsedOK, NEW b, Leads(b), prog.body[b] = <<>>, Len(prog.to[b]) = 1
  PROVE  b \in 1..NumBBs /\ EmptyStart(prog.to, Busy, prog.phis, b)
<1>1. NumBBs \in Nat /\ b \in 1..NumBBs
  BY IdsFacts DEF Leads
<1>2. ASSUME NEW k \in 1..b PROVE k \notin Busy /\ k \notin prog.phis
  <2>1. k \in 1..NumBBs /\ (k = b \/ k < b)
    BY <1>1
  <2>2. prog.body[k] = <<>>
    BY <2>1 DEF Leads
  <2>3. k \notin prog.phis
    <3>1. CASE k = 1
      BY <3>1 DEF ParsedOK
    <3>2. CASE k # 1
      <4>1. k - 1 \in 1..NumBBs /\ k - 1 < b /\ (k - 1) + 1 = k
        BY <1>1, <2>1, <3>2
      <4> QED BY <4>1 DEF Leads
    <3> QED BY <3>1, <3>2
  <2> QED BY <2>2, <2>3 DEF Busy
<1>3. \A j \in 1..(b-1) : prog.to[j] = <<j + 1>>
  <2>1. \A j \in 1..(b-1) : j \in 1..NumBBs /\ j < b
    BY <1>1
  <2> QED BY <2>1 DEF Leads
<1>4. (1..b) \cap (Busy \cup prog.phis) = {}
  BY <1>2
<1> QED BY <1>1, <1>3, <1>4 DEF EmptyStart

LEMMA LeadsOne == Leads(1)
<1>1. 1 \in 1..NumBBs /\ \A i \in 1..NumBBs : ~(i < 1)
  BY IdsFacts
<1> QED BY <1>1 DEF Leads

LEMMA EntryLeftStep ==
  ASSUME CfgInv, EarlyInv, EntryLeft, [Next]_vars
  PROVE  EntryLeft'
<1>1. CASE phase' \notin {"dead", "coalesce"}
  BY <1>1 DEF EntryLeft
<1>2. CASE \/ break_critical_edge \/ KeepEdge \/ StartSsa \/ exit_ssa_bb \/ MultiplePhiEntries
           \/ RemoveEmpty \/ UnableToTransform \/ KeepNonEmpty \/ Finish
  <2>1. phase' \notin {"dead", "coalesce"}
    BY <1>2 DEF break_critical_edge, KeepEdge, StartSsa, exit_ssa_bb, MultiplePhiEntries, RemoveEmpty,
         UnableToTransform, KeepNonEmpty, Finish, Visit, Skip, Start, Fail
  <2> QED BY <1>1, <2>1
<1>3. CASE StartDead
  <2>1. /\ phase = "ssa" /\ phase' = "dead" /\ todo' = Tail(if_bbs) /\ if_bbs' = if_bbs
    BY <1>3 DEF StartDead, Start
  <2>2. if_bbs # <<>> /\ if_bbs[1] = 1 /\ \A i \in 1..Len(if_bbs) : if_bbs[i] = 1 => i = 1
    BY <2>1 DEF EarlyInv, Early, EntryFirst
  <2>3. if_bbs \in Seq(Ids)
    BY Typed
  <2>4. 1 \in 1..Len(if_bbs)
    BY <2>2, <2>3
  <2>5. \A i \in 1..Len(Tail(if_bbs)) : Tail(if_bbs)[i] = if_bbs[i + 1] /\ i + 1 \in 1..Len(if_bbs) /\ i + 1 # 1
    BY <2>2, <2>3
  <2>6. \A i \in 1..Len(Tail(if_bbs)) : Tail(if_bbs)[i] # 1
    BY <2>2, <2>5
  <2>7. Holds(if_bbs, 1) /\ ~Holds(Tail(if_bbs), 1)
    BY <2>2, <2>4, <2>6 DEF Holds
  <2> QED BY <2>1, <2>7 DEF EntryLeft, Holds
<1>4. ASSUME Visit("dead"), todo' = Tail(todo), phase' = "dead",
             if_bbs' = if_bbs \/ if_bbs' = Without(if_bbs, Head(todo))
      PROVE  EntryLeft'
  <2>1. phase = "dead" /\ todo # <<>> /\ Holds(if_bbs, 1) /\ ~Holds(todo, 1)
    BY <1>4 DEF Visit, EntryLeft
  <2>2. \A x : Holds(todo, x) <=> Holds(todo', x) \/ x = Head(todo)
    BY <1>4, <2>1, VisitTail
  <2>3. Head(todo) # 1 /\ ~Holds(todo', 1)
    BY <2>1, <2>2
  <2>4. Holds(if_bbs', 1)
    <3>1. if_bbs \in Seq(Ids)
      BY Typed
    <3>2. \A x : Holds(Without(if_bbs, Head(todo)), x) <=> Holds(if_bbs, x) /\ x # Head(todo)
      BY <3>1, WithoutHolds
    <3> QED BY <1>4, <2>1, <2>3, <3>2
  <2> QED BY <1>4, <2>3, <2>4 DEF EntryLeft, Holds
<1>5. CASE DestroyUnreachable \/ Merge \/ KeepBlock
  BY <1>4, <1>5 DEF DestroyUnreachable, Merge, KeepBlock, Visit, Skip
<1>6. CASE MergeWithItself
  BY <1>1, <1>4, <1>6 DEF MergeWithItself, Visit, Fail
<1>7. CASE StartCoalesce
  BY <1>7 DEF StartCoalesce, Start, EntryLeft, Holds
<1>8. CASE \E ms \in SUBSET Moves : coalesce(ms)
  <2>1. phase' = "empty"
    BY <1>8, Zenon DEF coalesce
  <2> QED BY <1>1, <2>1
<1>9. CASE UNCHANGED vars
  BY <1>9 DEF vars, EntryLeft, Holds
<1> QED BY <1>2, <1>3, <1>5, <1>6, <1>7, <1>8, <1>9, Zenon DEF Next

(* The first pass after the PHIs are gone finds it so. *)
LEMMA HeldStartDead ==
  ASSUME CfgInv, ParsedOK, EarlyInv, StartDead
  PROVE  EntryHeld'
<1>1. /\ phase = "ssa" /\ todo = <<>> /\ phase' = "dead"
      /\ UNCHANGED <<prog, if_bbs, to, body, phi>>
  BY DEF StartDead, Start
<1>2. BranchesParsed /\ MovesCome
  BY <1>1 DEF EarlyInv, Early
<1>3. ProgOK /\ GraphOK(if_bbs, if_edges, to) /\ PhisLeft
  BY DEF CfgInv
<1>4. ASSUME ~HasEntryFar, NEW b \in Ids, Holds(if_bbs, b), Leads(b)
      PROVE  Anchored(b)
  <2>1. b \in 1..NumBBs
    BY <1>4 DEF Leads
  <2>2. CASE prog.body[b] # <<>>
    <3>1. Holds(body[b], <<b, 0>>)
      BY <1>2, <2>1, <2>2 DEF BranchesParsed
    <3>2. <<b, 0>> \notin GoneMoves
      <4>1. GoneMoves \in SUBSET Moves
        BY DEF GoneMoves
      <4> QED BY <1>3, <4>1, GoneFacts
    <3> QED BY <3>1, <3>2 DEF Anchored
  <2>3. CASE Len(prog.to[b]) # 1
    BY <1>2, <2>1, <2>3 DEF BranchesParsed, Anchored
  <2>4. CASE prog.body[b] = <<>> /\ Len(prog.to[b]) = 1
    <3>1. PICK x : x \in 1..NumBBs /\ prog.to[b] = <<x>>
      BY <1>3, <2>1, <2>4, ParsedTarget
    <3>2. to[b] = <<x>>
      BY <1>2, <2>1, <2>4, <3>1 DEF BranchesParsed
    <3>3. CASE x \in prog.phis
      <4>1. Holds(if_bbs, x)
        <5>1. Holds(<<x>>, x)
          <6>1. Len(<<x>>) = 1 /\ <<x>>[1] = x /\ 1 \in 1..1
            OBVIOUS
          <6> QED BY <6>1 DEF Holds
        <5> QED BY <1>3, <1>4, <3>2, <5>1 DEF GraphOK
      <4>2. phi[x] = <<>>
        <5>1. ~Holds(todo, x)
          BY <1>1 DEF Holds
        <5> QED BY <1>1, <1>3, <4>1, <5>1 DEF PhisLeft
      <4>3. Holds(body[b], <<b, x>>)
        BY <1>2, <1>4, <2>1, <3>1, <3>3, <4>2 DEF MovesCome
      <4>4. <<b, x>> \notin GoneMoves
        BY <1>4, <2>4 DEF GoneMoves
      <4> QED BY <4>3, <4>4 DEF Anchored
    <3>4. CASE x \notin prog.phis
      <4>1. EmptyStart(prog.to, Busy, prog.phis, b)
        BY <1>3, <1>4, <2>4, LeadsEmpty
      <4>3. Len(prog.to[b]) = 1 /\ prog.to[b][1] = x
        BY <3>1
      <4>4. ~(x > b + 1)
        <5>1. SUFFICES ASSUME x > b + 1 PROVE HasEntryFar
          BY <1>4
        <5> QED BY <2>1, <3>4, <4>1, <4>3, <5>1 DEF HasEntryFar
      <4>5. Leads(x)
        <5>1. SUFFICES ASSUME NEW i \in 1..NumBBs, i < x
                       PROVE  prog.body[i] = <<>> /\ prog.to[i] = <<i + 1>> /\ i + 1 \notin prog.phis
          BY <3>1 DEF Leads
        <5>2. i < b \/ (i = b /\ x = b + 1)
          BY <2>1, <3>1, <4>4, <5>1, IdsFacts
        <5> QED BY <1>4, <2>4, <3>1, <3>4, <5>2 DEF Leads
      <4> QED BY <3>1, <3>2, <4>5 DEF Anchored, Onwards
    <3> QED BY <3>3, <3>4
  <2> QED BY <2>2, <2>3, <2>4
<1>5. (HasEntryFar' <=> HasEntryFar) /\ (GoneMoves' = GoneMoves) /\ \A b : Leads(b)' <=> Leads(b)
  BY <1>1 DEF HasEntryFar, Busy, EmptyStart, GoneMoves, Moves, Leads
<1>6. \A b : Anchored(b)' <=> Anchored(b)
  BY <1>1, <1>5 DEF Anchored, Onwards, Holds
<1>7. ASSUME ~HasEntryFar', NEW b \in Ids, Holds(if_bbs, b)', Leads(b)'
      PROVE  Anchored(b)'
  BY <1>1, <1>4, <1>5, <1>6, <1>7 DEF Holds
<1> QED BY <1>1, <1>7 DEF EntryHeld

(* Whether blocks lead, and the moves that hold them, is not changed. *)
LEMMA HeldFrame ==
  ASSUME [Next]_vars
  PROVE  /\ HasEntryFar' <=> HasEntryFar
         /\ GoneMoves' = GoneMoves
         /\ \A b : Leads(b)' <=> Leads(b)
         /\ \A b : Onwards(b)' <=> \E x \in 1..NumBBs : to'[b] = <<x>> /\ Leads(x)
         /\ killed' = killed => (EntryBared' <=> EntryBared)
<1>1. prog' = prog
  BY ProgStays
<1>2. \A b : Leads(b)' <=> Leads(b)
  BY <1>1 DEF Leads
<1>3. \A b : Onwards(b)' <=> \E x \in 1..NumBBs : to'[b] = <<x>> /\ Leads(x)
  BY <1>2 DEF Onwards
<1>4. Busy' = Busy /\ GoneMoves' = GoneMoves
  BY <1>1, <1>2 DEF Busy, GoneMoves, Moves
<1>5. \A k : EmptyStart(prog.to, Busy, prog.phis, k)' <=> EmptyStart(prog.to, Busy, prog.phis, k)
  BY <1>1, <1>4 DEF EmptyStart
<1>6. HasEntryFar' <=> HasEntryFar
  BY <1>1, <1>5 DEF HasEntryFar
<1>7. killed' = killed => (EntryBared' <=> EntryBared)
  BY <1>1, <1>5 DEF EntryBared
<1> QED BY <1>2, <1>3, <1>4, <1>6, <1>7

(* Steps that leave the blocks and what they execute alone. *)
LEMMA HeldSkips ==
  ASSUME CfgInv, EntryHeld, [Next]_vars,
         \A x : Holds(if_bbs', x) => Holds(if_bbs, x), to' = to, body' = body, killed' = killed,
         phase' \in {"dead", "coalesce"} => phase \in {"dead", "coalesce"},
         phase' \in {"empty", "done"} => phase \in {"empty", "done"} /\ if_bbs' = if_bbs
  PROVE  EntryHeld'
<1>1. /\ HasEntryFar' <=> HasEntryFar
      /\ EntryBared' <=> EntryBared
      /\ GoneMoves' = GoneMoves
      /\ \A b : Leads(b)' <=> Leads(b)
  BY HeldFrame
<1>2. \A b : Onwards(b)' <=> Onwards(b)
  BY <1>1 DEF Onwards
<1>3. \A b : (Anchored(b)' <=> Anchored(b)) /\ (Lasting(b)' <=> Lasting(b))
  BY <1>1, <1>2 DEF Anchored, Lasting, Holds
<1>4. ASSUME ~HasEntryFar', phase' \in {"dead", "coalesce"},
             NEW b \in Ids, Holds(if_bbs, b)', Leads(b)'
      PROVE  Anchored(b)'
  <2>1. Holds(if_bbs, b)
    BY <1>4 DEF Holds
  <2> QED BY <1>1, <1>3, <1>4, <2>1 DEF EntryHeld
<1>5. ASSUME ~HasEntryFar', ~EntryBared', phase' \in {"empty", "done"}
      PROVE  /\ \E b \in Ids : Holds(if_bbs, b)' /\ Leads(b)'
             /\ \A b \in Ids : Holds(if_bbs, b)' /\ Leads(b)' => Lasting(b)'
  <2>1. \A b : Holds(if_bbs, b)' <=> Holds(if_bbs, b)
    BY <1>5 DEF Holds
  <2>2. ~HasEntryFar /\ ~EntryBared /\ phase \in {"empty", "done"}
    BY <1>1, <1>5
  <2>3. /\ \E b \in Ids : Holds(if_bbs, b) /\ Leads(b)
        /\ \A b \in Ids : Holds(if_bbs, b) /\ Leads(b) => Lasting(b)
    BY <2>2 DEF EntryHeld
  <2> QED BY <1>1, <1>3, <2>1, <2>3
<1> QED BY <1>4, <1>5 DEF EntryHeld

LEMMA HeldMerge ==
  ASSUME CfgInv, EntryHeld, Merge
  PROVE  EntryHeld'
<1> DEFINE b == Head(todo)
           from == CHOOSE p \in Preds(b) : TRUE
<1>1. /\ phase = "dead" /\ phase' = "dead" /\ todo # <<>> /\ todo' = Tail(todo)
      /\ Mergeable(b) /\ b \notin Preds(b)
  BY DEF Merge, Visit
<1>2. /\ if_bbs' = Without(if_bbs, b)
      /\ body' = [body EXCEPT ![from] = @ \o body[b]]
      /\ to' = [to EXCEPT ![from] = to[b]]
  BY DEF Merge
<1>3. /\ to \in [Ids -> Seq(Ids)] /\ body \in [Ids -> Seq(Tok)] /\ if_bbs \in Seq(Ids)
      /\ b \in Ids
  BY <1>1, Typed, BodyTokens, VisitTail
<1>4. from \in Ids /\ from # b /\ Holds(if_bbs, from) /\ Holds(if_bbs, b) /\ to[from] = <<b>>
  <2>1. PICK p \in Ids : Preds(b) = {p}
    BY <1>1, OnlyPred DEF Mergeable
  <2>2. from = p /\ from \in Preds(b)
    BY <2>1
  <2> HIDE DEF from
  <2>3. Holds(if_edges, <<from, b>>) /\ Len(to[from]) = 1
    BY <1>1, <2>2, PredsForm DEF Mergeable
  <2>4. Holds(if_bbs, from) /\ Holds(to[from], b) /\ Holds(if_bbs, b)
    BY <2>3 DEF CfgInv, GraphOK
  <2>5. to[from] = <<b>>
    <3>1. to[from] \in Seq(Ids)
      BY <1>3, <2>1, <2>2
    <3>2. to[from] = <<to[from][1]>>
      BY <2>3, <3>1, OnlyTarget
    <3>3. to[from][1] = b
      BY <2>3, <2>4 DEF Holds
    <3> QED BY <3>2, <3>3
  <2> QED BY <1>1, <2>1, <2>2, <2>4, <2>5
<1> HIDE DEF from, b
<1>5. /\ \A x : Holds(if_bbs', x) => Holds(if_bbs, x)
      /\ to'[from] = to[b] /\ body'[from] = body[from] \o body[b]
      /\ \A x \in Ids : x # from => to'[x] = to[x] /\ body'[x] = body[x]
  <2>1. \A x : Holds(if_bbs', x) => Holds(if_bbs, x)
    BY <1>2, <1>3, WithoutHolds
  <2> QED BY <1>2, <1>3, <1>4, <2>1
<1>6. \A m : Holds(body'[from], m) <=> Holds(body[from], m) \/ Holds(body[b], m)
  <2>1. body[from] \in Seq(Tok) /\ body[b] \in Seq(Tok)
    BY <1>3, <1>4
  <2>2. \A u, w \in Seq(Tok) : \A m : Holds(u \o w, m) <=> Holds(u, m) \/ Holds(w, m)
    <3> TAKE u, w \in Seq(Tok)
    <3> QED BY ConcatHolds
  <2> QED BY <1>5, <2>1, <2>2
<1>7. /\ HasEntryFar' <=> HasEntryFar
      /\ GoneMoves' = GoneMoves
      /\ \A x : Leads(x)' <=> Leads(x)
      /\ \A x : Onwards(x)' <=> \E y \in 1..NumBBs : to'[x] = <<y>> /\ Leads(y)
  <2>1. [Next]_vars
    BY DEF Next
  <2> QED BY <2>1, HeldFrame
<1>8. \A x : Anchored(x)' <=> \/ Len(to'[x]) # 1
                              \/ \E m : Holds(body'[x], m) /\ m \notin GoneMoves
                              \/ \E y \in 1..NumBBs : to'[x] = <<y>> /\ Leads(y)
  BY <1>7 DEF Anchored, Holds
<1>9. ASSUME ~HasEntryFar', NEW x \in Ids, Holds(if_bbs, x)', Leads(x)'
      PROVE  Anchored(x)'
  <2>1. Holds(if_bbs, x) /\ Leads(x) /\ ~HasEntryFar
    BY <1>5, <1>7, <1>9 DEF Holds
  <2>2. \A y \in Ids : Holds(if_bbs, y) /\ Leads(y) => Anchored(y)
    BY <1>1, <2>1 DEF EntryHeld
  <2>3. CASE x # from
    <3>1. Anchored(x) /\ to'[x] = to[x] /\ body'[x] = body[x]
      BY <1>5, <2>1, <2>2, <2>3
    <3> QED BY <1>8, <3>1 DEF Anchored, Onwards
  <2>4. CASE x = from
    <3>1. Anchored(from)
      BY <2>1, <2>2, <2>4
    <3>2. CASE \E m : Holds(body[from], m) /\ m \notin GoneMoves
      BY <1>6, <1>8, <2>4, <3>2
    <3>3. CASE ~\E m : Holds(body[from], m) /\ m \notin GoneMoves
      <4>1. Len(to[from]) = 1
        BY <1>4
      <4>2. Leads(b)
        <5>1. PICK y : to[from] = <<y>> /\ Leads(y)
          BY <3>1, <3>3, <4>1 DEF Anchored, Onwards
        <5>2. y = b
          <6>1. <<y>>[1] = y /\ <<b>>[1] = b
            OBVIOUS
          <6> QED BY <1>4, <5>1, <6>1
        <5> QED BY <5>1, <5>2
      <4>3. Anchored(b)
        BY <1>3, <1>4, <2>2, <4>2
      <4> QED BY <1>5, <1>6, <1>8, <2>4, <4>3 DEF Anchored, Onwards
    <3> QED BY <3>2, <3>3
  <2> QED BY <2>3, <2>4
<1> QED BY <1>1, <1>9 DEF EntryHeld

LEMMA HeldCoalesce ==
  ASSUME CfgInv, ParsedOK, EntryLeft, EntryHeld, NEW ms \in SUBSET Moves, coalesce(ms)
  PROVE  EntryHeld'
<1>1. /\ phase = "coalesce" /\ phase' = "empty"
      /\ body' = [x \in Ids |-> Dropping(body[x], ms)]
      /\ UNCHANGED <<if_bbs, to, prog>> /\ killed' = ms
  BY DEF coalesce
<1>2. ~EntryBared' => ms \subseteq GoneMoves
  <2>1. SUFFICES ASSUME NEW m \in ms, m \notin GoneMoves PROVE EntryBared'
    OBVIOUS
  <2>2. /\ m \in (1..NumBBs) \X prog.phis /\ m[2] \in Range(prog.to[m[1]])
        /\ Leads(m[1]) /\ prog.body[m[1]] = <<>> /\ Len(prog.to[m[1]]) = 1
    BY <2>1 DEF GoneMoves, Moves
  <2>3. m[1] \in 1..NumBBs /\ EmptyStart(prog.to, Busy, prog.phis, m[1])
    BY <2>2, LeadsEmpty
  <2>4. m[2] = prog.to[m[1]][1]
    BY <2>2 DEF Range
  <2>5. <<m[1], prog.to[m[1]][1]>> \in ms
    BY <2>2, <2>4
  <2>6. \E k \in 1..NumBBs : EmptyStart(prog.to, Busy, prog.phis, k) /\ <<k, prog.to[k][1]>> \in ms
    BY <2>3, <2>5
  <2> QED BY <1>1, <2>6 DEF EntryBared, EmptyStart, Busy
<1>3. \A x \in Ids : \A m : Holds(body'[x], m) <=> Holds(body[x], m) /\ m \notin ms
  <2>1. \A x \in Ids : body[x] \in Seq(Tok)
    BY BodyTokens
  <2>2. \A w \in Seq(Tok) : \A m : Holds(Dropping(w, ms), m) <=> Holds(w, m) /\ m \notin ms
    BY DroppingHolds
  <2>3. \A x \in Ids : body'[x] = Dropping(body[x], ms)
    BY <1>1
  <2> QED BY <2>1, <2>2, <2>3
<1>4. /\ HasEntryFar' <=> HasEntryFar
      /\ \A x : Leads(x)' <=> Leads(x)
      /\ \A x : Onwards(x)' <=> \E y \in 1..NumBBs : to'[x] = <<y>> /\ Leads(y)
  <2>1. [Next]_vars
    BY Zenon DEF Next
  <2> QED BY <2>1, HeldFrame
<1>5. Holds(if_bbs, 1) /\ Leads(1) /\ 1 \in Ids
  BY <1>1, LeadsOne, IdsFacts DEF EntryLeft
<1>6. ASSUME ~HasEntryFar, ~EntryBared', NEW x \in Ids, Holds(if_bbs, x), Leads(x)
      PROVE  Lasting(x)'
  <2>1. Anchored(x)
    BY <1>1, <1>6 DEF EntryHeld
  <2>2. CASE \E m : Holds(body[x], m) /\ m \notin GoneMoves
    <3>1. PICK m : Holds(body'[x], m)
      BY <1>2, <1>3, <1>6, <2>2
    <3>2. \A s : s = <<>> => ~Holds(s, m)
      BY DEF Holds
    <3>3. body'[x] # <<>>
      BY <3>1, <3>2
    <3> QED BY <3>3 DEF Lasting
  <2>3. CASE Len(to[x]) # 1
    BY <1>1, <2>3 DEF Lasting
  <2>4. CASE Onwards(x)
    BY <1>1, <1>4, <2>4 DEF Lasting, Onwards
  <2> QED BY <2>1, <2>2, <2>3, <2>4 DEF Anchored
<1>7. \A x : Holds(if_bbs, x)' <=> Holds(if_bbs, x)
  BY <1>1 DEF Holds
<1>8. ~HasEntryFar' /\ ~EntryBared' =>
        /\ \E x \in Ids : Holds(if_bbs, x)' /\ Leads(x)'
        /\ \A x \in Ids : Holds(if_bbs, x)' /\ Leads(x)' => Lasting(x)'
  BY <1>4, <1>5, <1>6, <1>7
<1> QED BY <1>1, <1>8 DEF EntryHeld

LEMMA HeldRemoveEmpty ==
  ASSUME CfgInv, EntryHeld, RemoveEmpty
  PROVE  EntryHeld'
<1> DEFINE b == Head(todo)
           nb == to[b][1]
<1>1. /\ phase = "empty" /\ phase' = "empty" /\ todo # <<>> /\ todo' = Tail(todo)
      /\ Empty(b)
      /\ body' = body /\ killed' = killed
      /\ if_bbs' = Without(if_bbs, b)
  BY DEF RemoveEmpty, Visit
<1>2. to' = [p \in Ids |-> IF p \in Preds(b) THEN Replaced(to[p], b, nb) ELSE to[p]]
  BY DEF RemoveEmpty, bb_change_branch
<1>3. /\ to \in [Ids -> Seq(Ids)] /\ body \in [Ids -> Seq(Tok)] /\ if_bbs \in Seq(Ids)
      /\ b \in Ids /\ GraphOK(if_bbs, if_edges, to)
  BY <1>1, Typed, BodyTokens, VisitTail
<1>4. nb \in Ids /\ to[b] = <<nb>> /\ body[b] = <<>> /\ nb # b
  <2>1. to[b] \in Seq(Ids) /\ Len(to[b]) = 1
    BY <1>1, <1>3 DEF Empty
  <2>2. nb \in Ids /\ to[b] = <<nb>>
    BY <2>1, OnlyTarget
  <2> QED BY <1>1, <2>2 DEF Empty
<1>5. \A x : Holds(if_bbs', x) <=> Holds(if_bbs, x) /\ x # b
  BY <1>1, <1>3, WithoutHolds
<1>6. /\ HasEntryFar' <=> HasEntryFar
      /\ EntryBared' <=> EntryBared
      /\ \A x : Leads(x)' <=> Leads(x)
      /\ \A x : Onwards(x)' <=> \E y \in 1..NumBBs : to'[x] = <<y>> /\ Leads(y)
  <2>1. [Next]_vars
    BY Zenon DEF Next
  <2> QED BY <1>1, <2>1, HeldFrame
<1>7. \A p : p \in Preds(b) <=> Holds(if_bbs, p) /\ Holds(to[p], b)
  BY <1>3, PredsForm DEF GraphOK
<1>8. \A x \in Ids : Holds(if_bbs, x) =>
        /\ Len(to'[x]) = Len(to[x])
        /\ \A y : to[x] = <<y>> => to'[x] = IF y = b THEN <<nb>> ELSE <<y>>
  <2> TAKE x \in Ids
  <2> HAVE Holds(if_bbs, x)
  <2> HIDE DEF b, nb
  <2>1. CASE Holds(to[x], b)
    <3>1. to'[x] = Replaced(to[x], b, nb)
      BY <1>2, <1>7, <2>1
    <3>2. /\ Len(Replaced(to[x], b, nb)) = Len(to[x])
          /\ \A i \in 1..Len(to[x]) : Replaced(to[x], b, nb)[i] = IF to[x][i] = b THEN nb ELSE to[x][i]
          /\ Replaced(to[x], b, nb) \in Seq(Ids)
      <4>1. \A w \in Seq(Ids) : /\ Len(Replaced(w, b, nb)) = Len(w)
                                /\ \A i \in 1..Len(w) : Replaced(w, b, nb)[i] = IF w[i] = b THEN nb ELSE w[i]
                                /\ Replaced(w, b, nb) \in Seq(Ids)
        BY <1>4, ReplacedHolds
      <4> QED BY <1>3, <4>1
    <3>3. ASSUME NEW y, to[x] = <<y>> PROVE to'[x] = IF y = b THEN <<nb>> ELSE <<y>>
      <4>1. Len(<<y>>) = 1 /\ <<y>>[1] = y /\ 1 \in 1..1
        OBVIOUS
      <4> DEFINE r == Replaced(to[x], b, nb)
      <4>2. Len(r) = 1 /\ r[1] = (IF y = b THEN nb ELSE y) /\ r \in Seq(Ids)
        BY <3>2, <3>3, <4>1
      <4> HIDE DEF r
      <4>3. r = <<r[1]>>
        BY <4>2, OnlyTarget
      <4> QED BY <3>1, <4>2, <4>3 DEF r
    <3> QED BY <3>1, <3>2, <3>3
  <2>2. CASE ~Holds(to[x], b)
    <3>1. to'[x] = to[x]
      BY <1>2, <1>7, <2>2
    <3>2. \A y : to[x] = <<y>> => y # b
      <4>1. \A y : Holds(<<y>>, y)
        <5>1. \A y : Len(<<y>>) = 1 /\ <<y>>[1] = y /\ 1 \in 1..1
          OBVIOUS
        <5> QED BY <5>1 DEF Holds
      <4> QED BY <2>2, <4>1
    <3> QED BY <3>1, <3>2
  <2> QED BY <2>1, <2>2
<1>9. SUFFICES ASSUME ~HasEntryFar, ~EntryBared
               PROVE  /\ \E x \in Ids : Holds(if_bbs, x)' /\ Leads(x)'
                      /\ \A x \in Ids : Holds(if_bbs, x)' /\ Leads(x)' => Lasting(x)'
  BY <1>1, <1>6 DEF EntryHeld
<1>10. /\ \E x \in Ids : Holds(if_bbs, x) /\ Leads(x)
       /\ \A x \in Ids : Holds(if_bbs, x) /\ Leads(x) => Lasting(x)
  BY <1>1, <1>9 DEF EntryHeld
<1>11. \A x : Holds(if_bbs, x)' <=> Holds(if_bbs', x)
  BY DEF Holds
<1>12. Holds(if_bbs, b) /\ Leads(b) => Leads(nb) /\ Holds(if_bbs', nb)
  <2>1. SUFFICES ASSUME Holds(if_bbs, b), Leads(b) PROVE Leads(nb) /\ Holds(if_bbs', nb)
    OBVIOUS
  <2>2. \A y : Holds(<<y>>, y) /\ Len(<<y>>) = 1 /\ <<y>>[1] = y
    <3>1. \A y : Len(<<y>>) = 1 /\ <<y>>[1] = y /\ 1 \in 1..1
      OBVIOUS
    <3> QED BY <3>1 DEF Holds
  <2>3. Onwards(b)
    <3>1. Lasting(b)
      BY <1>3, <1>10, <2>1
    <3> QED BY <1>4, <2>2, <3>1 DEF Lasting
  <2>4. PICK y : to[b] = <<y>> /\ Leads(y)
    BY <2>3 DEF Onwards
  <2>5. y = nb
    BY <1>4, <2>2, <2>4
  <2>6. Holds(if_bbs, nb)
    <3>1. Holds(to[b], nb)
      BY <2>2, <2>4, <2>5
    <3> QED BY <1>3, <2>1, <3>1 DEF GraphOK
  <2> QED BY <1>4, <1>5, <2>4, <2>5, <2>6
<1>13. \E x \in Ids : Holds(if_bbs', x) /\ Leads(x)
  <2>1. PICK x \in Ids : Holds(if_bbs, x) /\ Leads(x)
    BY <1>10
  <2> QED BY <1>4, <1>5, <1>12, <2>1
<1>14. ASSUME NEW x \in Ids, Holds(if_bbs', x), Leads(x)
       PROVE  Lasting(x)'
  <2>1. Holds(if_bbs, x) /\ Lasting(x)
    BY <1>5, <1>10, <1>14
  <2>2. Len(to'[x]) = Len(to[x])
    BY <1>8, <2>1
  <2>3. CASE Len(to[x]) # 1 \/ body[x] # <<>>
    BY <1>1, <2>2, <2>3 DEF Lasting
  <2>4. CASE Onwards(x)
    <3>1. PICK y \in 1..NumBBs : to[x] = <<y>> /\ Leads(y)
      BY <2>4 DEF Onwards
    <3>2. to'[x] = IF y = b THEN <<nb>> ELSE <<y>>
      BY <1>8, <2>1, <3>1
    <3>3. y = b => Leads(nb) /\ nb \in 1..NumBBs
      <4>1. Holds(if_bbs, y)
        <5>1. Holds(<<y>>, y)
          <6>1. Len(<<y>>) = 1 /\ <<y>>[1] = y /\ 1 \in 1..1
            OBVIOUS
          <6> QED BY <6>1 DEF Holds
        <5> QED BY <1>3, <2>1, <3>1, <5>1 DEF GraphOK
      <4>2. y = b => Leads(nb)
        BY <1>12, <3>1, <4>1
      <4> QED BY <4>2 DEF Leads
    <3>4. Onwards(x)'
      BY <1>6, <3>1, <3>2, <3>3
    <3> QED BY <3>4 DEF Lasting
  <2> QED BY <2>1, <2>3, <2>4 DEF Lasting
<1> QED BY <1>6, <1>11, <1>13, <1>14

LEMMA HeldStep ==
  ASSUME CfgInv, ParsedOK, EarlyInv, EntryLeft, EntryHeld, [Next]_vars
  PROVE  EntryHeld'
<1>1. CASE phase' \notin {"dead", "coalesce", "empty", "done"}
  BY <1>1 DEF EntryHeld
<1>2. CASE break_critical_edge \/ KeepEdge \/ StartSsa \/ exit_ssa_bb \/ MultiplePhiEntries \/ UnableToTransform
  <2>1. phase' \notin {"dead", "coalesce", "empty", "done"}
    BY <1>2 DEF break_critical_edge, KeepEdge, StartSsa, exit_ssa_bb, MultiplePhiEntries,
         UnableToTransform, Visit, Skip, Start, Fail
  <2> QED BY <1>1, <2>1
<1>3. CASE StartDead
  BY <1>3, HeldStartDead
<1>4. \A b : \A x : Holds(Without(if_bbs, b), x) => Holds(if_bbs, x)
  <2>1. if_bbs \in Seq(Ids)
    BY Typed
  <2> QED BY <2>1, WithoutHolds
<1>5. CASE DestroyUnreachable
  <2>1. /\ phase = "dead" /\ phase' = "dead" /\ to' = to /\ body' = body /\ killed' = killed /\ if_bbs' = Without(if_bbs, Head(todo))
    BY <1>5 DEF DestroyUnreachable, Visit
  <2> QED BY <1>4, <2>1, HeldSkips
<1>6. CASE Merge
  BY <1>6, HeldMerge
<1>7. CASE MergeWithItself
  <2>1. CASE phase' = "spinning"
    BY <1>1, <2>1
  <2>2. CASE phase' # "spinning"
    <3>1. /\ phase = "dead" /\ phase' = "dead" /\ to' = to /\ body' = body /\ killed' = killed /\ if_bbs' = Without(if_bbs, Head(todo))
      BY <1>7, <2>2 DEF MergeWithItself, Visit, Fail
    <3> QED BY <1>4, <3>1, HeldSkips
  <2> QED BY <2>1, <2>2
<1>8. CASE KeepBlock
  <2>1. phase = "dead" /\ phase' = "dead" /\ to' = to /\ body' = body /\ killed' = killed /\ if_bbs' = if_bbs
    BY <1>8 DEF KeepBlock, Visit, Skip
  <2> QED BY <2>1, HeldSkips
<1>9. CASE StartCoalesce
  <2>1. phase = "dead" /\ phase' = "coalesce" /\ to' = to /\ body' = body /\ killed' = killed /\ if_bbs' = if_bbs
    BY <1>9 DEF StartCoalesce, Start
  <2> QED BY <2>1, HeldSkips
<1>10. CASE \E ms \in SUBSET Moves : coalesce(ms)
  <2>1. PICK ms \in SUBSET Moves : coalesce(ms)
    BY <1>10, Zenon
  <2> QED BY <2>1, HeldCoalesce
<1>11. CASE RemoveEmpty
  BY <1>11, HeldRemoveEmpty
<1>12. CASE KeepNonEmpty
  <2>1. phase = "empty" /\ phase' = "empty" /\ to' = to /\ body' = body /\ killed' = killed /\ if_bbs' = if_bbs
    BY <1>12 DEF KeepNonEmpty, Visit, Skip
  <2> QED BY <2>1, HeldSkips
<1>13. CASE Finish
  <2>1. phase = "empty" /\ phase' = "done" /\ to' = to /\ body' = body /\ killed' = killed /\ if_bbs' = if_bbs
    BY <1>13 DEF Finish, Start
  <2> QED BY <2>1, HeldSkips
<1>14. CASE UNCHANGED vars
  <2>1. phase' = phase /\ to' = to /\ body' = body /\ killed' = killed /\ if_bbs' = if_bbs
    BY <1>14 DEF vars
  <2> QED BY <2>1, HeldSkips
<1> QED BY <1>2, <1>3, <1>5, <1>6, <1>7, <1>8, <1>9, <1>10, <1>11, <1>12, <1>13, <1>14, Zenon DEF Next

(* The first block that is left is one that nothing is executed before. *)
LEMMA EntryAtEnd ==
  ASSUME CfgInv, EntryHeld, Leading(if_bbs), phase = "done", ~HasEntryFar, ~EntryBared
  PROVE  if_bbs # <<>> /\ Leads(if_bbs[1])
<1>1. PICK b \in Ids : Holds(if_bbs, b) /\ Leads(b)
  BY DEF EntryHeld
<1>2. PICK j \in 1..Len(if_bbs) : if_bbs[j] = b
  BY <1>1 DEF Holds
<1>3. if_bbs \in Seq(Ids)
  BY Typed
<1>4. 1 \in 1..Len(if_bbs) /\ (j = 1 \/ 1 < j) /\ if_bbs # <<>>
  BY <1>2, <1>3
<1> QED BY <1>1, <1>2, <1>4 DEF Leading

-----------------------------------------------------------------------------
(* The function as parsed runs as it was parsed. *)
LEMMA FlowInit ==
  ASSUME Init
  PROVE  FlowInv
<1>1. /\ ParsedOK /\ ProgOK /\ phase = "critical"
      /\ \A b \in 1..NumBBs : to[b] = prog.to[b] /\ body[b] = prog.body[b]
      /\ if_bbs \in Seq(1..NumBBs)
      /\ own = [b \in Ids |-> b]
  BY InitFacts
<1>2. \A b \in Ids : IF b \in prog.phis THEN PhiParsed(phi[b], Into(prog.to, b)) ELSE phi[b] = <<>>
  BY InitFacts
<1>3. /\ \A b : Holds(if_bbs, b) => b \in 1..NumBBs
      /\ 1..NumBBs \subseteq Ids /\ 0 \notin 1..NumBBs
  BY <1>1, IdsFacts, ElementOfSeq DEF Holds
<1>4. \A x, p : p \in 1..NumBBs /\ Holds(prog.to[p], x) => Holds(Into(prog.to, x), p)
  BY <1>1, IntoFacts DEF ProgOK
<1>5. ASSUME NEW ms \in SUBSET Moves
      PROVE  \E V, R : EarlyFlow(phi, to, own, ms, Stripped(ms), if_bbs, V, R)
  <2> DEFINE c == ParsedChunk(ms)
             nx == ParsedNext
             N == NumBBs
  <2>1. JumpGraph(1..N, c, nx)
    BY <1>1, ParsedGraph
  <2>2. PICK V0, R0 : Solves(1..N, N, c, nx, V0, R0)
    <3>1. N \in Nat
      BY IdsFacts
    <3> HIDE DEF c, nx, N
    <3> QED BY <2>1, <3>1, SolutionExists
  <2> DEFINE V == [b \in Ids |-> IF b \in 1..N THEN V0[b] ELSE <<>>]
             R == [b \in Ids |-> IF b \in 1..N THEN R0[b] ELSE 0]
  <2>3. \A b \in 1..N : V[b] = V0[b] /\ R[b] = R0[b]
    BY <1>3
  <2>4. \A b \in 1..N : nx[b] # 0 => nx[b] \in 1..N
    BY <2>1 DEF JumpGraph
  <2>5. \A b \in Ids : b \notin 1..N => V[b] = <<>> /\ R[b] = 0
    OBVIOUS
  <2> HIDE DEF V, R, c, nx
  <2>6. Solves(1..N, N, c, nx, V, R)
    <3>1. \A b \in 1..N : After(c, nx, V, b) = After(c, nx, V0, b)
      BY <2>3, <2>4 DEF After
    <3>2. \A b \in 1..N : nx[b] # 0 => R[nx[b]] = R0[nx[b]]
      BY <2>3, <2>4
    <3> QED BY <2>2, <2>3, <3>1, <3>2 DEF Solves
  <2>7. Suits(ms, V, R)
    <3>1. \A b \in 1..N : V[b] \in Seq(Tok) /\ R[b] \in 0..(N - 1)
      BY <2>6 DEF Solves
    <3>2. \A i \in 0..(N - 1) : i \in 0..(Cardinality(Ids) - 1)
      BY StepsFacts, IdsFacts
    <3>3. 0 \in 0..(Cardinality(Ids) - 1) /\ <<>> \in Seq(Tok)
      BY StepsFacts, IdsFacts
    <3>4. \A b \in Ids : V[b] \in Seq(Tok) /\ R[b] \in 0..(Cardinality(Ids) - 1)
      BY <2>5, <3>1, <3>2, <3>3
    <3> QED BY <2>6, <3>4 DEF Suits, c, nx
  <2>8. ASSUME NEW b \in 1..NumBBs PROVE Stripped(ms)[b] = prog.body[b]
    <3>1. <<b, 0>> \in Tok /\ <<b, 0>> \notin ms
      <4>1. <<b, 0>> \notin ms
        BY <1>1, GoneFacts
      <4> QED BY <1>3, <4>1 DEF Tok
    <3>2. Dropping(<<>>, ms) = <<>> /\ Dropping(<< <<b, 0>> >>, ms) = << <<b, 0>> >>
      BY <3>1, DroppingNone
    <3>3. Stripped(ms)[b] = Dropping(prog.body[b], ms)
      BY <1>1, <1>3 DEF Stripped
    <3> QED BY <1>1, <3>2, <3>3 DEF ParsedOK
  <2>9. ASSUME NEW b \in 1..NumBBs, NEW t \in 1..NumBBs, Holds(prog.to[b], t)
        PROVE  EdgeMove(phi, ms, b, t) = MoveKept(ms, b, t)
    <3>1. CASE t \notin prog.phis
      <4>1. phi[t] = <<>>
        BY <1>2, <1>3, <3>1
      <4> QED BY <3>1, <4>1, EdgeMoveNone DEF MoveKept
    <3>2. CASE t \in prog.phis
      <4>1. PhiParsed(phi[t], Into(prog.to, t))
        BY <1>2, <1>3, <3>2
      <4>2. AgreeAt(phi[t])
        BY <4>1 DEF AgreeAt, PhiParsed
      <4>3. PICK i \in 1..Len(Into(prog.to, t)) : Into(prog.to, t)[i] = b
        <5>1. Holds(Into(prog.to, t), b)
          BY <1>4, <2>9
        <5> QED BY <5>1 DEF Holds
      <4>4. i \in 1..Len(phi[t]) /\ phi[t][i].pred = b /\ phi[t][i].orig = b
        BY <4>1, <4>3 DEF PhiParsed
      <4>5. EdgeMove(phi, ms, phi[t][i].pred, t) = Kept(ms, <<phi[t][i].orig, t>>)
        BY <4>2, <4>4, EdgeMoveIs
      <4> QED BY <3>2, <4>4, <4>5 DEF MoveKept, Kept
    <3> QED BY <3>1, <3>2
  <2>10. ASSUME NEW b \in 1..NumBBs PROVE RunsEarly(phi, to, own, ms, Stripped(ms), V, R, b)
    <3>1. to[b] = prog.to[b] /\ own[b] = b /\ Stripped(ms)[b] = prog.body[b]
      BY <1>1, <1>3, <2>8
    <3>2. /\ Alike(Horizon, V[b], After(c, nx, V, b))
          /\ nx[b] # 0 /\ c[b] = <<>> /\ V[b] # <<>> => R[nx[b]] < R[b]
      BY <2>6 DEF Solves
    <3>3. /\ prog.to[b] \in Seq(1..NumBBs)
          /\ \A i \in 1..Len(prog.to[b]) : prog.to[b][i] \in 1..NumBBs /\ Holds(prog.to[b], prog.to[b][i])
      BY <1>1, ParsedTarget DEF Holds
    <3>4. ASSUME Len(prog.to[b]) = 1
          PROVE  Jumps(prog.body[b] \o EdgeMove(phi, ms, b, prog.to[b][1]), V, R, b, prog.to[b][1])
      <4> DEFINE t == prog.to[b][1]
      <4>1. t \in 1..NumBBs /\ Holds(prog.to[b], t) /\ t # 0
        BY <1>3, <3>3, <3>4
      <4>2. EdgeMove(phi, ms, b, t) = MoveKept(ms, b, t)
        BY <2>9, <4>1
      <4>3. nx[b] = t /\ c[b] = prog.body[b] \o MoveKept(ms, b, t)
        BY <3>4 DEF c, nx, ParsedChunk, ParsedNext
      <4>4. After(c, nx, V, b) = c[b] \o V[t]
        BY <4>1, <4>3 DEF After
      <4> QED BY <3>2, <4>1, <4>2, <4>3, <4>4 DEF Jumps
    <3>5. ASSUME Len(prog.to[b]) # 1
          PROVE  Alike(Horizon, V[b], Append(prog.body[b], <<b, -1>>))
      <4>1. nx[b] = 0 /\ c[b] = Append(prog.body[b], <<b, -1>>)
        BY <3>5 DEF c, nx, ParsedChunk, ParsedNext
      <4> QED BY <3>2, <4>1 DEF After
    <3>6. ASSUME Len(prog.to[b]) = 2, NEW i \in 1..2
          PROVE  Alike(Horizon, EdgeMove(phi, ms, b, prog.to[b][i]) \o V[prog.to[b][i]], WayParsed(ms, V, b, i))
      <4>1. prog.to[b][i] \in 1..NumBBs /\ Holds(prog.to[b], prog.to[b][i])
        BY <3>3, <3>6
      <4>2. EdgeMove(phi, ms, b, prog.to[b][i]) = MoveKept(ms, b, prog.to[b][i])
        BY <2>9, <4>1
      <4>3. WayParsed(ms, V, b, i) = EdgeMove(phi, ms, b, prog.to[b][i]) \o V[prog.to[b][i]]
        BY <4>2 DEF WayParsed
      <4> QED BY <4>3 DEF Alike
    <3> QED BY <3>1, <3>4, <3>5, <3>6 DEF RunsEarly, Decision
  <2>11. \A b \in Ids : Holds(if_bbs, b) => RunsEarly(phi, to, own, ms, Stripped(ms), V, R, b)
    BY <1>3, <2>10
  <2> QED BY <2>7, <2>11 DEF EarlyFlow
<1> QED BY <1>1, <1>5 DEF FlowInv

LEMMA FlowStep ==
  ASSUME CfgInv, ParsedOK, EarlyInv, FlowInv, [Next]_vars
  PROVE  FlowInv'
<1>1. CASE \/ KeepEdge \/ StartSsa \/ MultiplePhiEntries
           \/ DestroyUnreachable \/ MergeWithItself \/ KeepBlock \/ StartCoalesce
           \/ UnableToTransform \/ KeepNonEmpty \/ Finish
  BY <1>1, FlowSkips
<1>2. CASE break_critical_edge
  BY <1>2, FlowBreak
<1>3. CASE exit_ssa_bb
  BY <1>3, FlowExit
<1>4. CASE StartDead
  BY <1>4, FlowStartDead
<1>5. CASE Merge
  BY <1>5, FlowMerges
<1>6. CASE \E ms \in SUBSET Moves : coalesce(ms)
  <2>1. PICK ms \in SUBSET Moves : coalesce(ms)
    BY <1>6, Zenon
  <2> QED BY <2>1, FlowCoalesce
<1>7. CASE RemoveEmpty
  BY <1>7, FlowRemoveEmpty
<1>8. CASE UNCHANGED vars
  <2>1. UNCHANGED <<prog, if_bbs, to, own, body, phi, killed, phase>>
    BY <1>8 DEF vars
  <2> QED BY <2>1, FlowFrame
<1> QED BY <1>1, <1>2, <1>3, <1>4, <1>5, <1>6, <1>7, <1>8, Zenon DEF Next

-----------------------------------------------------------------------------
(* What holds in every state, and with which the function that is left at   *)
(* the end behaves as it was parsed.                                        *)
KeptInv ==
  /\ CfgInv /\ ParsedOK
  /\ EarlyInv /\ Leading(if_bbs)
  /\ EntryLeft /\ EntryHeld
  /\ FlowInv

LEMMA KeptInit == Init => KeptInv
<1> SUFFICES ASSUME Init PROVE KeptInv
  OBVIOUS
<1>1. phase = "critical" /\ ParsedOK
  BY InitFacts
<1>2. EntryLeft /\ EntryHeld
  BY <1>1 DEF EntryLeft, EntryHeld
<1> QED BY <1>1, <1>2, CfgInit, EarlyInit, FlowInit DEF KeptInv

LEMMA KeptStep == KeptInv /\ [Next]_vars => KeptInv'
<1> SUFFICES ASSUME KeptInv, [Next]_vars PROVE KeptInv'
  OBVIOUS
<1>1. CfgInv /\ ParsedOK /\ EarlyInv /\ Leading(if_bbs) /\ EntryLeft /\ EntryHeld /\ FlowInv
  BY DEF KeptInv
<1>2. CfgInv' /\ ParsedOK'
  BY <1>1, CfgStep, ParsedStays
<1>3. EarlyInv' /\ Leading(if_bbs)'
  BY <1>1, EarlyStep, LeadingStep
<1>4. EntryLeft' /\ EntryHeld'
  BY <1>1, EntryLeftStep, HeldStep
<1>5. FlowInv'
  BY <1>1, FlowStep
<1> QED BY <1>2, <1>3, <1>4, <1>5 DEF KeptInv

LEMMA KeptAlways == Spec => []KeptInv
BY KeptInit, KeptStep, PTL DEF Spec

(* transform_function keeps what the function does: a function of any size  *)
(* that does not start with empty blocks leading past a block, or made bare *)
(* by the moves removed, executes, after all passes, its instructions and   *)
(* the moves of its PHIs as parsed, from its first block and from each way  *)
(* of each branch.                                                          *)
THEOREM CfgBehaviourKept == Spec => []BehaviourKept
<1>1. KeptInv => BehaviourKept
  <2> SUFFICES ASSUME KeptInv, ~HasEntryFar, ~EntryBared, phase = "done" PROVE SameBehaviour
    BY DEF BehaviourKept, SameBehaviour
  <2>1. CfgInv /\ ParsedOK /\ Leading(if_bbs) /\ EntryHeld /\ FlowInv
    BY DEF KeptInv
  <2>2. if_bbs # <<>> /\ Leads(if_bbs[1])
    BY <2>1, EntryAtEnd
  <2>3. PICK V, R : LateFlow(to, own, killed, body, if_bbs, V, R)
    BY <2>1 DEF FlowInv
  <2> QED BY <2>1, <2>2, <2>3, EndSame
<1> QED BY <1>1, KeptAlways, PTL
=============================================================================
