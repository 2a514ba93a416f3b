------------------------------ MODULE Allocator ------------------------------
(***************************************************************************)
(* What a guest may rely on from malloc, calloc, free and realloc: the     *)
(* regions it owns lie inside the heap and never overlap, a call may fail, *)
(* and a failed call takes nothing away.  Heap is shown to implement this. *)
(***************************************************************************)
EXTENDS Integers

CONSTANTS
  Lo, Hi   \* the heap is the addresses Lo .. Hi-1

VARIABLE
  live     \* owned pointer |-> number of bytes the guest may use there

(* [p, p+n) lies inside the heap and meets no region of l. *)
Room(l, p, n) ==
  /\ Lo <= p
  /\ p + n <= Hi
  /\ \A q \in DOMAIN l : p # q /\ (p + n <= q \/ q + l[q] <= p)

With(l, p, n)  == [q \in DOMAIN l \cup {p} |-> IF q = p THEN n ELSE l[q]]
Without(l, p)  == [q \in DOMAIN l \ {p} |-> l[q]]

Init == live = [p \in {} |-> 0]

(* malloc, calloc *)
Allocate(p, n) == Room(live, p, n) /\ live' = With(live, p, n)

(* free, realloc(p, 0) *)
Deallocate(p) == live' = Without(live, p)

(* realloc: the region grows or shrinks where it is. *)
Resize(p, n) == Room(Without(live, p), p, n) /\ live' = With(Without(live, p), p, n)

(* realloc: a new region is found while the old one is still owned. *)
Move(p, q, n) == Room(live, q, n) /\ live' = With(Without(live, p), q, n)

(* The new region is read off the new state. *)
Next ==
  \/ \E p \in DOMAIN live' : Allocate(p, live'[p])
  \/ \E p \in DOMAIN live : Deallocate(p)
  \/ \E p \in DOMAIN live \cap DOMAIN live' : Resize(p, live'[p])
  \/ \E p \in DOMAIN live, q \in DOMAIN live' : Move(p, q, live'[q])

Spec == Init /\ [][Next]_live
=============================================================================
