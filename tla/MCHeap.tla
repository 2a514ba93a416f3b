------------------------------- MODULE MCHeap -------------------------------
(* Heap on a 64-bit host: headers of 24 bytes, sizes rounded to 16.  The    *)
(* heap holds a few small blocks, is no multiple of 16, and the requests    *)
(* round to two different sizes.                                            *)
EXTENDS Heap
=============================================================================
