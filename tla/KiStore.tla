------------------------------ MODULE KiStore ------------------------------
(***************************************************************************)
(* What the heap of the Ki library promises to the program that calls it:  *)
(* every block handed out by alloc is a private array of bytes.  Addresses *)
(* do not appear: a block is known by its handle, the variable in which    *)
(* the caller keeps the pointer.  A block changes only when its owner      *)
(* writes to it, reallocates it or frees it.                               *)
(***************************************************************************)
EXTENDS Integers

CONSTANTS
    Handles,    \* the pointers the calling program keeps
    Sizes,      \* the sizes it asks for
    Byte        \* the values of a byte

VARIABLE
    store       \* the bytes of each handle's block, none when it has no block

NoBytes == [k \in 0..-1 |-> 0]

Blocks == UNION {[0..n-1 -> Byte] : n \in Sizes}

TypeOK == store \in [Handles -> Blocks \union {NoBytes}]

Held(h) == store[h] # NoBytes

Init == store = [h \in Handles |-> NoBytes]

\* A new block has the size asked for; its bytes are whatever was there.
Alloc(h) ==
    /\ ~Held(h)
    /\ \E n \in Sizes : \E f \in [0..n-1 -> Byte] : store' = [store EXCEPT ![h] = f]

Free(h) ==
    /\ Held(h)
    /\ store' = [store EXCEPT ![h] = NoBytes]

\* A reallocated block keeps the bytes that the old and the new one share.
Realloc(h) ==
    /\ Held(h)
    /\ \E n \in Sizes : \E f \in [0..n-1 -> Byte] :
          /\ \A k \in DOMAIN store[h] \intersect 0..n-1 : f[k] = store[h][k]
          /\ store' = [store EXCEPT ![h] = f]

Write(h) ==
    /\ Held(h)
    /\ \E k \in DOMAIN store[h], v \in Byte :
          store' = [store EXCEPT ![h] = [store[h] EXCEPT ![k] = v]]

Next == \E h \in Handles : Alloc(h) \/ Free(h) \/ Realloc(h) \/ Write(h)

Spec == Init /\ [][Next]_store
=============================================================================
