------------------------------ MODULE BlockPool ------------------------------
(***************************************************************************)
(* What a contiguous-block allocator promises, without its bitmap, its     *)
(* in-band headers, its mutex or its search order.  The pool is a row of   *)
(* blocks; the only state is the set of live extents <<first, count>>.     *)
(* PsramPool implements this specification (see PsramPool!Abstract).       *)
(***************************************************************************)
EXTENDS Integers

VARIABLES
  size,   \* number of blocks of the pool, 0 until it is set up
  live    \* the live extents: pairs <<first block, number of blocks>>

Blocks(e) == e[1] .. (e[1] + e[2] - 1)

\* The blocks of e exist and no live extent has one of them.
Free(e, extents) ==
  /\ e[1] >= 0 /\ e[2] > 0 /\ e[1] + e[2] <= size
  /\ \A x \in extents : Blocks(x) \cap Blocks(e) = {}

Init ==
  /\ size = 0
  /\ live = {}

SetUp ==
  /\ size = 0
  /\ size' > 0
  /\ UNCHANGED live

Allocate(first, count) ==
  /\ Free(<<first, count>>, live)
  /\ live' = live \cup {<<first, count>>}
  /\ UNCHANGED size

Release(e) ==
  /\ e \in live
  /\ live' = live \ {e}
  /\ UNCHANGED size

\* An extent grows where it stands, into blocks nobody has.
Grow(e, count) ==
  /\ e \in live
  /\ count > e[2]
  /\ Free(<<e[1], count>>, live \ {e})
  /\ live' = (live \ {e}) \cup {<<e[1], count>>}
  /\ UNCHANGED size

Next ==
  \/ SetUp
  \/ \E first \in 0 .. size - 1, count \in 1 .. size : Allocate(first, count)
  \/ \E e \in live : Release(e)
  \/ \E e \in live, count \in 1 .. size : Grow(e, count)

Spec == Init /\ [][Next]_<<size, live>>
=============================================================================
