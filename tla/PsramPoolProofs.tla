--------------------------- MODULE PsramPoolProofs ---------------------------
(***************************************************************************)
(* The safety of the block pool for every number of tasks, every pool size *)
(* and every set of request sizes that do not wrap around a machine word;  *)
(* at the end, the loops over its bitmap.                                  *)
(***************************************************************************)
EXTENDS PoolSearch, FiniteSetTheorems, WellFoundedInduction, TLAPS

-----------------------------------------------------------------------------
(* The helpers the operations are built from.                               *)

\* A non-empty set of natural numbers has a least element.
LEMMA LeastNatural ==
  ASSUME NEW S \in SUBSET Nat, S # {}
  PROVE  \E m \in S : \A k \in S : m <= k
<1>1. \E m \in S : \A k \in S : ~(<<k, m>> \in OpToRel(<, Nat))
  BY WFMin, NatLessThanWellFounded
<1>2. PICK m \in S : \A k \in S : ~(<<k, m>> \in OpToRel(<, Nat))
  BY <1>1
<1>3. ASSUME NEW k \in S PROVE m <= k
  <2>1. k \in Nat /\ m \in Nat /\ <<k, m>> \in Nat \X Nat
    OBVIOUS
  <2>2. ~(k < m)
    BY <1>2, <2>1, <1>3, Zenon DEF OpToRel
  <2>3. QED
    BY <2>1, <2>2
<1>4. QED
  BY <1>3

\* find_contiguous_free returns the lowest fit whenever there is one.
LEMMA FindIsFirstFit ==
  ASSUME NEW n \in Nat, NEW a \in Nat \ {0}, HasFit(n, a)
  PROVE  /\ find_contiguous_free(n, a) \in Block
         /\ FitsAligned(find_contiguous_free(n, a), n, a)
         /\ \A c \in 0 .. find_contiguous_free(n, a) - 1 : ~FitsAligned(c, n, a)
<1> DEFINE S == {b \in Block : FitsAligned(b, n, a)}
<1>1. S \in SUBSET Nat /\ S # {}
  BY PoolAssumption DEF HasFit, Block
<1>2. PICK m \in S : \A k \in S : m <= k
  BY <1>1, LeastNatural
<1>3. \A c \in 0 .. m - 1 : c \in Block /\ ~(m <= c)
  BY <1>1, PoolAssumption DEF Block
<1>4. /\ m \in Block /\ FitsAligned(m, n, a)
      /\ \A c \in 0 .. m - 1 : ~FitsAligned(c, n, a)
  BY <1>2, <1>3
<1>5. QED
  BY <1>4 DEF find_contiguous_free

\* The alignment of a request is a positive number of blocks.
LEMMA AlignIsPositive ==
  ASSUME NEW bytes \in Nat
  PROVE  AlignBlocks(bytes) \in Nat \ {0}
<1> DEFINE clamped == CASE bytes > BlockSize -> BlockSize
                        [] bytes < 1         -> 1
                        [] OTHER             -> bytes
<1>1. clamped \in Nat /\ BlockSize \in Nat \ {0}
  BY PoolAssumption
<1>2. clamped \div BlockSize \in Nat
  BY <1>1
<1> QED BY <1>2 DEF AlignBlocks

\* Without wrap-around, a request is given at least one block, enough of them
\* for its bytes and its header, and none it could do without.
LEMMA NBlocksRoundsUp ==
  ASSUME NoWrap, NEW s \in Sizes, s # 0
  PROVE  /\ NBlocks(s) \in Nat \ {0}
         /\ \A n \in Nat : s > n * BlockSize - HeaderSize => NBlocks(s) > n
         /\ \A n \in Nat : s <= n * BlockSize - HeaderSize => NBlocks(s) <= n
<1> DEFINE x == HeaderSize + s + BlockSize - 1
<1>1. s \in Nat /\ BlockSize \in Nat \ {0} /\ HeaderSize \in Nat /\ WordSize \in Nat \ {0}
  BY PoolAssumption
<1>2. HeaderSize + s \in 0 .. WordSize - 1 /\ x \in 0 .. WordSize - 1
  BY <1>1 DEF NoWrap
<1>3. NBlocks(s) = x \div BlockSize
  BY <1>1, <1>2 DEF NBlocks
<1> DEFINE q == x \div BlockSize
<1>4. q \in Int /\ BlockSize * q <= x /\ x < BlockSize * q + BlockSize
  BY <1>1
<1> HIDE DEF q
<1>5. q >= 1
  BY <1>1, <1>4
<1>6. ASSUME NEW n \in Nat, s > n * BlockSize - HeaderSize
      PROVE  q > n
  BY <1>1, <1>4, <1>6
<1>7. ASSUME NEW n \in Nat, s <= n * BlockSize - HeaderSize
      PROVE  q <= n
  BY <1>1, <1>4, <1>7
<1>8. QED
  BY <1>3, <1>4, <1>5, <1>6, <1>7 DEF q
-----------------------------------------------------------------------------
(* Tilings: extents that cover a set of blocks without overlapping.         *)

\* The extents n[b] long of the blocks b in L tile the set bm, below tot.
Tiles(bm, L, n, tot) ==
  /\ \A b \in L : n[b] > 0 /\ b + n[b] <= tot
  /\ \A b, c \in L : \A x \in Extent(b, n[b]) : x \in Extent(c, n[c]) => b = c
  /\ \A x : x \in bm <=> \E b \in L : x \in Extent(b, n[b])

\* The invariant about the headers is such a tiling.
LEMMA HeadersAreTiles ==
  HeadersTileBitmap <=> list = Live /\ Tiles(bitmap, Live, num, total)
<1>1. ASSUME HeadersTileBitmap PROVE list = Live /\ Tiles(bitmap, Live, num, total)
  BY <1>1 DEF HeadersTileBitmap, Tiles
<1>2. ASSUME list = Live, Tiles(bitmap, Live, num, total) PROVE HeadersTileBitmap
  <2>1. bitmap = UNION {Extent(b, num[b]) : b \in Live}
    BY <1>2 DEF Tiles
  <2>2. \A b, c \in Live : b # c => Extent(b, num[b]) \cap Extent(c, num[c]) = {}
    BY <1>2 DEF Tiles
  <2>3. QED
    BY <1>2, <2>1, <2>2 DEF HeadersTileBitmap, Tiles
<1>3. QED
  BY <1>1, <1>2

\* A new extent of blocks nobody has keeps the tiling.
LEMMA TilesAdd ==
  ASSUME NEW bm, NEW L \in SUBSET Block, NEW n \in [Block -> Nat], NEW tot \in Nat,
         Tiles(bm, L, n, tot),
         NEW a \in Block, NEW k \in Nat \ {0}, a + k <= tot,
         \A x \in Extent(a, k) : x \notin bm
  PROVE  /\ a \notin L
         /\ Tiles(bm \cup Extent(a, k), L \cup {a}, [n EXCEPT ![a] = k], tot)
<1>1. Block \subseteq Nat /\ a \in Nat /\ k \in Nat /\ k > 0
  BY PoolAssumption DEF Block
<1>2. a \in Extent(a, k)
  BY <1>1 DEF Extent
<1>3. a \notin L
  BY <1>1, <1>2 DEF Tiles, Extent
<1> DEFINE m == [n EXCEPT ![a] = k]
<1>4. m[a] = k /\ \A b \in L : m[b] = n[b]
  BY <1>3
<1>5. \A b \in L \cup {a} : m[b] > 0 /\ b + m[b] <= tot
  BY <1>1, <1>4 DEF Tiles
<1> HIDE DEF m
<1>6. \A x : x \in bm \cup Extent(a, k) <=> \E b \in L \cup {a} : x \in Extent(b, m[b])
  BY <1>4 DEF Tiles
<1>7. \A b, c \in L \cup {a} : \A x \in Extent(b, m[b]) : x \in Extent(c, m[c]) => b = c
  BY <1>4 DEF Tiles
<1>8. QED
  BY <1>3, <1>5, <1>6, <1>7 DEF Tiles, m

\* Taking an extent away takes its blocks, and no others, out of the tiling.
LEMMA TilesRemove ==
  ASSUME NEW bm, NEW L \in SUBSET Block, NEW n \in [Block -> Nat], NEW tot \in Nat,
         Tiles(bm, L, n, tot), NEW a \in L
  PROVE  Tiles(bm \ Extent(a, n[a]), L \ {a}, n, tot)
<1>1. \A x : x \in bm \ Extent(a, n[a]) <=> \E b \in L \ {a} : x \in Extent(b, n[b])
  BY DEF Tiles
<1>2. QED
  BY <1>1 DEF Tiles

\* An extent that grows into blocks nobody has keeps the tiling.
LEMMA TilesGrow ==
  ASSUME NEW bm, NEW L \in SUBSET Block, NEW n \in [Block -> Nat], NEW tot \in Nat,
         Tiles(bm, L, n, tot), NEW a \in L, NEW k \in Nat, k > n[a], a + k <= tot,
         \A x \in Extent(a, k) \ Extent(a, n[a]) : x \notin bm
  PROVE  Tiles(bm \cup (Extent(a, k) \ Extent(a, n[a])), L, [n EXCEPT ![a] = k], tot)
<1> DEFINE bm1 == bm \ Extent(a, n[a])
<1>1. Tiles(bm1, L \ {a}, n, tot)
  BY TilesRemove
<1>2. \A x \in Extent(a, k) : x \notin bm1
  OBVIOUS
<1> DEFINE L1 == L \ {a}
<1>3. a \in Block /\ L1 \in SUBSET Block /\ k \in Nat \ {0}
  OBVIOUS
<1>9. Tiles(bm1, L1, n, tot)
  BY <1>1
<1> HIDE DEF bm1, L1
<1>4. Tiles(bm1 \cup Extent(a, k), L1 \cup {a}, [n EXCEPT ![a] = k], tot)
  BY <1>9, <1>2, <1>3, TilesAdd
<1>5. Extent(a, n[a]) \subseteq Extent(a, k)
  BY <1>3, PoolAssumption DEF Extent, Block
<1>6. bm1 \cup Extent(a, k) = bm \cup (Extent(a, k) \ Extent(a, n[a]))
  BY <1>5 DEF bm1, Tiles
<1>7. L1 \cup {a} = L
  BY DEF L1
<1>8. QED
  BY <1>4, <1>6, <1>7
-----------------------------------------------------------------------------
(* How the steps of one task look to the others.                            *)

\* The heap: what the bitmap, the headers and the holders are about.
SameHeap ==
  /\ UNCHANGED <<total, bitmap, used, num, list, usable>>
  /\ Live' = Live

\* A step that leaves the headers and the bitmap alone keeps what is true of them.
LEMMA SameHeadersKeep ==
  ASSUME IInv, UNCHANGED <<total, bitmap, used, num, list>>, Live' = Live
  PROVE  HeadersTileBitmap' /\ UsedCountsBits'
<1>1. (list = Live /\ Tiles(bitmap, Live, num, total))'
  BY HeadersAreTiles DEF IInv, Tiles
<1>2. HeadersTileBitmap'
  BY <1>1, HeadersAreTiles, PTL
<1>3. QED
  BY <1>2 DEF IInv, UsedCountsBits

LEMMA SameHeapKeeps ==
  ASSUME IInv, SameHeap
  PROVE  HeadersTileBitmap' /\ UsedCountsBits' /\ HeldIsLive'
<1>1. HeadersTileBitmap' /\ UsedCountsBits'
  BY SameHeadersKeep DEF SameHeap
<1>2. HeldIsLive'
  BY DEF IInv, SameHeap, HeldIsLive, Holds
<1>3. QED
  BY <1>1, <1>2

\* What a step of task t leaves alone of the other tasks.
Framed(t) ==
  /\ \A u \in Tasks \ {t} :
       /\ pc'[u] = pc[u] /\ resizing'[u] = resizing[u] /\ want'[u] = want[u]
       /\ at'[u] = at[u] /\ ptr'[u] = ptr[u] /\ usable'[u] = usable[u]
       /\ \A b \in Block : Holds(u, b) => num'[b] = num[b]
  /\ total' \in Nat /\ total <= total'
  /\ t \notin mutex => bitmap' = bitmap

\* The other tasks' findings survive such a step.
LEMMA OthersUndisturbed ==
  ASSUME IInv, NEW t \in Tasks, Framed(t)
  PROVE  \A u \in Tasks \ {t} : LocalsHold(u)'
<1> SUFFICES ASSUME NEW u \in Tasks \ {t}
             PROVE  LocalsHold(u)'
  OBVIOUS
<1>1. LocalsHold(u) /\ at[u] \in Block /\ ptr[u] \in Block
  BY DEF IInv, LocalsConsistent, TypeOK
<1>2. pc[u] = "alloc_mark" => Fits(at[u], want[u])'
  <2>1. pc[u] = "alloc_mark" => bitmap' = bitmap
    BY DEF IInv, MutexExcludes, Framed, InCriticalSection
  <2>2. total \in Nat /\ at[u] \in Nat /\ want[u] \in Nat
    BY <1>1, PoolAssumption DEF IInv, TypeOK, Block
  <2>3. QED
    BY <1>1, <2>1, <2>2 DEF LocalsHold, Fits, IsFree, Framed
<1>3. \A b \in Block : Holds(u, b)' <=> Holds(u, b)
  BY DEF Framed, Holds
<1>4. QED
  BY <1>1, <1>2, <1>3 DEF LocalsHold, Framed, FreeSteps, MoveSteps

\* Payload written inside the extent of a live header keeps every live header.
LEMMA OverwriteKeepsLive ==
  ASSUME IInv, NEW b \in Live, NEW S, S \subseteq Extent(b, num[b]),
         magic' = [x \in Block |-> IF x \in S \ {b} THEN "OTHER" ELSE magic[x]]
  PROVE  /\ Live' = Live
         /\ magic' \in [Block -> {"ALLOCATED", "FREED", "OTHER"}]
<1>1. Tiles(bitmap, Live, num, total)
  BY HeadersAreTiles DEF IInv
<1>2. ASSUME NEW c \in Live PROVE c \in Extent(c, num[c])
  <2>1. c \in Nat /\ num[c] \in Nat
    BY PoolAssumption DEF IInv, TypeOK, Live, Block
  <2>2. num[c] > 0
    BY <1>1 DEF Tiles
  <2>3. QED
    BY <2>1, <2>2 DEF Extent
<1>3. \A c \in Live : c \notin S \ {b}
  BY <1>1, <1>2 DEF Tiles
<1>4. magic' \in [Block -> {"ALLOCATED", "FREED", "OTHER"}]
  BY DEF IInv, TypeOK
<1>5. \A c \in Block : c \in Live' <=> c \in Live
  BY <1>3 DEF Live
<1>6. QED
  BY <1>4, <1>5 DEF Live

LEMMA FillKeepsLive ==
  ASSUME IInv, NEW t \in Tasks, NEW b \in Live, NEW S, S \subseteq Extent(b, num[b]),
         Fill(t, b, S)
  PROVE  /\ Live' = Live
         /\ magic' \in [Block -> {"ALLOCATED", "FREED", "OTHER"}]
         /\ data' \in [Block -> SUBSET Tasks]
<1>1. data' \in [Block -> SUBSET Tasks]
  BY DEF IInv, TypeOK, Fill
<1>2. QED
  BY <1>1, OverwriteKeepsLive DEF Fill

\* A step that leaves the heap alone and is right about its own task is right.
LEMMA QuietStep ==
  ASSUME IInv, NEW t \in Tasks, UNCHANGED <<pool, stale>>,
         TypeOK', MutexExcludes', SameHeap, Framed(t), LocalsHold(t)'
  PROVE  IInv'
<1>1. HeadersTileBitmap' /\ UsedCountsBits' /\ HeldIsLive'
  BY SameHeapKeeps
<1>2. LocalsConsistent'
  BY OthersUndisturbed DEF LocalsConsistent
<1>3. (~booted => total = 0)' /\ \A u \in Tasks : stale'[u] = {}
  BY DEF IInv, pool
<1>4. QED
  BY <1>1, <1>2, <1>3 DEF IInv

-----------------------------------------------------------------------------
(* The steps of psram_pool_alloc_aligned.                                   *)

LEMMA InitHolds == Init => IInv
<1> SUFFICES ASSUME Init PROVE IInv
  OBVIOUS
<1>1. TypeOK
  <2>1. 0 \in Block /\ 0 \in 0 .. MaxBlocks /\ "idle" \in PCs
    BY PoolAssumption DEF Block, PCs
  <2>2. /\ num \in [Block -> Nat]
        /\ magic \in [Block -> {"ALLOCATED", "FREED", "OTHER"}]
        /\ data \in [Block -> SUBSET Tasks]
    BY DEF Init
  <2>3. /\ pc \in [Tasks -> PCs] /\ resizing \in [Tasks -> BOOLEAN]
        /\ want \in [Tasks -> Nat] /\ align \in [Tasks -> Nat \ {0}]
        /\ at \in [Tasks -> Block] /\ ptr \in [Tasks -> Block]
        /\ stale \in [Tasks -> SUBSET Block]
    BY <2>1 DEF Init
  <2>4. usable \in [Tasks -> [Block -> Nat]]
    BY DEF Init
  <2>5. /\ booted \in BOOLEAN /\ initialized \in BOOLEAN
        /\ bitmap \subseteq Block /\ list \subseteq Block /\ mutex \in SUBSET Tasks
    BY DEF Init
  <2>6. total \in 0 .. MaxBlocks /\ used \in Int
    BY <2>1, SMT DEF Init
  <2>7. QED
    BY <2>2, <2>3, <2>4, <2>5, <2>6, Zenon DEF TypeOK
<1>2. MutexExcludes /\ LocalsConsistent /\ HeldIsLive
  BY DEF Init, MutexExcludes, InCriticalSection, LocalsConsistent, LocalsHold,
         HeldIsLive, Holds, FreeSteps, MoveSteps
<1>3. Live = {}
  BY DEF Init, Live
<1>4. HeadersTileBitmap
  BY <1>3 DEF Init, HeadersTileBitmap
<1>5. UsedCountsBits
  BY FS_EmptySet DEF Init, UsedCountsBits
<1>6. QED
  BY <1>1, <1>2, <1>4, <1>5 DEF Init, IInv

LEMMA PoolInitStep ==
  ASSUME IInv, NEW bytes \in PoolSizes, psram_pool_init(bytes)
  PROVE  IInv'
<1>1. total = 0 /\ total' \in 0 .. MaxBlocks /\ booted'
  BY PoolAssumption DEF IInv, psram_pool_init, pool
<1>2. TypeOK'
  BY <1>1 DEF IInv, TypeOK, psram_pool_init, pool, blocks, locals, clients
<1>3. Live' = Live
  BY DEF psram_pool_init, Live
<1>4. MutexExcludes'
  BY DEF IInv, MutexExcludes, psram_pool_init
<1>5. Live = {}
  <2>1. \A b \in Live : num[b] > 0 /\ b + num[b] <= 0
    BY <1>1 DEF IInv, HeadersTileBitmap
  <2>2. \A b \in Live : b \in Nat /\ num[b] \in Nat
    BY PoolAssumption DEF IInv, TypeOK, Live, Block
  <2>3. QED
    BY <2>1, <2>2
<1>6. HeadersTileBitmap'
  BY <1>3, <1>5 DEF IInv, HeadersTileBitmap, psram_pool_init, blocks
<1>7. UsedCountsBits' /\ HeldIsLive'
  BY <1>3 DEF IInv, UsedCountsBits, HeldIsLive, Holds, psram_pool_init, blocks, clients
<1>8. \A u \in Tasks : LocalsHold(u)'
  <2> SUFFICES ASSUME NEW u \in Tasks PROVE LocalsHold(u)'
    OBVIOUS
  <2>1. pc[u] # "alloc_mark"
    <3>1. at[u] \in Nat /\ want[u] \in Nat
      BY PoolAssumption DEF IInv, TypeOK, Block
    <3>2. QED
      BY <1>1, <3>1 DEF IInv, LocalsConsistent, LocalsHold, Fits
  <2>2. QED
    BY <2>1 DEF IInv, LocalsConsistent, LocalsHold, Holds, psram_pool_init, blocks,
                locals, clients
<1>9. QED
  BY <1>1, <1>2, <1>4, <1>6, <1>7, <1>8
  DEF IInv, LocalsConsistent, psram_pool_init, clients

LEMMA AllocCallStep ==
  ASSUME NoWrap, IInv, NEW t \in Tasks, NEW s \in Sizes, NEW a \in Alignments,
         AllocCall(t, s, a)
  PROVE  IInv'
<1>1. NBlocks(s) \in Nat \ {0} /\ AlignBlocks(a) \in Nat \ {0}
  BY NBlocksRoundsUp, AlignIsPositive, PoolAssumption DEF AllocCall
<1>2. TypeOK'
  BY <1>1 DEF IInv, TypeOK, AllocCall, Goto, PCs, pool, blocks, clients
<1>3. MutexExcludes'
  BY DEF IInv, TypeOK, MutexExcludes, AllocCall, Goto, InCriticalSection
<1>4. SameHeap /\ Framed(t)
  BY PoolAssumption DEF IInv, TypeOK, AllocCall, Goto, SameHeap, Framed, Live, pool,
                        blocks, clients
<1>5. LocalsHold(t)'
  BY <1>1 DEF IInv, TypeOK, LocalsConsistent, LocalsHold, AllocCall, Goto, FreeSteps, MoveSteps
<1>6. QED
  BY <1>2, <1>3, <1>4, <1>5, QuietStep DEF AllocCall, clients

LEMMA LockStep ==
  ASSUME IInv, NEW t \in Tasks, Lock(t)
  PROVE  IInv'
<1>1. pc[t] \in {"alloc_take", "free_take", "realloc_take", "max_take", "dump_max"}
  BY DEF Lock, Waiting
<1>2. pc' = [pc EXCEPT ![t] = Waiting[pc[t]]] /\ mutex = {} /\ mutex' = {t}
  BY DEF Lock, Take, Goto
<1>3. /\ pc[t] = "alloc_take" => Waiting[pc[t]] = "alloc_find"
      /\ pc[t] = "free_take" => Waiting[pc[t]] = "free_check"
      /\ pc[t] = "realloc_take" => Waiting[pc[t]] = "realloc_try"
      /\ pc[t] = "max_take" => Waiting[pc[t]] = "max_free"
  BY DEF Waiting
<1>4. pc[t] # "dump_max"
  BY <1>2 DEF IInv, MutexExcludes, InCriticalSection
<1>5. TypeOK'
  BY <1>1, <1>2, <1>3, <1>4
  DEF IInv, TypeOK, Lock, PCs, InCriticalSection, pool, blocks, locals, clients
<1>6. MutexExcludes'
  BY <1>1, <1>2, <1>3, <1>4 DEF IInv, TypeOK, MutexExcludes, InCriticalSection
<1>7. SameHeap /\ Framed(t)
  BY <1>2, PoolAssumption
  DEF IInv, TypeOK, Lock, SameHeap, Framed, Live, pool, blocks, locals, clients
<1>8. LocalsHold(t)'
  BY <1>1, <1>2, <1>3, <1>4
  DEF IInv, TypeOK, LocalsConsistent, LocalsHold, Lock, Holds, FreeSteps, MoveSteps,
      blocks, locals, clients
<1>9. QED
  BY <1>5, <1>6, <1>7, <1>8, QuietStep DEF Lock, clients

\* A task that gives the mutex leaves it free.
LEMMA GiveKeepsMutex ==
  ASSUME IInv, NEW t \in Tasks, pc[t] \in InCriticalSection, Give(t),
         NEW l \in PCs \ InCriticalSection, pc' = [pc EXCEPT ![t] = l]
  PROVE  MutexExcludes'
  BY DEF IInv, TypeOK, MutexExcludes, Give

\* A step that does not touch the mutex may not enter or leave its sections.
LEMMA SameMutexKeeps ==
  ASSUME IInv, NEW t \in Tasks, UNCHANGED mutex, NEW l \in PCs, pc' = [pc EXCEPT ![t] = l],
         l \in InCriticalSection <=> pc[t] \in InCriticalSection
  PROVE  MutexExcludes'
  BY DEF IInv, TypeOK, MutexExcludes

\* The bytes, blocks and labels of a task are of their types.
LEMMA LocalTypes ==
  ASSUME IInv, NEW t \in Tasks
  PROVE  /\ at[t] \in Block /\ ptr[t] \in Block /\ at[t] \in Nat /\ ptr[t] \in Nat
         /\ want[t] \in Nat /\ num[at[t]] \in Nat /\ num[ptr[t]] \in Nat
         /\ total \in Nat /\ total <= MaxBlocks /\ MaxBlocks \in Nat /\ used \in Int
         /\ usable[t][at[t]] \in Nat /\ usable[t][ptr[t]] \in Nat
  BY PoolAssumption DEF IInv, TypeOK, Block

LEMMA AllocFoundStep ==
  ASSUME IInv, NEW t \in Tasks, AllocFound(t)
  PROVE  IInv'
<1> DEFINE b == find_contiguous_free(want[t], align[t])
<1>1. /\ pc[t] = "alloc_find" /\ want[t] \in Nat /\ want[t] > 0
      /\ align[t] \in Nat \ {0} /\ HasFit(want[t], align[t])
  <2>1. align[t] \in Nat \ {0}
    BY DEF IInv, TypeOK
  <2>2. pc[t] = "alloc_find" /\ HasFit(want[t], align[t])
    BY DEF AllocFound, SearchFinds
  <2> QED BY <2>1, <2>2, LocalTypes DEF IInv, LocalsConsistent, LocalsHold
<1>2. b \in Block /\ Fits(b, want[t])
  BY <1>1, FindIsFirstFit DEF RunLength, FitsAligned
<1> HIDE DEF b
<1>3. at' = [at EXCEPT ![t] = b] /\ pc' = [pc EXCEPT ![t] = "alloc_mark"]
  BY DEF AllocFound, SearchFinds, Goto, b
<1>4. TypeOK'
  BY <1>2, <1>3
  DEF IInv, TypeOK, AllocFound, SearchFinds, PCs, InCriticalSection, pool, blocks, clients
<1>5. MutexExcludes'
  BY <1>1, <1>3, SameMutexKeeps DEF AllocFound, SearchFinds, PCs, InCriticalSection
<1>6. SameHeap /\ Framed(t)
  BY <1>3, PoolAssumption
  DEF IInv, TypeOK, AllocFound, SearchFinds, SameHeap, Framed, Live, pool, blocks, clients
<1>7. LocalsHold(t)'
  <2>1. pc'[t] = "alloc_mark" /\ at'[t] = b
    BY <1>3 DEF IInv, TypeOK
  <2>2. Fits(at[t], want[t])'
    BY <2>1, <1>2 DEF Fits, IsFree, AllocFound, SearchFinds, pool, blocks
  <2>3. QED
    BY <2>1, <2>2, <1>1
    DEF IInv, LocalsConsistent, LocalsHold, AllocFound, SearchFinds, Holds, FreeSteps, MoveSteps,
        blocks, clients
<1>8. QED
  BY <1>4, <1>5, <1>6, <1>7, QuietStep DEF AllocFound, SearchFinds, clients

LEMMA AllocNoFitStep ==
  ASSUME IInv, NEW t \in Tasks, AllocNoFit(t)
  PROVE  IInv'
<1>1. pc[t] = "alloc_find" /\ pc' = [pc EXCEPT ![t] = "max_take"] /\ Give(t)
  BY DEF AllocNoFit, SearchFails, Goto
<1>2. TypeOK'
  BY <1>1
  DEF IInv, TypeOK, AllocNoFit, SearchFails, Give, PCs, pool, blocks, locals, clients
<1>3. MutexExcludes'
  BY <1>1, GiveKeepsMutex DEF PCs, InCriticalSection
<1>4. SameHeap /\ Framed(t)
  BY <1>1, PoolAssumption
  DEF IInv, TypeOK, AllocNoFit, SearchFails, SameHeap, Framed, Live, pool, blocks, locals, clients
<1>5. LocalsHold(t)'
  BY <1>1 DEF IInv, TypeOK, LocalsConsistent, LocalsHold, AllocNoFit, SearchFails, Holds, FreeSteps,
              MoveSteps, blocks, locals, clients
<1>6. QED
  BY <1>2, <1>3, <1>4, <1>5, QuietStep DEF AllocNoFit, SearchFails, clients

\* The call returns: none of its locals says anything any more.
LEMMA ReturnTypes ==
  ASSUME IInv, NEW t \in Tasks, Return(t)
  PROVE  /\ pc' \in [Tasks -> PCs] /\ resizing' \in [Tasks -> BOOLEAN]
         /\ want' \in [Tasks -> Nat] /\ align' \in [Tasks -> Nat \ {0}]
         /\ at' \in [Tasks -> Block]
         /\ ptr' \in [Tasks -> Block]
         /\ pc' = [pc EXCEPT ![t] = "idle"]
         /\ LocalsHold(t)'
<1>1. 0 \in Block /\ "idle" \in PCs
  BY PoolAssumption DEF Block, PCs
<1>2. pc'[t] = "idle" /\ ~resizing'[t]
  BY DEF Return, Goto, IInv, TypeOK
<1>3. LocalsHold(t)'
  BY <1>2 DEF LocalsHold, FreeSteps, MoveSteps
<1>4. QED
  BY <1>1, <1>3 DEF Return, Goto, IInv, TypeOK

LEMMA MaxFreeGiveStep ==
  ASSUME IInv, NEW t \in Tasks, MaxFreeGive(t)
  PROVE  IInv'
<1>1. pc[t] = "max_free" /\ Give(t) /\ Return(t)
  BY DEF MaxFreeGive
<1>2. TypeOK'
  BY <1>1, ReturnTypes DEF IInv, TypeOK, MaxFreeGive, Give, pool, blocks, clients
<1>3. MutexExcludes'
  BY <1>1, ReturnTypes, GiveKeepsMutex DEF PCs, InCriticalSection
<1>4. SameHeap /\ Framed(t)
  BY <1>1, PoolAssumption
  DEF IInv, TypeOK, MaxFreeGive, Return, Goto, SameHeap, Framed, Live, pool, blocks, clients
<1>5. QED
  BY <1>1, <1>2, <1>3, <1>4, ReturnTypes, QuietStep DEF MaxFreeGive, clients

\* What a task holds is the extent of a live header.
LEMMA HeldExtent ==
  ASSUME IInv, NEW t \in Tasks, NEW b \in Block, Holds(t, b)
  PROVE  /\ b \in Live /\ b \in Nat /\ num[b] \in Nat /\ num[b] > 0
         /\ b + num[b] <= total /\ Extent(b, num[b]) \subseteq Block
<1>1. b \in Live
  BY DEF IInv, HeldIsLive
<1>2. num[b] > 0 /\ b + num[b] <= total
  BY <1>1 DEF IInv, HeadersTileBitmap
<1>3. b \in Nat /\ num[b] \in Nat /\ total \in 0 .. MaxBlocks /\ MaxBlocks \in Nat
  BY PoolAssumption DEF IInv, TypeOK, Block
<1>4. Extent(b, num[b]) \subseteq Block
  BY <1>2, <1>3 DEF Extent, Block
<1>5. QED
  BY <1>1, <1>2, <1>3, <1>4

LEMMA AllocGiveStep ==
  ASSUME IInv, NEW t \in Tasks, AllocGive(t)
  PROVE  IInv'
<1>1. pc[t] = "alloc_give" /\ Give(t) /\ UNCHANGED <<pool, blocks, usable, stale>>
  BY DEF AllocGive
<1>2. Holds(t, at[t]) /\ usable[t][at[t]] = want[t] /\ num[at[t]] = want[t]
  BY <1>1 DEF IInv, LocalsConsistent, LocalsHold
<1>3. at[t] \in Live
  BY <1>2, LocalTypes, HeldExtent
<1>4. CASE resizing[t] /\ Goto(t, "copy") /\ UNCHANGED <<magic, data, locals>>
  <2>1. pc' = [pc EXCEPT ![t] = "copy"]
    BY <1>4 DEF Goto
  <2>2. TypeOK'
    BY <1>1, <1>4, <2>1 DEF IInv, TypeOK, Give, PCs, pool, blocks, locals
  <2>3. MutexExcludes'
    BY <1>1, <2>1, GiveKeepsMutex DEF PCs, InCriticalSection
  <2>4. SameHeap /\ Framed(t)
    BY <1>1, <1>4, <2>1, PoolAssumption
    DEF IInv, TypeOK, SameHeap, Framed, Live, pool, blocks, locals
  <2>5. LocalsHold(t)'
    BY <1>1, <1>2, <1>4, <2>1
    DEF IInv, TypeOK, LocalsConsistent, LocalsHold, Holds, FreeSteps, MoveSteps, blocks,
        locals
  <2>6. QED
    BY <1>1, <2>2, <2>3, <2>4, <2>5, QuietStep
<1>5. CASE ~resizing[t] /\ Return(t) /\ Fill(t, at[t], Extent(at[t], want[t]))
  <2>1. /\ Live' = Live
        /\ magic' \in [Block -> {"ALLOCATED", "FREED", "OTHER"}]
        /\ data' \in [Block -> SUBSET Tasks]
    BY <1>2, <1>3, <1>5, FillKeepsLive
  <2>2. TypeOK'
    BY <1>1, <1>5, <2>1, ReturnTypes DEF IInv, TypeOK, Give, pool, blocks
  <2>3. MutexExcludes'
    BY <1>1, <1>5, ReturnTypes, GiveKeepsMutex DEF PCs, InCriticalSection
  <2>4. SameHeap /\ Framed(t)
    BY <1>1, <1>5, <2>1, PoolAssumption
    DEF IInv, TypeOK, Return, Goto, SameHeap, Framed, pool, blocks
  <2>5. QED
    BY <1>1, <1>5, <2>2, <2>3, <2>4, ReturnTypes, QuietStep
<1>6. QED
  BY <1>4, <1>5 DEF AllocGive

-----------------------------------------------------------------------------
(* The steps of psram_pool_free that leave the heap alone.                  *)

LEMMA FreeCallStep ==
  ASSUME IInv, NEW t \in Tasks, NEW b \in Block, FreeCall(t, b)
  PROVE  IInv'
<1>1. pc[t] = "idle" /\ pc' = [pc EXCEPT ![t] = "free_take"] /\ Holds(t, b)
  BY DEF FreeCall, Goto, IInv
<1>2. TypeOK'
  BY <1>1 DEF IInv, TypeOK, FreeCall, PCs, pool, blocks, clients
<1>3. MutexExcludes'
  BY <1>1, SameMutexKeeps DEF FreeCall, PCs, InCriticalSection
<1>4. SameHeap /\ Framed(t)
  BY <1>1, PoolAssumption
  DEF IInv, TypeOK, FreeCall, SameHeap, Framed, Live, pool, blocks, clients
<1>5. LocalsHold(t)'
  BY <1>1 DEF IInv, TypeOK, LocalsConsistent, LocalsHold, FreeCall, Holds, FreeSteps,
              MoveSteps, clients
<1>6. QED
  BY <1>2, <1>3, <1>4, <1>5, QuietStep DEF FreeCall, clients

LEMMA FreeCheckStep ==
  ASSUME IInv, NEW t \in Tasks, FreeCheck(t)
  PROVE  IInv'
<1>1. pc[t] = "free_check" /\ UNCHANGED <<pool, blocks, magic, clients>>
  BY DEF FreeCheck
<1>2. CASE magic[ptr[t]] = "ALLOCATED"
  <2>1. pc' = [pc EXCEPT ![t] = "free_clear"] /\ UNCHANGED <<mutex, locals>>
    BY <1>2 DEF FreeCheck, Goto
  <2>2. TypeOK'
    BY <1>1, <2>1 DEF IInv, TypeOK, PCs, InCriticalSection, pool, blocks, locals, clients
  <2>3. MutexExcludes'
    BY <1>1, <2>1, SameMutexKeeps DEF PCs, InCriticalSection
  <2>4. SameHeap /\ Framed(t)
    BY <1>1, <2>1, PoolAssumption
    DEF IInv, TypeOK, SameHeap, Framed, Live, pool, blocks, locals, clients
  <2>5. LocalsHold(t)'
    BY <1>1, <1>2, <2>1
    DEF IInv, TypeOK, LocalsConsistent, LocalsHold, Holds, FreeSteps, MoveSteps, blocks, locals,
        clients
  <2> QED BY <1>1, <2>2, <2>3, <2>4, <2>5, QuietStep DEF clients
<1>3. CASE magic[ptr[t]] # "ALLOCATED"
  <2>1. Give(t) /\ Return(t)
    BY <1>3 DEF FreeCheck
  <2>2. TypeOK'
    BY <1>1, <2>1, ReturnTypes DEF IInv, TypeOK, Give, pool, blocks, clients
  <2>3. MutexExcludes'
    BY <1>1, <2>1, ReturnTypes, GiveKeepsMutex DEF PCs, InCriticalSection
  <2>4. SameHeap /\ Framed(t)
    BY <1>1, <2>1, PoolAssumption
    DEF IInv, TypeOK, Return, Goto, SameHeap, Framed, Live, pool, blocks, clients
  <2> QED BY <1>1, <2>1, <2>2, <2>3, <2>4, ReturnTypes, QuietStep DEF clients
<1> QED BY <1>2, <1>3

LEMMA FreeGiveStep ==
  ASSUME IInv, NEW t \in Tasks, FreeGive(t)
  PROVE  IInv'
<1>1. /\ pc[t] = "free_give" /\ Give(t) /\ Return(t)
      /\ UNCHANGED <<pool, blocks, usable, stale>>
  BY DEF FreeGive
<1>2. /\ Live' = Live
      /\ magic' \in [Block -> {"ALLOCATED", "FREED", "OTHER"}]
      /\ data' \in [Block -> SUBSET Tasks]
  <2> DEFINE S == Extent(at[t], want[t]) \ Extent(at[t], num[ptr[t]])
  <2>1. CASE resizing[t] /\ Fill(t, at[t], S)
    <3>1. Holds(t, at[t]) /\ num[at[t]] = want[t]
      BY <1>1, <2>1 DEF IInv, LocalsConsistent, LocalsHold, FreeSteps
    <3>2. at[t] \in Live /\ S \subseteq Extent(at[t], num[at[t]])
      BY <3>1, LocalTypes, HeldExtent
    <3>3. QED
      BY <2>1, <3>2, FillKeepsLive
  <2>2. CASE UNCHANGED <<magic, data>>
    BY <2>2 DEF IInv, TypeOK, Live
  <2>3. QED
    BY <2>1, <2>2 DEF FreeGive
<1>3. TypeOK'
  BY <1>1, <1>2, ReturnTypes DEF IInv, TypeOK, Give, pool, blocks
<1>4. MutexExcludes'
  BY <1>1, ReturnTypes, GiveKeepsMutex DEF PCs, InCriticalSection
<1>5. SameHeap /\ Framed(t)
  BY <1>1, <1>2, PoolAssumption
  DEF IInv, TypeOK, Return, Goto, SameHeap, Framed, pool, blocks
<1>6. QED
  BY <1>1, <1>3, <1>4, <1>5, ReturnTypes, QuietStep

-----------------------------------------------------------------------------
(* The steps of psram_pool_realloc and psram_pool_dump_stats that leave the  *)
(* heap alone.                                                               *)

LEMMA ReallocCallStep ==
  ASSUME NoWrap, IInv, NEW t \in Tasks, NEW b \in Block, NEW s \in Sizes,
         ReallocCall(t, b, s)
  PROVE  IInv'
<1>1. pc[t] = "idle" /\ pc' = [pc EXCEPT ![t] = "realloc_take"] /\ Holds(t, b)
  BY DEF ReallocCall, Goto
<1>2. num[b] \in Nat /\ num[b] > 0
  BY <1>1, HeldExtent
<1>3. s \in Nat /\ s # 0
  <2>1. num[b] * BlockSize >= BlockSize
    BY <1>2, PoolAssumption
  <2>2. QED
    BY <2>1, <1>2, PoolAssumption DEF ReallocCall, UserSize
<1>4. NBlocks(s) \in Nat /\ NBlocks(s) > num[b]
  BY <1>2, <1>3, NBlocksRoundsUp DEF ReallocCall, UserSize
<1>5. TypeOK'
  BY <1>1, <1>4 DEF IInv, TypeOK, ReallocCall, PCs, pool, blocks, clients
<1>6. MutexExcludes'
  BY <1>1, SameMutexKeeps DEF ReallocCall, PCs, InCriticalSection
<1>7. SameHeap /\ Framed(t)
  BY <1>1, PoolAssumption
  DEF IInv, TypeOK, ReallocCall, SameHeap, Framed, Live, pool, blocks, clients
<1>8. LocalsHold(t)'
  BY <1>1, <1>4 DEF IInv, TypeOK, LocalsHold, ReallocCall, Holds, FreeSteps, MoveSteps,
                    blocks, clients
<1>9. QED
  BY <1>5, <1>6, <1>7, <1>8, QuietStep DEF ReallocCall, clients

LEMMA ReallocMoveStep ==
  ASSUME IInv, NEW t \in Tasks, ReallocMove(t)
  PROVE  IInv'
<1>1. pc[t] = "realloc_try" /\ pc' = [pc EXCEPT ![t] = "alloc_take"] /\ Give(t)
  BY DEF ReallocMove, Goto, AfterGive
<1>2. resizing[t] /\ Holds(t, ptr[t]) /\ num[ptr[t]] < want[t]
  BY <1>1 DEF IInv, LocalsConsistent, LocalsHold, MoveSteps
<1>3. TypeOK'
  BY <1>1, AlignIsPositive, PoolAssumption DEF IInv, TypeOK, ReallocMove, Give, PCs, pool, blocks, locals, clients
<1>4. MutexExcludes'
  BY <1>1, GiveKeepsMutex DEF PCs, InCriticalSection
<1>5. SameHeap /\ Framed(t)
  BY <1>1, PoolAssumption
  DEF IInv, TypeOK, ReallocMove, SameHeap, Framed, Live, pool, blocks, locals, clients
<1>6. LocalsHold(t)'
  BY <1>1, <1>2, LocalTypes
  DEF IInv, TypeOK, LocalsHold, ReallocMove, Holds, FreeSteps, MoveSteps, blocks, locals,
      clients
<1>7. QED
  BY <1>3, <1>4, <1>5, <1>6, QuietStep DEF ReallocMove, clients

LEMMA CopyStep ==
  ASSUME IInv, NEW t \in Tasks, Copy(t)
  PROVE  IInv'
<1>1. pc[t] = "copy" /\ pc' = [pc EXCEPT ![t] = "free_take"]
  BY DEF Copy, Goto
<1>2. /\ resizing[t]
      /\ Holds(t, at[t]) /\ usable[t][at[t]] = want[t] /\ num[at[t]] = want[t]
      /\ Holds(t, ptr[t]) /\ num[ptr[t]] < want[t]
  BY <1>1 DEF IInv, LocalsConsistent, LocalsHold, MoveSteps
<1>3. at[t] \in Live /\ Moved(t) \subseteq Extent(at[t], num[at[t]])
  BY <1>2, LocalTypes, HeldExtent DEF Moved, Extent
<1>4. Live' = Live /\ magic' \in [Block -> {"ALLOCATED", "FREED", "OTHER"}]
  BY <1>3, OverwriteKeepsLive DEF Copy
<1>5. data' \in [Block -> SUBSET Tasks]
  <2>1. \A x \in Moved(t) : x - at[t] + ptr[t] \in Extent(ptr[t], num[ptr[t]])
    BY LocalTypes DEF Moved, Extent
  <2>2. \A x \in Moved(t) : x - at[t] + ptr[t] \in Block
    BY <1>2, <2>1, LocalTypes, HeldExtent
  <2>3. QED
    BY <2>2 DEF Copy, IInv, TypeOK
<1>6. TypeOK'
  BY <1>1, <1>4, <1>5 DEF IInv, TypeOK, Copy, PCs, pool, blocks, locals
<1>7. MutexExcludes'
  BY <1>1, SameMutexKeeps DEF Copy, PCs, InCriticalSection
<1>8. SameHeap /\ Framed(t)
  BY <1>1, <1>4, PoolAssumption
  DEF IInv, TypeOK, Copy, SameHeap, Framed, pool, blocks, locals
<1>9. LocalsHold(t)'
  BY <1>1, <1>2
  DEF IInv, TypeOK, LocalsHold, Copy, Holds, FreeSteps, MoveSteps, blocks, locals
<1>10. QED
  BY <1>6, <1>7, <1>8, <1>9, QuietStep DEF Copy

LEMMA DumpStatsStep ==
  ASSUME IInv, NEW t \in Tasks, DumpStats(t)
  PROVE  IInv'
<1>1. /\ pc[t] = "idle" /\ pc' = [pc EXCEPT ![t] = "dump_max"]
      /\ mutex = {} /\ mutex' = {t}
  BY DEF DumpStats, Goto, Take
<1>2. TypeOK'
  BY <1>1 DEF IInv, TypeOK, DumpStats, PCs, InCriticalSection, pool, blocks, locals, clients
<1>3. MutexExcludes'
  BY <1>1 DEF IInv, TypeOK, MutexExcludes, InCriticalSection
<1>4. SameHeap /\ Framed(t)
  BY <1>1, PoolAssumption
  DEF IInv, TypeOK, DumpStats, SameHeap, Framed, Live, pool, blocks, locals, clients
<1>5. LocalsHold(t)'
  BY <1>1 DEF IInv, TypeOK, LocalsConsistent, LocalsHold, DumpStats, FreeSteps, MoveSteps,
              locals
<1>6. QED
  BY <1>2, <1>3, <1>4, <1>5, QuietStep DEF DumpStats, clients

-----------------------------------------------------------------------------
(* The steps that change the heap: the marking and the clearing of an        *)
(* allocation and its growth in place.                                       *)

\* An extent has as many blocks as it is long, and blocks can be counted.
LEMMA ExtentSize ==
  ASSUME NEW b \in Nat, NEW n \in Nat
  PROVE  IsFiniteSet(Extent(b, n)) /\ Cardinality(Extent(b, n)) = n
  BY FS_Interval DEF Extent

LEMMA BlocksFinite ==
  ASSUME NEW S \in SUBSET Block
  PROVE  IsFiniteSet(S)
<1>1. IsFiniteSet(Block)
  BY FS_Interval, PoolAssumption DEF Block
<1>2. QED
  BY <1>1, FS_Subset

\* Adding blocks that are not there counts them all.
LEMMA CountAdded ==
  ASSUME NEW S \in SUBSET Block, NEW b \in Nat, NEW n \in Nat,
         \A x \in Extent(b, n) : x \notin S
  PROVE  Cardinality(S \cup Extent(b, n)) = Cardinality(S) + n
<1>1. S \cap Extent(b, n) = {} /\ IsFiniteSet(S)
  BY BlocksFinite
<1>2. IsFiniteSet(Extent(b, n)) /\ Cardinality(Extent(b, n)) = n
  BY ExtentSize
<1>3. Cardinality(S) \in Nat
  BY <1>1, FS_CardinalityType
<1>4. Cardinality(S \cup Extent(b, n)) = Cardinality(S) + Cardinality(Extent(b, n)) - Cardinality({})
  BY <1>1, <1>2, FS_Union
<1>5. QED
  BY <1>2, <1>3, <1>4, FS_EmptySet

\* Taking away blocks that are all there uncounts them all.
LEMMA CountRemoved ==
  ASSUME NEW S \in SUBSET Block, NEW b \in Nat, NEW n \in Nat, Extent(b, n) \subseteq S
  PROVE  Cardinality(S \ Extent(b, n)) = Cardinality(S) - n
<1>1. S \cap Extent(b, n) = Extent(b, n) /\ IsFiniteSet(S)
  BY BlocksFinite
<1>2. Cardinality(Extent(b, n)) = n
  BY ExtentSize
<1>3. Cardinality(S \ Extent(b, n)) = Cardinality(S) - Cardinality(S \cap Extent(b, n))
  BY <1>1, FS_Difference
<1>4. QED
  BY <1>1, <1>2, <1>3

LEMMA AllocMarkStep ==
  ASSUME IInv, NEW t \in Tasks, AllocMark(t)
  PROVE  IInv'
<1> DEFINE a == at[t]
           k == want[t]
<1>1. /\ pc[t] = "alloc_mark" /\ pc' = [pc EXCEPT ![t] = "alloc_give"]
      /\ bitmap' = bitmap \cup Extent(a, k) /\ used' = used + k
      /\ num' = [num EXCEPT ![a] = k] /\ magic' = [magic EXCEPT ![a] = "ALLOCATED"]
      /\ list' = list \cup {a} /\ usable' = [usable EXCEPT ![t][a] = k]
      /\ stale' = [stale EXCEPT ![t] = @ \ {a}]
      /\ UNCHANGED <<pool, mutex, locals, data>>
  BY DEF AllocMark, Goto
<1>2. a \in Block /\ a \in Nat /\ k \in Nat \ {0} /\ Fits(a, k)
  BY <1>1, LocalTypes DEF IInv, LocalsConsistent, LocalsHold
<1> HIDE DEF a, k
<1>3. a + k <= total /\ \A x \in Extent(a, k) : x \notin bitmap
  BY <1>2 DEF Fits, IsFree
<1>4. list = Live /\ Tiles(bitmap, Live, num, total)
  BY HeadersAreTiles DEF IInv
<1>5. /\ a \notin Live
      /\ Tiles(bitmap \cup Extent(a, k), Live \cup {a}, [num EXCEPT ![a] = k], total)
  <2>1. Live \in SUBSET Block /\ num \in [Block -> Nat] /\ total \in Nat
    BY DEF IInv, TypeOK, Live
  <2>2. QED
    BY <1>2, <1>3, <1>4, <2>1, TilesAdd
<1>6. Live' = Live \cup {a}
  BY <1>1, <1>2 DEF IInv, TypeOK, Live
<1>7. HeadersTileBitmap'
  <2>1. (list = Live /\ Tiles(bitmap, Live, num, total))'
    BY <1>1, <1>4, <1>5, <1>6 DEF pool
  <2>2. QED
    BY <2>1, HeadersAreTiles, PTL
<1>8. UsedCountsBits'
  BY <1>1, <1>2, <1>3, CountAdded DEF IInv, TypeOK, UsedCountsBits
<1>9. TypeOK'
  <2>1. Extent(a, k) \subseteq Block
    BY <1>2, <1>3, LocalTypes DEF Extent, Block
  <2>2. used' \in Int
    BY <1>1, <1>2, LocalTypes
  <2>3. QED
    BY <1>1, <1>2, <2>1, <2>2
    DEF IInv, TypeOK, PCs, InCriticalSection, pool, locals
<1>10. MutexExcludes'
  BY <1>1, SameMutexKeeps DEF PCs, InCriticalSection
<1>11. \A u \in Tasks : ~Holds(u, a)
  BY <1>2, <1>5, HeldExtent
<1>12. HeldIsLive'
  <2> SUFFICES ASSUME NEW u \in Tasks, NEW b \in Block, Holds(u, b)'
               PROVE  /\ b \in Live' /\ usable'[u][b] <= num'[b]
                      /\ \A v \in Tasks \ {u} : ~Holds(v, b)'
    BY DEF HeldIsLive
  <2>1. CASE b = a
    BY <2>1, <1>1, <1>2, <1>6, <1>11 DEF IInv, TypeOK, Holds
  <2>2. CASE b # a
    BY <2>2, <1>1, <1>2, <1>6 DEF IInv, TypeOK, Holds, HeldIsLive
  <2>3. QED
    BY <2>1, <2>2
<1>13. Framed(t)
  BY <1>1, <1>2, <1>11, LocalTypes
  DEF IInv, TypeOK, Framed, MutexExcludes, InCriticalSection, pool, locals
<1>14. LocalsHold(t)'
  <2>1. usable'[t][a] = k /\ k > 0 /\ num'[a] = k
    BY <1>1, <1>2 DEF IInv, TypeOK
  <2>2. resizing[t] => usable'[t][ptr[t]] > 0 /\ num'[ptr[t]] < k
    <3>1. resizing[t] => Holds(t, ptr[t]) /\ num[ptr[t]] < k
      BY <1>1 DEF IInv, LocalsConsistent, LocalsHold, MoveSteps, k
    <3>2. Holds(t, ptr[t]) => ptr[t] # a
      BY <1>11
    <3>3. QED
      BY <3>1, <3>2, <1>1, <1>2, LocalTypes DEF IInv, TypeOK, Holds, locals
  <2>3. pc'[t] = "alloc_give" /\ UNCHANGED <<locals>>
    BY <1>1 DEF IInv, TypeOK
  <2>4. QED
    BY <2>1, <2>2, <2>3 DEF LocalsHold, FreeSteps, MoveSteps, Holds, locals, a, k
<1>15. LocalsConsistent'
  BY <1>13, <1>14, OthersUndisturbed DEF LocalsConsistent
<1>16. (~booted => total = 0)' /\ \A u \in Tasks : stale'[u] = {}
  BY <1>1 DEF IInv, TypeOK, pool
<1>17. QED
  BY <1>7, <1>8, <1>9, <1>10, <1>12, <1>15, <1>16 DEF IInv

LEMMA FreeClearStep ==
  ASSUME DoubleFrees = FALSE, IInv, NEW t \in Tasks, FreeClear(t)
  PROVE  IInv'
<1> DEFINE a == ptr[t]
<1>1. /\ pc[t] = "free_clear" /\ pc' = [pc EXCEPT ![t] = "free_give"]
      /\ bitmap' = bitmap \ Extent(a, num[a]) /\ used' = used - num[a]
      /\ list' = list \ {a} /\ magic' = [magic EXCEPT ![a] = "FREED"]
      /\ usable' = [usable EXCEPT ![t][a] = 0]
      /\ stale' = [stale EXCEPT ![t] = @]
      /\ UNCHANGED <<pool, num, mutex, locals, data>>
  BY DEF FreeClear, Goto, Poison
<1>2. Holds(t, a) /\ a \in Block /\ a \in Nat /\ num[a] \in Nat
  BY <1>1, LocalTypes DEF IInv, LocalsConsistent, LocalsHold, FreeSteps
<1> HIDE DEF a
<1>3. a \in Live /\ \A u \in Tasks \ {t} : ~Holds(u, a)
  BY <1>2 DEF IInv, HeldIsLive
<1>4. list = Live /\ Tiles(bitmap, Live, num, total)
  BY HeadersAreTiles DEF IInv
<1>5. Live' = Live \ {a}
  BY <1>1, <1>2 DEF IInv, TypeOK, Live
<1>6. HeadersTileBitmap'
  <2>1. Live \in SUBSET Block /\ num \in [Block -> Nat] /\ total \in Nat
    BY DEF IInv, TypeOK, Live
  <2>2. Tiles(bitmap \ Extent(a, num[a]), Live \ {a}, num, total)
    BY <1>3, <1>4, <2>1, TilesRemove
  <2>3. (list = Live /\ Tiles(bitmap, Live, num, total))'
    BY <1>1, <1>4, <1>5, <2>2 DEF pool
  <2>4. QED
    BY <2>3, HeadersAreTiles, PTL
<1>7. UsedCountsBits'
  <2>1. Extent(a, num[a]) \subseteq bitmap
    BY <1>3, <1>4 DEF Tiles
  <2>2. QED
    BY <1>1, <1>2, <2>1, CountRemoved DEF IInv, TypeOK, UsedCountsBits
<1>8. TypeOK'
  <2>1. used' \in Int
    BY <1>1, <1>2, LocalTypes
  <2>2. QED
    BY <1>1, <1>2, <2>1 DEF IInv, TypeOK, PCs, InCriticalSection, pool, locals
<1>9. MutexExcludes'
  BY <1>1, SameMutexKeeps DEF PCs, InCriticalSection
<1>10. HeldIsLive'
  <2> SUFFICES ASSUME NEW u \in Tasks, NEW b \in Block, Holds(u, b)'
               PROVE  /\ b \in Live' /\ usable'[u][b] <= num'[b]
                      /\ \A v \in Tasks \ {u} : ~Holds(v, b)'
    BY DEF HeldIsLive
  <2>1. b # a
    BY <1>1, <1>2, <1>3 DEF IInv, TypeOK, Holds
  <2>2. QED
    BY <2>1, <1>1, <1>2, <1>5 DEF IInv, TypeOK, Holds, HeldIsLive
<1>11. Framed(t)
  BY <1>1, <1>2, LocalTypes
  DEF IInv, TypeOK, Framed, MutexExcludes, InCriticalSection, pool, locals
<1>12. LocalsHold(t)'
  <2>1. pc'[t] = "free_give" /\ UNCHANGED <<locals>>
    BY <1>1 DEF IInv, TypeOK
  <2>2. resizing[t] => (Holds(t, at[t]) /\ usable[t][at[t]] = want[t] /\ num[at[t]] = want[t])'
    <3>1. resizing[t] =>
            /\ Holds(t, at[t]) /\ usable[t][at[t]] = want[t] /\ num[at[t]] = want[t]
            /\ num[a] < want[t]
      BY <1>1 DEF IInv, LocalsConsistent, LocalsHold, FreeSteps, MoveSteps, a
    <3>2. resizing[t] => at[t] # a
      BY <3>1, <1>2, LocalTypes
    <3>3. QED
      BY <3>1, <3>2, <1>1, <1>2, LocalTypes DEF IInv, TypeOK, Holds, locals
  <2>3. QED
    BY <2>1, <2>2 DEF LocalsHold, FreeSteps, MoveSteps, Holds, locals
<1>13. LocalsConsistent'
  BY <1>11, <1>12, OthersUndisturbed DEF LocalsConsistent
<1>14. (~booted => total = 0)' /\ \A u \in Tasks : stale'[u] = {}
  BY <1>1 DEF IInv, TypeOK, pool
<1>15. QED
  BY <1>6, <1>7, <1>8, <1>9, <1>10, <1>13, <1>14 DEF IInv

LEMMA ReallocExpandStep ==
  ASSUME IInv, NEW t \in Tasks, ReallocExpand(t)
  PROVE  IInv'
<1> DEFINE a == ptr[t]
           k == want[t]
           g == k - num[a]
<1>1. /\ pc[t] = "realloc_try" /\ pc' = [pc EXCEPT ![t] = "realloc_give"]
      /\ bitmap' = bitmap \cup (Extent(a, k) \ Extent(a, num[a]))
      /\ used' = used + g
      /\ num' = [num EXCEPT ![a] = k]
      /\ UNCHANGED <<pool, list, magic, mutex, locals, clients>>
  BY DEF ReallocExpand, Goto, Extra, Gained
<1>2. /\ resizing[t] /\ Holds(t, a) /\ a \in Block /\ a \in Nat
      /\ k \in Nat /\ num[a] \in Nat /\ num[a] < k
  BY <1>1, LocalTypes DEF IInv, LocalsConsistent, LocalsHold, MoveSteps
<1>3. \A x \in Extent(a, k) \ Extent(a, num[a]) : x < total /\ x \notin bitmap
  BY DEF ReallocExpand, CanExpand, Extra, IsFree
<1> HIDE DEF a, k
<1>4. a \in Live /\ \A u \in Tasks \ {t} : ~Holds(u, a)
  BY <1>2 DEF IInv, HeldIsLive
<1>5. a + k <= total
  <2>1. a + k - 1 \in Extent(a, k) \ Extent(a, num[a])
    BY <1>2 DEF Extent
  <2>2. QED
    BY <2>1, <1>2, <1>3, LocalTypes
<1>6. list = Live /\ Tiles(bitmap, Live, num, total)
  BY HeadersAreTiles DEF IInv
<1>7. Live' = Live
  BY <1>1 DEF Live
<1>8. HeadersTileBitmap'
  <2>1. Live \in SUBSET Block /\ num \in [Block -> Nat] /\ total \in Nat
    BY DEF IInv, TypeOK, Live
  <2>2. Tiles(bitmap \cup (Extent(a, k) \ Extent(a, num[a])), Live, [num EXCEPT ![a] = k],
              total)
    BY <1>2, <1>3, <1>4, <1>5, <1>6, <2>1, TilesGrow
  <2>3. (list = Live /\ Tiles(bitmap, Live, num, total))'
    BY <1>1, <1>6, <1>7, <2>2 DEF pool
  <2>4. QED
    BY <2>3, HeadersAreTiles, PTL
<1>9. UsedCountsBits'
  <2>1. Extent(a, k) \ Extent(a, num[a]) = Extent(a + num[a], g)
    BY <1>2 DEF Extent
  <2>2. a + num[a] \in Nat /\ g \in Nat
    BY <1>2
  <2>3. \A x \in Extent(a + num[a], g) : x \notin bitmap
    BY <2>1, <1>3
  <2> HIDE DEF g
  <2>4. Cardinality(bitmap \cup Extent(a + num[a], g)) = Cardinality(bitmap) + g
    BY <2>2, <2>3, CountAdded DEF IInv, TypeOK
  <2>5. QED
    BY <1>1, <2>1, <2>4 DEF IInv, UsedCountsBits
<1>10. TypeOK'
  <2>1. Extent(a, k) \subseteq Block
    BY <1>2, <1>5, LocalTypes DEF Extent, Block
  <2>2. used' \in Int
    BY <1>1, <1>2, LocalTypes
  <2>3. QED
    BY <1>1, <1>2, <2>1, <2>2
    DEF IInv, TypeOK, PCs, InCriticalSection, pool, locals, clients
<1>11. MutexExcludes'
  BY <1>1, SameMutexKeeps DEF PCs, InCriticalSection
<1>12. HeldIsLive'
  BY <1>1, <1>2, <1>7 DEF IInv, TypeOK, HeldIsLive, Holds, clients
<1>13. Framed(t)
  BY <1>1, <1>2, <1>4, LocalTypes
  DEF IInv, TypeOK, Framed, MutexExcludes, InCriticalSection, pool, locals, clients
<1>14. LocalsHold(t)'
  <2>1. pc'[t] = "realloc_give" /\ resizing'[t] /\ num'[ptr'[t]] = want'[t]
        /\ usable'[t][ptr'[t]] > 0
    BY <1>1, <1>2 DEF IInv, TypeOK, Holds, locals, clients, a, k
  <2>2. QED
    BY <2>1 DEF LocalsHold, Holds, FreeSteps, MoveSteps
<1>15. LocalsConsistent'
  BY <1>13, <1>14, OthersUndisturbed DEF LocalsConsistent
<1>16. (~booted => total = 0)' /\ \A u \in Tasks : stale'[u] = {}
  BY <1>1 DEF IInv, pool, clients
<1>17. QED
  BY <1>8, <1>9, <1>10, <1>11, <1>12, <1>15, <1>16 DEF IInv

\* A task that only gets to use more or less of what it holds: the end of a
\* realloc in place.
LEMMA ResizedKeeps ==
  ASSUME IInv, NEW t \in Tasks, NEW a \in Block, Holds(t, a),
         NEW k \in Nat \ {0}, k <= num[a],
         usable' = [usable EXCEPT ![t][a] = k],
         UNCHANGED <<pool, blocks, stale>>, Live' = Live,
         TypeOK', MutexExcludes',
         \A u \in Tasks \ {t} :
           /\ pc'[u] = pc[u] /\ resizing'[u] = resizing[u] /\ want'[u] = want[u]
           /\ at'[u] = at[u] /\ ptr'[u] = ptr[u],
         LocalsHold(t)'
  PROVE  IInv'
<1>1. HeadersTileBitmap' /\ UsedCountsBits'
  BY SameHeadersKeep DEF pool, blocks
<1>2. HeldIsLive'
  <2> SUFFICES ASSUME NEW u \in Tasks, NEW b \in Block, Holds(u, b)'
               PROVE  /\ b \in Live' /\ usable'[u][b] <= num'[b]
                      /\ \A v \in Tasks \ {u} : ~Holds(v, b)'
    BY DEF HeldIsLive
  <2>1. \A v \in Tasks, c \in Block : Holds(v, c)' <=> Holds(v, c)
    BY DEF IInv, TypeOK, Holds
  <2>2. Holds(u, b) /\ b \in Live /\ usable[u][b] <= num[b]
    BY <2>1 DEF IInv, HeldIsLive
  <2>3. usable'[u][b] <= num'[b]
    BY <2>2 DEF IInv, TypeOK, blocks
  <2>4. QED
    BY <2>1, <2>2, <2>3 DEF IInv, HeldIsLive
<1>3. Framed(t)
  BY LocalTypes, PoolAssumption DEF IInv, TypeOK, Framed, pool, blocks
<1>4. LocalsConsistent'
  BY <1>3, OthersUndisturbed DEF LocalsConsistent
<1>5. QED
  BY <1>1, <1>2, <1>4 DEF IInv, pool

LEMMA ReallocGiveStep ==
  ASSUME IInv, NEW t \in Tasks, ReallocGive(t)
  PROVE  IInv'
<1>1. /\ pc[t] = "realloc_give" /\ Give(t) /\ Return(t)
      /\ usable' = [usable EXCEPT ![t][ptr[t]] = want[t]]
      /\ UNCHANGED <<pool, blocks, stale>>
  BY DEF ReallocGive
<1>2. Holds(t, ptr[t]) /\ num[ptr[t]] = want[t]
  BY <1>1 DEF IInv, LocalsConsistent, LocalsHold
<1>3. /\ ptr[t] \in Live /\ ptr[t] \in Block
      /\ want[t] \in Nat \ {0} /\ want[t] <= num[ptr[t]]
  BY <1>2, LocalTypes, HeldExtent
<1>4. /\ Live' = Live
      /\ magic' \in [Block -> {"ALLOCATED", "FREED", "OTHER"}]
      /\ data' \in [Block -> SUBSET Tasks]
  <2> DEFINE S == Extent(ptr[t], want[t]) \ Extent(ptr[t], usable[t][ptr[t]])
  <2>1. S \subseteq Extent(ptr[t], num[ptr[t]]) /\ Fill(t, ptr[t], S)
    BY <1>2 DEF ReallocGive
  <2>2. QED
    BY <1>3, <2>1, FillKeepsLive
<1>5. TypeOK'
  BY <1>1, <1>3, <1>4, ReturnTypes DEF IInv, TypeOK, Give, pool, blocks
<1>6. MutexExcludes'
  BY <1>1, ReturnTypes, GiveKeepsMutex DEF PCs, InCriticalSection
<1>7. \A u \in Tasks \ {t} :
        /\ pc'[u] = pc[u] /\ resizing'[u] = resizing[u] /\ want'[u] = want[u]
        /\ at'[u] = at[u] /\ ptr'[u] = ptr[u]
  BY <1>1 DEF IInv, TypeOK, Return, Goto
<1>8. QED
  BY <1>1, <1>2, <1>3, <1>4, <1>5, <1>6, <1>7, ReturnTypes, ResizedKeeps

LEMMA ReallocInPlaceStep ==
  ASSUME NoWrap, IInv, NEW t \in Tasks, NEW b \in Block, NEW s \in Sizes,
         ReallocInPlace(t, b, s)
  PROVE  IInv'
<1> DEFINE k == NBlocks(s)
           S == Extent(b, k) \ Extent(b, usable[t][b])
<1>1. /\ pc[t] = "idle" /\ Holds(t, b) /\ s # 0 /\ s <= UserSize(b)
      /\ usable' = [usable EXCEPT ![t][b] = k] /\ Fill(t, b, S)
      /\ UNCHANGED <<pool, blocks, mutex, pc, locals, stale>>
  BY DEF ReallocInPlace
<1>2. b \in Live /\ num[b] \in Nat
  BY <1>1, HeldExtent
<1>3. k \in Nat \ {0} /\ k <= num[b]
  BY <1>1, <1>2, NBlocksRoundsUp DEF UserSize
<1>4. S \subseteq Extent(b, num[b])
  BY <1>2, <1>3, PoolAssumption DEF Extent, Live, Block
<1> HIDE DEF k, S
<1>5. /\ Live' = Live
      /\ magic' \in [Block -> {"ALLOCATED", "FREED", "OTHER"}]
      /\ data' \in [Block -> SUBSET Tasks]
  BY <1>1, <1>2, <1>4, FillKeepsLive
<1>6. TypeOK'
  BY <1>1, <1>3, <1>5 DEF IInv, TypeOK, pool, blocks, locals
<1>7. MutexExcludes'
  BY <1>1 DEF IInv, MutexExcludes
<1>8. LocalsHold(t)'
  BY <1>1 DEF IInv, LocalsConsistent, LocalsHold, FreeSteps, MoveSteps, locals
<1>9. QED
  BY <1>1, <1>3, <1>5, <1>6, <1>7, <1>8, ResizedKeeps DEF locals

-----------------------------------------------------------------------------
(* The specification.                                                        *)

LEMMA UnchangedKeeps ==
  ASSUME IInv, UNCHANGED vars
  PROVE  IInv'
<1>1. TypeOK' /\ MutexExcludes'
  BY DEF IInv, TypeOK, MutexExcludes, vars, pool, blocks, locals, clients
<1>2. HeadersTileBitmap' /\ UsedCountsBits' /\ HeldIsLive'
  BY SameHeapKeeps DEF vars, pool, blocks, clients, SameHeap, Live
<1>3. LocalsConsistent'
  BY DEF IInv, LocalsConsistent, LocalsHold, Fits, IsFree, Holds, vars, pool, blocks,
         locals, clients
<1>4. QED
  BY <1>1, <1>2, <1>3 DEF IInv, vars, pool, clients

LEMMA NextStep ==
  ASSUME NoWrap, DoubleFrees = FALSE, IInv, [Next]_vars
  PROVE  IInv'
<1>1. CASE UNCHANGED vars
  BY <1>1, UnchangedKeeps
<1>2. ASSUME NEW bytes \in PoolSizes, psram_pool_init(bytes) PROVE IInv'
  BY <1>2, PoolInitStep
<1>3. ASSUME NEW t \in Tasks, Call(t) PROVE IInv'
  <2>1. ASSUME NEW s \in Sizes, AllocRefused(t, s) PROVE IInv'
    BY <2>1, UnchangedKeeps DEF AllocRefused
  <2>2. ASSUME NEW s \in Sizes, NEW a \in Alignments, AllocCall(t, s, a) PROVE IInv'
    BY <2>2, AllocCallStep
  <2>3. ASSUME NEW b \in Block, FreeCall(t, b) PROVE IInv'
    BY <2>3, FreeCallStep
  <2>4. ASSUME NEW b \in Block, NEW s \in Sizes, ReallocInPlace(t, b, s) PROVE IInv'
    BY <2>4, ReallocInPlaceStep
  <2>5. ASSUME NEW b \in Block, NEW s \in Sizes, ReallocCall(t, b, s) PROVE IInv'
    BY <2>5, ReallocCallStep
  <2>6. CASE DumpStats(t)
    BY <2>6, DumpStatsStep
  <2>7. QED
    BY <1>3, <2>1, <2>2, <2>3, <2>4, <2>5, <2>6 DEF Call
<1>4. ASSUME NEW t \in Tasks, Lock(t) PROVE IInv'
  BY <1>4, LockStep
<1>5. ASSUME NEW t \in Tasks, Step(t) PROVE IInv'
  <2>1. CASE AllocFound(t)
    BY <2>1, AllocFoundStep
  <2>2. CASE AllocNoFit(t)
    BY <2>2, AllocNoFitStep
  <2>3. CASE AllocMark(t)
    BY <2>3, AllocMarkStep
  <2>4. CASE AllocGive(t)
    BY <2>4, AllocGiveStep
  <2>5. CASE MaxFreeGive(t)
    BY <2>5, MaxFreeGiveStep
  <2>6. CASE FreeCheck(t)
    BY <2>6, FreeCheckStep
  <2>7. CASE FreeClear(t)
    BY <2>7, FreeClearStep
  <2>8. CASE FreeGive(t)
    BY <2>8, FreeGiveStep
  <2>9. CASE ReallocExpand(t)
    BY <2>9, ReallocExpandStep
  <2>10. CASE ReallocGive(t)
    BY <2>10, ReallocGiveStep
  <2>11. CASE ReallocMove(t)
    BY <2>11, ReallocMoveStep
  <2>12. CASE Copy(t)
    BY <2>12, CopyStep
  <2>13. QED
    BY <1>5, <2>1, <2>2, <2>3, <2>4, <2>5, <2>6, <2>7, <2>8, <2>9, <2>10, <2>11,
       <2>12 DEF Step, Search, Work
<1>6. QED
  BY <1>1, <1>2, <1>3, <1>4, <1>5 DEF Next

\* However the tasks' calls interleave, the strengthened invariant holds: of
\* psram_pool.c as long as sizes do not wrap and no pointer is freed twice.
THEOREM PoolInvariant ==
  ASSUME NoWrap, DoubleFrees = FALSE
  PROVE  Spec => []IInv
<1>1. Init => IInv
  BY InitHolds
<1>2. IInv /\ [Next]_vars => IInv'
  BY NextStep
<1>3. QED
  BY <1>1, <1>2, PTL DEF Spec

\* Types: among them, that the pool has no more blocks than its bitmap bits
\* and that every bit set is of a block of the pool.
THEOREM PoolTypes ==
  ASSUME NoWrap, DoubleFrees = FALSE
  PROVE  Spec => []TypeOK
<1>1. IInv => TypeOK
  BY DEF IInv
<1>2. QED
  BY <1>1, PoolInvariant, PTL

\* The live headers tile the bitmap and are the ones the list links: no block
\* has two owners and no bit is set without one.
THEOREM PoolTiled ==
  ASSUME NoWrap, DoubleFrees = FALSE
  PROVE  Spec => []HeadersTileBitmap
<1>1. IInv => HeadersTileBitmap
  BY DEF IInv
<1>2. QED
  BY <1>1, PoolInvariant, PTL

\* The count psram_pool_free_size reads is the number of set bits.
THEOREM PoolCounted ==
  ASSUME NoWrap, DoubleFrees = FALSE
  PROVE  Spec => []UsedCountsBits
<1>1. IInv => UsedCountsBits
  BY DEF IInv
<1>2. QED
  BY <1>1, PoolInvariant, PTL

\* A pointer that was handed out and not freed is live, large enough and one
\* task's only.
THEOREM PoolHeld ==
  ASSUME NoWrap, DoubleFrees = FALSE
  PROVE  Spec => []HeldIsLive
<1>1. IInv => HeldIsLive
  BY DEF IInv
<1>2. QED
  BY <1>1, PoolInvariant, PTL

\* What a call found out before it gave or took the mutex is so when it goes on.
THEOREM PoolLocals ==
  ASSUME NoWrap, DoubleFrees = FALSE
  PROVE  Spec => []LocalsConsistent
<1>1. IInv => LocalsConsistent
  BY DEF IInv
<1>2. QED
  BY <1>1, PoolInvariant, PTL

\* When one entry of usable is set, only a zero can end a pointer.
LEMMA EndedByZero ==
  ASSUME IInv, NEW u \in Tasks, NEW c \in Block, NEW k \in Nat,
         usable' = [usable EXCEPT ![u][c] = k],
         NEW t \in Tasks, NEW b \in Block, Holds(t, b), ~Holds(t, b)'
  PROVE  t = u /\ b = c /\ k = 0
  BY DEF IInv, TypeOK, Holds

\* The step that ends a pointer is the clearing of that pointer.
LEMMA EndsStep ==
  ASSUME NoWrap, IInv, [Next]_vars, NEW t \in Tasks, NEW b \in Block,
         Holds(t, b), ~Holds(t, b)'
  PROVE  /\ ptr[t] = b
         /\ resizing[t] => Holds(t, at[t]) /\ usable[t][at[t]] >= num[b]
<1>1. usable' # usable
  BY DEF Holds
<1>2. CASE FreeClear(t)
  <2>1. pc[t] = "free_clear" /\ usable' = [usable EXCEPT ![t][ptr[t]] = 0]
    BY <1>2 DEF FreeClear
  <2>2. b = ptr[t]
    BY <2>1, EndedByZero, LocalTypes
  <2>3. resizing[t] =>
          /\ Holds(t, at[t]) /\ usable[t][at[t]] = want[t]
          /\ num[ptr[t]] < want[t]
    BY <2>1 DEF IInv, LocalsConsistent, LocalsHold, FreeSteps, MoveSteps
  <2>4. QED
    BY <2>2, <2>3, LocalTypes
<1>3. ASSUME NEW u \in Tasks, FreeClear(u), u # t PROVE FALSE
  <2> DEFINE c == ptr[u]
  <2>1. c \in Block /\ usable' = [usable EXCEPT ![u][c] = 0]
    BY <1>3, LocalTypes DEF FreeClear
  <2> HIDE DEF c
  <2>2. t = u
    BY <2>1, EndedByZero, Zenon
  <2>3. QED
    BY <1>3, <2>2
<1>4. ASSUME NEW u \in Tasks, AllocMark(u) PROVE FALSE
  <2>1. pc[u] = "alloc_mark" /\ usable' = [usable EXCEPT ![u][at[u]] = want[u]]
    BY <1>4 DEF AllocMark
  <2>2. want[u] > 0
    BY <2>1 DEF IInv, LocalsConsistent, LocalsHold
  <2> DEFINE c == at[u]
             k == want[u]
  <2>3. c \in Block /\ k \in Nat /\ k > 0 /\ usable' = [usable EXCEPT ![u][c] = k]
    BY <2>1, <2>2, LocalTypes
  <2> HIDE DEF c, k
  <2>4. k = 0
    BY <2>3, EndedByZero, Zenon
  <2>5. QED
    BY <2>3, <2>4
<1>5. ASSUME NEW u \in Tasks, ReallocGive(u) PROVE FALSE
  <2>1. pc[u] = "realloc_give" /\ usable' = [usable EXCEPT ![u][ptr[u]] = want[u]]
    BY <1>5 DEF ReallocGive
  <2>2. Holds(u, ptr[u]) /\ want[u] = num[ptr[u]]
    BY <2>1 DEF IInv, LocalsConsistent, LocalsHold
  <2>3. want[u] > 0
    BY <2>2, HeldExtent, LocalTypes
  <2> DEFINE c == ptr[u]
             k == want[u]
  <2>4. c \in Block /\ k \in Nat /\ k > 0 /\ usable' = [usable EXCEPT ![u][c] = k]
    BY <2>1, <2>3, LocalTypes
  <2> HIDE DEF c, k
  <2>5. k = 0
    BY <2>4, EndedByZero, Zenon
  <2>6. QED
    BY <2>4, <2>5
<1>6. ASSUME NEW u \in Tasks, NEW c \in Block, NEW s \in Sizes, ReallocInPlace(u, c, s)
      PROVE  FALSE
  <2> DEFINE k == NBlocks(s)
  <2>1. s # 0 /\ usable' = [usable EXCEPT ![u][c] = k]
    BY <1>6 DEF ReallocInPlace
  <2>2. k \in Nat /\ k # 0
    BY <2>1, NBlocksRoundsUp
  <2> HIDE DEF k
  <2>3. QED
    BY <2>1, <2>2, EndedByZero
<1>7. ASSUME NEW u \in Tasks, Step(u)
      PROVE  AllocMark(u) \/ FreeClear(u) \/ ReallocGive(u)
  BY <1>1, <1>7
  DEF Step, Search, Work, AllocFound, SearchFinds, AllocNoFit, SearchFails, AllocGive,
      MaxFreeGive, FreeCheck,
      FreeGive, ReallocExpand, ReallocMove, Copy, clients
<1>8. ASSUME NEW u \in Tasks, Call(u)
      PROVE  \E c \in Block, s \in Sizes : ReallocInPlace(u, c, s)
  BY <1>1, <1>8
  DEF Call, AllocRefused, AllocCall, FreeCall, ReallocCall, DumpStats,
      clients, vars
<1>9. ~UNCHANGED vars /\ ~(\E bytes \in PoolSizes : psram_pool_init(bytes))
      /\ ~(\E u \in Tasks : Lock(u))
  BY <1>1 DEF vars, clients, psram_pool_init, Lock
<1>10. QED
  BY <1>2, <1>3, <1>4, <1>5, <1>6, <1>7, <1>8, <1>9 DEF Next

\* Only an explicit free, or the last step of a realloc that has moved the
\* payload to an extent at least as large, ends a pointer.
THEOREM PoolPointersEnd ==
  ASSUME NoWrap, DoubleFrees = FALSE
  PROVE  Spec => OnlyFreeEndsPointer
<1>1. IInv /\ [Next]_vars =>
        [\A t \in Tasks, b \in Block :
           Holds(t, b) /\ ~Holds(t, b)' =>
             /\ ptr[t] = b
             /\ resizing[t] => Holds(t, at[t]) /\ usable[t][at[t]] >= num[b]]_vars
  BY EndsStep
<1>2. QED
  BY <1>1, PoolInvariant, PTL DEF Spec, OnlyFreeEndsPointer

-----------------------------------------------------------------------------
(* The payload.                                                              *)

\* How much of pointer b holds t's payload: all of the extent, but nothing of
\* one that is not filled yet, what was copied of one that is not completed
\* yet, and what it had before of one that has just grown.
Written(t, b) ==
  IF pc[t] \in {"alloc_give", "copy"} /\ b = at[t] THEN 0
  ELSE IF resizing[t] /\ pc[t] \in FreeSteps /\ b = at[t] THEN num[ptr[t]]
  ELSE IF pc[t] = "realloc_give" /\ b = ptr[t] THEN usable[t][b]
  ELSE num[b]

Filled(t) ==
  \A b \in Block : Holds(t, b) => \A x \in Extent(b, Written(t, b)) : data[x] = {t}

\* At the end of a move the old header still tells how much was copied.
MovedLess(t) == resizing[t] /\ pc[t] = "free_give" => num[ptr[t]] < want[t]

PayHolds(t) == MovedLess(t) /\ Filled(t)

PayInv == \A t \in Tasks : PayHolds(t)

\* What is written is within the extent.
LEMMA WrittenBounded ==
  ASSUME IInv, NEW t \in Tasks, MovedLess(t), NEW b \in Block, Holds(t, b)
  PROVE  Written(t, b) \in Nat /\ Written(t, b) <= num[b]
<1>1. num[b] \in Nat /\ usable[t][b] \in Nat /\ usable[t][b] <= num[b]
  BY HeldExtent DEF IInv, TypeOK, HeldIsLive
<1>2. num[ptr[t]] \in Nat
  BY LocalTypes
<1>3. resizing[t] /\ pc[t] \in FreeSteps => num[at[t]] = want[t] /\ num[ptr[t]] < want[t]
  BY DEF IInv, LocalsConsistent, LocalsHold, FreeSteps, MoveSteps, MovedLess
<1>4. want[t] \in Nat
  BY LocalTypes
<1> QED BY <1>1, <1>2, <1>3, <1>4 DEF Written

\* Two pointers that are held share no block.
LEMMA HeldDisjoint ==
  ASSUME IInv, NEW t \in Tasks, NEW u \in Tasks, NEW b \in Block, NEW c \in Block,
         Holds(t, b), Holds(u, c), b # c, NEW x \in Extent(b, num[b])
  PROVE  x \notin Extent(c, num[c])
<1>1. b \in Live /\ c \in Live
  BY HeldExtent
<1> QED BY <1>1 DEF IInv, HeadersTileBitmap

\* What a step of t leaves alone of the other tasks' calls and extents, when it
\* writes at most the payload of one pointer of its own.
WritesOwn(t) ==
  /\ \A u \in Tasks \ {t} :
       /\ pc'[u] = pc[u] /\ resizing'[u] = resizing[u] /\ want'[u] = want[u]
       /\ at'[u] = at[u] /\ ptr'[u] = ptr[u] /\ usable'[u] = usable[u]
       /\ \A b \in Block : Holds(u, b) => num'[b] = num[b]
  /\ t \notin mutex => num' = num
  /\ \/ data' = data
     \/ \E c \in Block : /\ Holds(t, c)
                         /\ \A x \in Block \ Extent(c, num[c]) : data'[x] = data[x]

\* Such a step leaves the payload of the others alone.
LEMMA OthersFilled ==
  ASSUME IInv, PayInv, NEW t \in Tasks, WritesOwn(t), NEW u \in Tasks \ {t}
  PROVE  PayHolds(u)'
<1>1. /\ pc'[u] = pc[u] /\ resizing'[u] = resizing[u] /\ want'[u] = want[u]
      /\ at'[u] = at[u] /\ ptr'[u] = ptr[u] /\ usable'[u] = usable[u]
      /\ \A b \in Block : Holds(u, b) => num'[b] = num[b]
  BY DEF WritesOwn
<1>2. MovedLess(u) /\ Filled(u) /\ ptr[u] \in Block /\ at[u] \in Block
  BY LocalTypes DEF PayInv, PayHolds
<1>3. pc[u] \in FreeSteps => num'[ptr[u]] = num[ptr[u]]
  <2>1. CASE pc[u] = "free_give"
    <3>1. u \in mutex /\ t \notin mutex
      BY <2>1 DEF IInv, MutexExcludes, InCriticalSection
    <3> QED BY <3>1 DEF WritesOwn
  <2>2. CASE pc[u] \in FreeSteps \ {"free_give"}
    <3>1. Holds(u, ptr[u])
      BY <2>2 DEF IInv, LocalsConsistent, LocalsHold
    <3> QED BY <3>1, <1>1, <1>2
  <2> QED BY <2>1, <2>2
<1>4. MovedLess(u)'
  BY <1>1, <1>2, <1>3 DEF MovedLess, FreeSteps
<1>5. ASSUME NEW b \in Block, Holds(u, b)' PROVE \A x \in Extent(b, Written(u, b)') : data'[x] = {u}
  <2>1. Holds(u, b)
    BY <1>1, <1>5 DEF Holds
  <2>2. Written(u, b)' = Written(u, b)
    BY <1>1, <1>3, <2>1 DEF Written
  <2>3. ASSUME NEW x \in Extent(b, Written(u, b)) PROVE data'[x] = {u}
    <3>1. data[x] = {u}
      BY <1>2, <2>1 DEF Filled
    <3>2. x \in Extent(b, num[b]) /\ x \in Block
      <4>1. Written(u, b) \in Nat /\ Written(u, b) <= num[b]
        BY <1>2, <2>1, WrittenBounded
      <4>2. b \in Nat /\ num[b] \in Nat /\ Extent(b, num[b]) \subseteq Block
        BY <2>1, HeldExtent
      <4> QED BY <4>1, <4>2 DEF Extent
    <3>3. ASSUME NEW c \in Block, Holds(t, c) PROVE x \notin Extent(c, num[c])
      <4>1. b # c
        BY <2>1, <3>3 DEF IInv, HeldIsLive
      <4> QED BY <4>1, <2>1, <3>2, <3>3, HeldDisjoint
    <3> QED BY <3>1, <3>2, <3>3 DEF WritesOwn
  <2> QED BY <2>2, <2>3
<1> QED BY <1>4, <1>5 DEF PayHolds, Filled, Extent

\* A step that writes no payload keeps the task's own as far as it was written.
LEMMA OwnFilled ==
  ASSUME NEW t \in Tasks, PayHolds(t), data' = data, MovedLess(t)',
         \A b \in Block : Holds(t, b)' => Written(t, b)' = 0 \/ (Holds(t, b) /\ Written(t, b)' = Written(t, b))
  PROVE  PayHolds(t)'
<1>1. ASSUME NEW b \in Block, Holds(t, b)', NEW x \in Extent(b, Written(t, b)')
      PROVE  data'[x] = {t}
  <2>1. Written(t, b)' # 0
    BY <1>1, PoolAssumption DEF Extent, Block
  <2> QED BY <1>1, <2>1 DEF PayHolds, Filled
<1> QED BY <1>1 DEF PayHolds, Filled, Extent

\* The labels at which a task is in the middle of writing.
LEMMA WrittenElsewhere ==
  ASSUME NEW t, NEW b, pc[t] \notin {"alloc_give", "copy", "realloc_give"},
         resizing[t] => pc[t] \notin FreeSteps
  PROVE  Written(t, b) = num[b]
  BY DEF Written

\* The steps that write no payload and mark, clear or grow no extent.
QuietSteps(t) ==
  \/ \E s \in Sizes : AllocRefused(t, s) \/ \E a \in Alignments : AllocCall(t, s, a)
  \/ \E b \in Block : FreeCall(t, b)
  \/ \E b \in Block, s \in Sizes : ReallocCall(t, b, s)
  \/ DumpStats(t) \/ Lock(t) \/ AllocFound(t) \/ AllocNoFit(t) \/ MaxFreeGive(t)
  \/ FreeCheck(t) \/ ReallocMove(t)

LEMMA QuietPay ==
  ASSUME IInv, PayInv, NEW t \in Tasks, QuietSteps(t)
  PROVE  PayInv'
<1> USE DEF IInv, TypeOK, Return, Goto
<1>1. UNCHANGED <<num, data, usable>>
  BY DEF QuietSteps, AllocRefused, AllocCall, FreeCall, ReallocCall, DumpStats,
         Lock, AllocFound, SearchFinds, AllocNoFit, SearchFails, MaxFreeGive,
         FreeCheck, ReallocMove,
         vars, blocks, clients
<1>2. \A u \in Tasks \ {t} :
        /\ pc'[u] = pc[u] /\ resizing'[u] = resizing[u] /\ want'[u] = want[u]
        /\ at'[u] = at[u] /\ ptr'[u] = ptr[u]
  BY DEF QuietSteps, AllocRefused, AllocCall, FreeCall, ReallocCall, DumpStats,
         Lock, AllocFound, SearchFinds, AllocNoFit, SearchFails, MaxFreeGive,
         FreeCheck, ReallocMove,
         vars, locals
<1>3. WritesOwn(t)
  BY <1>1, <1>2 DEF WritesOwn
<1>4. /\ MovedLess(t)'
      /\ \A b \in Block : Holds(t, b) => Written(t, b)' = Written(t, b)
  <2>1. LocalsHold(t) /\ PayHolds(t)
    BY DEF LocalsConsistent, PayInv
  <2>2. CASE UNCHANGED <<pc, locals>>
    BY <2>1, <2>2, <1>1 DEF MovedLess, Written, locals, PayHolds
  <2>3. CASE /\ pc[t] \notin {"alloc_give", "copy", "realloc_give"}
             /\ pc'[t] \notin {"alloc_give", "copy", "realloc_give"}
             /\ resizing[t] => pc[t] \notin FreeSteps
             /\ resizing'[t] => pc'[t] \notin FreeSteps
    <3>1. \A b : Written(t, b) = num[b]
      BY <2>3, WrittenElsewhere
    <3>2. \A b : Written(t, b)' = num'[b]
      BY <2>3 DEF Written
    <3> QED BY <3>1, <3>2, <2>3, <1>1 DEF MovedLess, FreeSteps
  <2>4. CASE pc[t] \in FreeSteps /\ pc'[t] \in FreeSteps \ {"free_give"} /\ UNCHANGED locals
    BY <2>4, <1>1 DEF MovedLess, Written, FreeSteps, locals
  <2>5. CASE \E s \in Sizes : AllocRefused(t, s)
    BY <2>2, <2>5 DEF AllocRefused, vars
  <2>6. CASE \E s \in Sizes, a \in Alignments : AllocCall(t, s, a)
    BY <2>1, <2>3, <2>6 DEF AllocCall, LocalsHold, FreeSteps
  <2>7. CASE \E b \in Block : FreeCall(t, b)
    BY <2>1, <2>3, <2>7 DEF FreeCall, LocalsHold
  <2>8. CASE \E b \in Block, s \in Sizes : ReallocCall(t, b, s)
    BY <2>1, <2>3, <2>8 DEF ReallocCall, LocalsHold, FreeSteps
  <2>9. CASE DumpStats(t)
    BY <2>1, <2>3, <2>9 DEF DumpStats, LocalsHold, FreeSteps, locals
  <2>10. CASE Lock(t)
    BY <2>1, <2>3, <2>4, <2>10 DEF Lock, Waiting, FreeSteps, locals
  <2>11. CASE AllocFound(t)
    BY <2>1, <2>3, <2>11 DEF AllocFound, SearchFinds, FreeSteps
  <2>12. CASE AllocNoFit(t) \/ ReallocMove(t)
    BY <2>1, <2>3, <2>12 DEF AllocNoFit, SearchFails, ReallocMove, FreeSteps, locals, AfterGive
  <2>13. CASE MaxFreeGive(t)
    BY <2>1, <2>3, <2>13 DEF MaxFreeGive, FreeSteps
  <2>14. CASE FreeCheck(t)
    <3>1. magic[ptr[t]] = "ALLOCATED"
      BY <2>1, <2>14, HeldExtent, LocalTypes DEF FreeCheck, LocalsHold, FreeSteps, Live
    <3> QED BY <2>1, <2>4, <2>14, <3>1 DEF FreeCheck, FreeSteps, locals
  <2> QED BY <2>5, <2>6, <2>7, <2>8, <2>9, <2>10, <2>11, <2>12, <2>13, <2>14 DEF QuietSteps
<1>5. \A b \in Block : Holds(t, b)' = Holds(t, b)
  BY <1>1 DEF Holds
<1>6. PayHolds(t)'
  BY <1>1, <1>4, <1>5, OwnFilled DEF PayInv
<1> QED BY <1>3, <1>6, OthersFilled DEF PayInv

\* Nobody holds a block that is free.
LEMMA FreeUnheld ==
  ASSUME IInv, NEW a \in Block, a \notin bitmap, NEW u \in Tasks
  PROVE  ~Holds(u, a)
<1> SUFFICES ASSUME Holds(u, a) PROVE FALSE
  OBVIOUS
<1>1. a \in Live /\ a \in Extent(a, num[a])
  BY HeldExtent DEF Extent
<1> QED BY <1>1 DEF IInv, HeadersTileBitmap

\* Marking makes a pointer that has no payload yet.
LEMMA AllocMarkPay ==
  ASSUME IInv, PayInv, NEW t \in Tasks, AllocMark(t)
  PROVE  PayInv'
<1> DEFINE a == at[t]
           k == want[t]
<1>1. /\ pc[t] = "alloc_mark" /\ pc' = [pc EXCEPT ![t] = "alloc_give"]
      /\ num' = [num EXCEPT ![a] = k] /\ usable' = [usable EXCEPT ![t][a] = k]
      /\ UNCHANGED <<mutex, locals, data>> /\ a \in Block
  BY LocalTypes DEF AllocMark, Goto
<1>2. t \in mutex
  BY <1>1 DEF IInv, MutexExcludes, InCriticalSection
<1>3. \A u \in Tasks : ~Holds(u, a)
  <2>1. want[t] > 0 /\ Fits(a, k) /\ a \in Nat /\ k \in Nat
    BY <1>1, LocalTypes DEF IInv, LocalsConsistent, LocalsHold
  <2>2. a \in Extent(a, k)
    BY <2>1 DEF Extent
  <2>3. a \notin bitmap
    BY <2>1, <2>2 DEF Fits, IsFree
  <2> QED BY <1>1, <2>3, FreeUnheld
<1> HIDE DEF k
<1>4. WritesOwn(t)
  <2>1. \A u \in Tasks \ {t} :
          /\ pc'[u] = pc[u] /\ resizing'[u] = resizing[u] /\ want'[u] = want[u]
          /\ at'[u] = at[u] /\ ptr'[u] = ptr[u] /\ usable'[u] = usable[u]
    BY <1>1 DEF IInv, TypeOK, locals
  <2>2. \A u \in Tasks \ {t}, b \in Block : Holds(u, b) => num'[b] = num[b]
    BY <1>1, <1>3 DEF IInv, TypeOK
  <2> QED BY <1>1, <1>2, <2>1, <2>2 DEF WritesOwn
<1>5. PayHolds(t)'
  <2>1. pc'[t] = "alloc_give" /\ at'[t] = a /\ resizing' = resizing
    BY <1>1 DEF IInv, TypeOK, locals
  <2>2. ASSUME NEW b \in Block, b # a, Holds(t, b)'
        PROVE  Holds(t, b) /\ Written(t, b)' = Written(t, b)
    <3>1. Holds(t, b) /\ num'[b] = num[b]
      BY <1>1, <2>2 DEF IInv, TypeOK, Holds
    <3>2. Written(t, b) = num[b]
      BY <1>1 DEF Written, FreeSteps
    <3>3. Written(t, b)' = num'[b]
      BY <2>1, <2>2 DEF Written, FreeSteps
    <3> QED BY <3>1, <3>2, <3>3
  <2>3. Written(t, a)' = 0
    BY <2>1 DEF Written
  <2>4. MovedLess(t)'
    BY <2>1 DEF MovedLess
  <2>5. ASSUME NEW b \in Block, b = a PROVE Written(t, b)' = 0
    BY <2>1, <2>5 DEF Written
  <2> QED BY <1>1, <2>2, <2>4, <2>5, OwnFilled DEF PayInv
<1> QED BY <1>4, <1>5, OthersFilled DEF PayInv

\* Clearing ends one pointer and touches no payload.
LEMMA FreeClearPay ==
  ASSUME IInv, PayInv, NEW t \in Tasks, FreeClear(t)
  PROVE  PayInv'
<1>1. /\ pc[t] = "free_clear" /\ pc' = [pc EXCEPT ![t] = "free_give"]
      /\ usable' = [usable EXCEPT ![t][ptr[t]] = 0] /\ ptr[t] \in Block
      /\ UNCHANGED <<num, mutex, locals, data>>
  BY LocalTypes DEF FreeClear, Goto
<1>2. WritesOwn(t)
  BY <1>1 DEF IInv, TypeOK, locals, WritesOwn
<1>3. PayHolds(t)'
  <2>1. pc'[t] = "free_give" /\ UNCHANGED locals
    BY <1>1 DEF IInv, TypeOK
  <2>2. MovedLess(t)'
    BY <1>1, <2>1 DEF IInv, LocalsConsistent, LocalsHold, MoveSteps, MovedLess, locals
  <2>3. ASSUME NEW b \in Block, Holds(t, b)' PROVE Holds(t, b)
    BY <1>1, <2>3 DEF IInv, TypeOK, Holds
  <2>4. ASSUME NEW b \in Block PROVE Written(t, b)' = Written(t, b)
    BY <1>1, <2>1 DEF Written, FreeSteps, locals
  <2> QED BY <1>1, <2>2, <2>3, <2>4, OwnFilled DEF PayInv
<1> QED BY <1>2, <1>3, OthersFilled DEF PayInv

\* Growing in place adds blocks that are not written yet.
LEMMA ReallocExpandPay ==
  ASSUME IInv, PayInv, NEW t \in Tasks, ReallocExpand(t)
  PROVE  PayInv'
<1> DEFINE a == ptr[t]
           k == want[t]
<1>1. /\ pc[t] = "realloc_try" /\ pc' = [pc EXCEPT ![t] = "realloc_give"]
      /\ num' = [num EXCEPT ![a] = k] /\ a \in Block
      /\ UNCHANGED <<mutex, locals, usable, data>>
  BY LocalTypes DEF ReallocExpand, Goto, clients
<1>2. t \in mutex /\ Holds(t, a)
  BY <1>1 DEF IInv, MutexExcludes, InCriticalSection, LocalsConsistent, LocalsHold, MoveSteps
<1>3. \A u \in Tasks \ {t} : ~Holds(u, a)
  BY <1>1, <1>2 DEF IInv, HeldIsLive
<1>4. WritesOwn(t)
  <2>1. \A u \in Tasks \ {t} : pc'[u] = pc[u]
    BY <1>1 DEF IInv, TypeOK
  <2>2. \A u \in Tasks \ {t}, b \in Block : Holds(u, b) => num'[b] = num[b]
    BY <1>1, <1>3 DEF IInv, TypeOK
  <2> QED BY <1>1, <1>2, <2>1, <2>2 DEF WritesOwn, locals
<1>5. PayHolds(t)'
  <2>1. pc'[t] = "realloc_give"
    BY <1>1 DEF IInv, TypeOK
  <2>2. MovedLess(t)'
    BY <2>1 DEF MovedLess
  <2>3. ASSUME NEW b \in Block, Holds(t, b)'
        PROVE  \A x \in Extent(b, Written(t, b)') : data'[x] = {t}
    <3>1. Holds(t, b) /\ Written(t, b) = num[b]
      BY <1>1, <2>3 DEF Written, FreeSteps, Holds
    <3>2. \A x \in Extent(b, num[b]) : data'[x] = {t}
      BY <1>1, <3>1 DEF PayInv, PayHolds, Filled
    <3>3. Written(t, b)' = IF b = a THEN usable[t][b] ELSE num[b]
      BY <1>1, <2>1 DEF Written, FreeSteps, IInv, TypeOK, locals
    <3>4. usable[t][b] \in Nat /\ num[b] \in Nat /\ b \in Nat /\ usable[t][b] <= num[b]
      BY <3>1, HeldExtent DEF IInv, TypeOK, HeldIsLive
    <3> QED BY <3>2, <3>3, <3>4 DEF Extent
  <2> QED BY <2>2, <2>3 DEF PayHolds, Filled, Extent
<1> QED BY <1>4, <1>5, OthersFilled DEF PayInv

\* The steps that return with the last blocks of pointer c filled: what the
\* others hold is disjoint, and so is what else the task holds.
LEMMA FillPay ==
  ASSUME IInv, PayInv, NEW t \in Tasks, NEW c \in Block, Holds(t, c), NEW S,
         S \subseteq Extent(c, num[c]), Fill(t, c, S), num' = num,
         \A u \in Tasks \ {t} :
           /\ pc'[u] = pc[u] /\ resizing'[u] = resizing[u] /\ want'[u] = want[u]
           /\ at'[u] = at[u] /\ ptr'[u] = ptr[u] /\ usable'[u] = usable[u],
         pc'[t] = "idle", ~resizing'[t], \A b \in Block : Holds(t, b)' => Holds(t, b),
         \A b \in Block \ {c} : Holds(t, b) => Written(t, b) = num[b],
         \A x \in Extent(c, num[c]) : x \in S \/ x \in Extent(c, Written(t, c))
  PROVE  PayInv'
<1>1. data' = [x \in Block |-> IF x \in S THEN {t} ELSE data[x]]
  BY DEF Fill
<1>2. WritesOwn(t)
  BY <1>1 DEF WritesOwn
<1>3. ASSUME NEW b \in Block PROVE Written(t, b)' = num[b]
  BY DEF Written
<1>4. ASSUME NEW b \in Block, Holds(t, b)', NEW x \in Extent(b, num[b])
      PROVE  data'[x] = {t}
  <2>1. Holds(t, b) /\ x \in Block
    BY <1>4, HeldExtent
  <2>2. CASE b = c
    <3>1. x \in S \/ data[x] = {t}
      BY <1>4, <2>2 DEF PayInv, PayHolds, Filled
    <3> QED BY <1>1, <2>1, <3>1
  <2>3. CASE b # c
    <3>1. data[x] = {t} /\ x \notin S
      BY <1>4, <2>1, <2>3, HeldDisjoint DEF PayInv, PayHolds, Filled
    <3> QED BY <1>1, <2>1, <3>1
  <2> QED BY <2>2, <2>3
<1>5. MovedLess(t)'
  BY DEF MovedLess
<1>6. PayHolds(t)'
  BY <1>3, <1>4, <1>5 DEF PayHolds, Filled, Extent
<1> QED BY <1>2, <1>6, OthersFilled DEF PayInv

\* A call that returns leaves the other tasks' locals alone.
LEMMA ReturnFrames ==
  ASSUME IInv, NEW t \in Tasks, Return(t)
  PROVE  /\ \A u \in Tasks \ {t} :
              /\ pc'[u] = pc[u] /\ resizing'[u] = resizing[u] /\ want'[u] = want[u]
              /\ at'[u] = at[u] /\ ptr'[u] = ptr[u]
         /\ pc'[t] = "idle" /\ ~resizing'[t]
  BY DEF Return, Goto, IInv, TypeOK

LEMMA AllocGivePay ==
  ASSUME IInv, PayInv, NEW t \in Tasks, AllocGive(t)
  PROVE  PayInv'
<1>1. pc[t] = "alloc_give" /\ UNCHANGED <<num, usable>> /\ at[t] \in Block
  BY LocalTypes DEF AllocGive, blocks
<1>2. Holds(t, at[t]) /\ num[at[t]] = want[t]
  BY <1>1 DEF IInv, LocalsConsistent, LocalsHold
<1>3. CASE resizing[t] /\ Goto(t, "copy") /\ UNCHANGED <<magic, data, locals>>
  <2>1. pc'[t] = "copy" /\ \A u \in Tasks \ {t} : pc'[u] = pc[u]
    BY <1>3 DEF IInv, TypeOK, Goto
  <2>2. WritesOwn(t)
    BY <1>1, <1>3, <2>1 DEF WritesOwn, locals
  <2>3. \A b \in Block : Holds(t, b)' = Holds(t, b) /\ Written(t, b)' = Written(t, b)
    BY <1>1, <1>3, <2>1 DEF Written, FreeSteps, Holds, locals
  <2>4. MovedLess(t)'
    BY <2>1 DEF MovedLess
  <2>5. PayHolds(t)'
    BY <1>3, <2>3, <2>4, OwnFilled DEF PayInv
  <2> QED BY <2>2, <2>5, OthersFilled DEF PayInv
<1>4. CASE ~resizing[t] /\ Return(t) /\ Fill(t, at[t], Extent(at[t], want[t]))
  <2>1. \A b \in Block \ {at[t]} : Written(t, b) = num[b]
    BY <1>1 DEF Written, FreeSteps
  <2>2. \A b \in Block : Holds(t, b)' = Holds(t, b)
    BY <1>1 DEF Holds
  <2> QED BY <1>1, <1>2, <1>4, <2>1, <2>2, ReturnFrames, FillPay
<1> QED BY <1>3, <1>4 DEF AllocGive

LEMMA FreeGivePay ==
  ASSUME IInv, PayInv, NEW t \in Tasks, FreeGive(t)
  PROVE  PayInv'
<1>1. /\ pc[t] = "free_give" /\ Return(t) /\ UNCHANGED <<num, usable>>
      /\ at[t] \in Block /\ at[t] \in Nat
  BY LocalTypes DEF FreeGive, blocks
<1>2. \A b \in Block : Holds(t, b)' = Holds(t, b)
  BY <1>1 DEF Holds
<1>3. CASE ~resizing[t] /\ UNCHANGED <<magic, data>>
  <2>1. WritesOwn(t)
    BY <1>1, <1>3, ReturnFrames DEF WritesOwn
  <2>2. \A b \in Block : Written(t, b) = num[b]
    BY <1>1, <1>3 DEF Written
  <2>3. \A b \in Block : Written(t, b)' = num[b]
    BY <1>1, ReturnFrames DEF Written
  <2>4. MovedLess(t)'
    BY <1>1, ReturnFrames DEF MovedLess
  <2>5. PayHolds(t)'
    BY <1>2, <1>3, <2>2, <2>3, <2>4, OwnFilled DEF PayInv
  <2> QED BY <2>1, <2>5, OthersFilled DEF PayInv
<1>4. CASE resizing[t] /\ Fill(t, at[t], Extent(at[t], want[t]) \ Extent(at[t], num[ptr[t]]))
  <2>1. Holds(t, at[t]) /\ num[at[t]] = want[t]
    BY <1>1, <1>4 DEF IInv, LocalsConsistent, LocalsHold, FreeSteps
  <2>2. Written(t, at[t]) = num[ptr[t]] /\ \A b \in Block \ {at[t]} : Written(t, b) = num[b]
    BY <1>1, <1>4 DEF Written, FreeSteps
  <2>3. \A x \in Extent(at[t], num[at[t]]) :
          \/ x \in Extent(at[t], want[t]) \ Extent(at[t], num[ptr[t]])
          \/ x \in Extent(at[t], Written(t, at[t]))
    BY <2>1, <2>2
  <2> QED BY <1>1, <1>2, <1>4, <2>1, <2>2, <2>3, ReturnFrames, FillPay
<1> QED BY <1>3, <1>4 DEF FreeGive

LEMMA ReallocGivePay ==
  ASSUME IInv, PayInv, NEW t \in Tasks, ReallocGive(t)
  PROVE  PayInv'
<1> DEFINE c == ptr[t]
           S == Extent(c, want[t]) \ Extent(c, usable[t][c])
<1>1. /\ pc[t] = "realloc_give" /\ Return(t) /\ Fill(t, c, S) /\ num' = num
      /\ usable' = [usable EXCEPT ![t][c] = want[t]] /\ c \in Block
  BY LocalTypes DEF ReallocGive, blocks
<1>2. Holds(t, c) /\ num[c] = want[t]
  BY <1>1 DEF IInv, LocalsConsistent, LocalsHold
<1>3. /\ \A u \in Tasks \ {t} : usable'[u] = usable[u]
      /\ \A b \in Block \ {c} : Holds(t, b)' = Holds(t, b)
  BY <1>1 DEF IInv, TypeOK, Holds
<1>4. Written(t, c) = usable[t][c] /\ \A b \in Block \ {c} : Written(t, b) = num[b]
  BY <1>1 DEF Written, FreeSteps
<1>5. S \subseteq Extent(c, num[c]) /\ \A x \in Extent(c, num[c]) : x \in S \/ x \in Extent(c, Written(t, c))
  BY <1>2, <1>4
<1> HIDE DEF c, S
<1>6. \A b \in Block : Holds(t, b)' => Holds(t, b)
  BY <1>2, <1>3
<1> QED BY <1>1, <1>2, <1>3, <1>4, <1>5, <1>6, ReturnFrames, FillPay

LEMMA ReallocInPlacePay ==
  ASSUME NoWrap, IInv, PayInv, NEW t \in Tasks, NEW c \in Block, NEW s \in Sizes,
         ReallocInPlace(t, c, s)
  PROVE  PayInv'
<1> DEFINE k == NBlocks(s)
           S == Extent(c, k) \ Extent(c, usable[t][c])
<1>1. /\ pc[t] = "idle" /\ Holds(t, c) /\ s # 0 /\ s <= UserSize(c) /\ Fill(t, c, S)
      /\ usable' = [usable EXCEPT ![t][c] = k] /\ UNCHANGED <<num, pc, locals>>
  BY DEF ReallocInPlace, blocks
<1>2. num[c] \in Nat /\ c \in Nat
  BY <1>1, HeldExtent
<1>3. k \in Nat /\ k <= num[c]
  BY <1>1, <1>2, NBlocksRoundsUp DEF UserSize
<1>4. S \subseteq Extent(c, num[c])
  BY <1>2, <1>3 DEF Extent
<1>5. /\ \A u \in Tasks \ {t} : usable'[u] = usable[u]
      /\ \A b \in Block \ {c} : Holds(t, b)' = Holds(t, b)
  BY <1>1 DEF IInv, TypeOK, Holds
<1>6. ~resizing[t] /\ \A b \in Block : Written(t, b) = num[b]
  BY <1>1 DEF IInv, LocalsConsistent, LocalsHold, Written, FreeSteps
<1>7. \A x \in Extent(c, num[c]) : x \in Extent(c, Written(t, c))
  BY <1>6
<1> HIDE DEF k, S
<1>8. \A b \in Block : Holds(t, b)' => Holds(t, b)
  BY <1>1, <1>5
<1> QED BY <1>1, <1>4, <1>5, <1>6, <1>7, <1>8, FillPay DEF locals

\* The move: the new extent gets as much as the old one had, which is the
\* task's own throughout; no other extent is written.
LEMMA CopyPay ==
  ASSUME IInv, PayInv, NEW t \in Tasks, Copy(t)
  PROVE  PayInv'
<1> DEFINE a == at[t]
           c == ptr[t]
           n == num[c]
<1>1. /\ pc[t] = "copy" /\ pc' = [pc EXCEPT ![t] = "free_take"]
      /\ data' = [b \in Block |-> IF b \in Extent(a, n) THEN data[b - a + c] ELSE data[b]]
      /\ UNCHANGED <<num, usable, locals>>
  BY DEF Copy, Goto, Moved, blocks
<1>2. /\ a \in Block /\ c \in Block /\ a \in Nat /\ c \in Nat /\ n \in Nat /\ resizing[t]
      /\ Holds(t, a) /\ Holds(t, c) /\ num[a] = want[t] /\ n < num[a] /\ num[a] \in Nat
  BY <1>1, LocalTypes DEF IInv, LocalsConsistent, LocalsHold, MoveSteps
<1>3. a # c
  BY <1>2
<1>4. pc'[t] = "free_take" /\ \A u \in Tasks \ {t} : pc'[u] = pc[u]
  BY <1>1 DEF IInv, TypeOK
<1>5. ASSUME NEW b \in Block, b # a PROVE Written(t, b) = num[b] /\ Written(t, b)' = num[b]
  BY <1>1, <1>4, <1>5 DEF Written, FreeSteps, locals
<1>6. Written(t, a)' = n
  BY <1>1, <1>2, <1>4 DEF Written, FreeSteps, locals
<1> HIDE DEF a, c, n
<1>7. \A x \in Extent(a, n) : x \in Extent(a, num[a])
  BY <1>2 DEF Extent
<1>8. WritesOwn(t)
  <2>1. \A x \in Block \ Extent(a, num[a]) : data'[x] = data[x]
    BY <1>1, <1>7
  <2> QED BY <1>1, <1>2, <1>4, <2>1 DEF WritesOwn, locals
<1>9. ASSUME NEW x \in Extent(a, n) PROVE data'[x] = {t}
  <2>1. x - a + c \in Extent(c, num[c]) /\ x \in Block
    BY <1>2, <1>7, HeldExtent DEF Extent, n
  <2>2. data[x - a + c] = {t}
    BY <2>1, <1>2, <1>3, <1>5 DEF PayInv, PayHolds, Filled
  <2> QED BY <2>1, <2>2, <1>1
<1>10. ASSUME NEW b \in Block, b # a, Holds(t, b), NEW x \in Extent(b, num[b])
       PROVE  data'[x] = {t}
  <2>1. data[x] = {t} /\ x \in Block
    BY <1>5, <1>10, HeldExtent DEF PayInv, PayHolds, Filled
  <2>2. x \notin Extent(a, num[a])
    BY <1>2, <1>10, HeldDisjoint
  <2> QED BY <2>1, <2>2, <1>1, <1>7
<1>11. ASSUME NEW b \in Block, Holds(t, b)'
       PROVE  \A x \in Extent(b, Written(t, b)') : data'[x] = {t}
  <2>1. Holds(t, b)
    BY <1>1, <1>11 DEF Holds
  <2>2. CASE b = a
    <3>1. \A d : d = a => Written(t, d)' = n
      BY <1>1, <1>2, <1>4 DEF Written, FreeSteps, locals, a, n, c
    <3> QED BY <2>2, <3>1, <1>9
  <2>3. CASE b # a
    BY <2>1, <2>3, <1>5, <1>10
  <2> QED BY <2>2, <2>3
<1>12. PayHolds(t)'
  BY <1>4, <1>11 DEF PayHolds, Filled, MovedLess, Extent
<1> QED BY <1>8, <1>12, OthersFilled DEF PayInv

LEMMA PayNext ==
  ASSUME NoWrap, IInv, PayInv, [Next]_vars
  PROVE  PayInv'
<1>1. ASSUME UNCHANGED <<num, pc, locals, usable, data>> PROVE PayInv'
  <2>1. \A t \in Tasks, b \in Block :
          Written(t, b)' = Written(t, b) /\ Holds(t, b)' = Holds(t, b)
    BY <1>1 DEF Written, Holds, locals
  <2>2. \A t \in Tasks : MovedLess(t)' = MovedLess(t)
    BY <1>1 DEF MovedLess, locals
  <2> QED BY <1>1, <2>1, <2>2 DEF PayInv, PayHolds, Filled, Extent
<1>2. CASE UNCHANGED vars
  BY <1>1, <1>2 DEF vars, blocks, clients
<1>3. ASSUME NEW bytes \in PoolSizes, psram_pool_init(bytes) PROVE PayInv'
  BY <1>1, <1>3 DEF psram_pool_init, blocks, clients
<1>4. ASSUME NEW t \in Tasks, Call(t) \/ Lock(t) \/ Step(t) PROVE PayInv'
  <2>1. \/ QuietSteps(t)
        \/ \E b \in Block, s \in Sizes : ReallocInPlace(t, b, s)
        \/ AllocMark(t) \/ AllocGive(t) \/ FreeClear(t) \/ FreeGive(t)
        \/ ReallocExpand(t) \/ ReallocGive(t) \/ Copy(t)
    BY <1>4 DEF Call, Step, Search, Work, QuietSteps
  <2> QED BY <2>1, QuietPay, ReallocInPlacePay, AllocMarkPay, AllocGivePay, FreeClearPay,
             FreeGivePay, ReallocExpandPay, ReallocGivePay, CopyPay
<1> QED BY <1>2, <1>3, <1>4 DEF Next

\* Whatever the other tasks allocate, free, grow or move in between, and
\* however often a task's own pointer is moved by psram_pool_realloc, the
\* payload the task wrote is in its blocks whenever it is out of the pool.
THEOREM PoolPayloads ==
  ASSUME NoWrap, DoubleFrees = FALSE
  PROVE  Spec => []PayloadIntact
<1>1. Init => PayInv
  BY DEF Init, PayInv, PayHolds, MovedLess, Filled, Holds
<1>2. IInv /\ PayInv /\ [Next]_vars => PayInv'
  BY PayNext
<1>3. IInv /\ PayInv => PayloadIntact
  <2> SUFFICES ASSUME IInv, PayInv, NEW t \in Tasks, NEW b \in Block, Holds(t, b),
                      pc[t] = "idle", NEW x \in Extent(b, usable[t][b])
               PROVE  data[x] = {t}
    BY DEF PayloadIntact
  <2>1. Written(t, b) = num[b]
    BY DEF Written, FreeSteps
  <2>2. usable[t][b] \in Nat /\ num[b] \in Nat /\ b \in Nat /\ usable[t][b] <= num[b]
    BY HeldExtent DEF IInv, TypeOK, HeldIsLive
  <2>3. x \in Extent(b, num[b])
    BY <2>2 DEF Extent
  <2> QED BY <2>1, <2>3 DEF PayInv, PayHolds, Filled
<1> QED BY <1>1, <1>2, <1>3, PoolInvariant, PTL DEF Spec

-----------------------------------------------------------------------------
(* The pool implements the abstract allocator.                               *)

Extents == {<<b, num[b]>> : b \in Live}

\* The list is the live headers, so a step that keeps it keeps the extents.
LEMMA SameListSameExtents ==
  ASSUME IInv, IInv', UNCHANGED <<num, list>>
  PROVE  Extents' = Extents
  BY DEF IInv, HeadersTileBitmap, Extents

\* Marking an allocation allocates its extent.
LEMMA MarkAllocates ==
  ASSUME IInv, IInv', NEW t \in Tasks, AllocMark(t)
  PROVE  Abstract!Next
<1> DEFINE a == at[t]
           k == want[t]
<1>1. /\ pc[t] = "alloc_mark" /\ num' = [num EXCEPT ![a] = k]
      /\ list' = list \cup {a} /\ total' = total
  BY DEF AllocMark, pool
<1>2. a \in Block /\ a \in Nat /\ k \in Nat \ {0} /\ Fits(a, k)
  BY <1>1, LocalTypes DEF IInv, LocalsConsistent, LocalsHold
<1> HIDE DEF a, k
<1>3. Live' = Live \cup {a} /\ Tiles(bitmap, Live, num, total)
  BY <1>1, HeadersAreTiles DEF IInv, HeadersTileBitmap
<1>4. a + k <= total /\ total \in Nat /\ \A x \in Extent(a, k) : x \notin bitmap
  BY <1>2, LocalTypes DEF Fits, IsFree
<1>5. \A b \in Live : Extent(b, num[b]) \cap Extent(a, k) = {}
  BY <1>3, <1>4 DEF Tiles
<1>6. a \notin Live
  <2>1. a \in Extent(a, k)
    BY <1>2 DEF Extent
  <2>2. ASSUME a \in Live PROVE a \in Extent(a, num[a])
    BY <2>2, <1>2, <1>3 DEF Tiles, IInv, TypeOK, Extent
  <2>3. QED
    BY <2>1, <2>2, <1>5
<1>7. Extents' = Extents \cup {<<a, k>>}
  BY <1>1, <1>2, <1>3, <1>6 DEF Extents, IInv, TypeOK, Live
<1>8. Abstract!Free(<<a, k>>, Extents)
  <2>1. \A e \in Extents : Abstract!Blocks(e) \cap Abstract!Blocks(<<a, k>>) = {}
    BY <1>5 DEF Extents, Extent, Abstract!Blocks
  <2>2. QED
    BY <2>1, <1>2, <1>4 DEF Abstract!Free
<1>9. Abstract!Allocate(a, k)
  BY <1>1, <1>7, <1>8 DEF Abstract!Allocate, Extents
<1>10. a \in 0 .. total - 1 /\ k \in 1 .. total
  BY <1>2, <1>4
<1>11. \E first \in 0 .. total - 1, count \in 1 .. total : Abstract!Allocate(first, count)
  BY <1>9, <1>10, Zenon DEF Abstract!Allocate
<1>12. QED
  BY <1>11, Zenon DEF Abstract!Next

\* Clearing an allocation releases its extent.
LEMMA ClearReleases ==
  ASSUME IInv, IInv', NEW t \in Tasks, FreeClear(t)
  PROVE  Abstract!Next
<1> DEFINE a == ptr[t]
<1>1. pc[t] = "free_clear" /\ list' = list \ {a} /\ UNCHANGED <<num, total>>
  BY DEF FreeClear, pool
<1>2. Holds(t, a) /\ a \in Block
  BY <1>1, LocalTypes DEF IInv, LocalsConsistent, LocalsHold, FreeSteps
<1> HIDE DEF a
<1>3. a \in Live /\ Live' = Live \ {a}
  BY <1>1, <1>2 DEF IInv, HeldIsLive, HeadersTileBitmap
<1> DEFINE e == <<a, num[a]>>
<1>4. e \in Extents /\ Extents' = Extents \ {e}
  BY <1>1, <1>3 DEF Extents
<1>5. Abstract!Release(e)
  BY <1>1, <1>4 DEF Abstract!Release, Extents
<1>6. \E x \in Extents : Abstract!Release(x)
  BY <1>4, <1>5, Zenon DEF Abstract!Release
<1>7. QED
  BY <1>6, Zenon DEF Abstract!Next, Extents

\* Growing an allocation in place grows its extent.
LEMMA ExpandGrows ==
  ASSUME IInv, IInv', NEW t \in Tasks, ReallocExpand(t)
  PROVE  Abstract!Next
<1> DEFINE a == ptr[t]
           k == want[t]
           e == <<a, num[a]>>
<1>1. /\ pc[t] = "realloc_try" /\ num' = [num EXCEPT ![a] = k]
      /\ UNCHANGED <<list, total, magic>>
  BY DEF ReallocExpand, pool
<1>2. /\ Holds(t, a) /\ a \in Block /\ a \in Nat /\ k \in Nat
      /\ num[a] \in Nat /\ num[a] < k
  BY <1>1, LocalTypes DEF IInv, LocalsConsistent, LocalsHold, MoveSteps
<1> HIDE DEF a, k
<1>3. a \in Live /\ Live' = Live
  BY <1>1, <1>2 DEF IInv, HeldIsLive, Live
<1>4. num'[a] = k /\ \A b \in Block \ {a} : num'[b] = num[b]
  BY <1>1, <1>2 DEF IInv, TypeOK
<1>5. /\ a + k <= total
      /\ \A b \in Live \ {a} : Extent(b, num[b]) \cap Extent(a, k) = {}
  BY <1>1, <1>3, <1>4 DEF IInv, HeadersTileBitmap, Live
<1>6. e \in Extents /\ Extents' = (Extents \ {e}) \cup {<<a, k>>}
  BY <1>3, <1>4 DEF Extents, Live
<1>7. Abstract!Free(<<a, k>>, Extents \ {e})
  <2>1. \A x \in Extents \ {e} :
          Abstract!Blocks(x) \cap Abstract!Blocks(<<a, k>>) = {}
    BY <1>5 DEF Extents, Extent, Abstract!Blocks
  <2>2. QED
    BY <2>1, <1>2, <1>5 DEF Abstract!Free
<1>8. Abstract!Grow(e, k)
  BY <1>1, <1>2, <1>6, <1>7 DEF Abstract!Grow, Extents
<1>9. k \in 1 .. total
  BY <1>2, <1>5, LocalTypes
<1>10. \E x \in Extents, count \in 1 .. total : Abstract!Grow(x, count)
  BY <1>6, <1>8, <1>9, Zenon DEF Abstract!Grow
<1>11. QED
  BY <1>10, Zenon DEF Abstract!Next, Extents

LEMMA StepImplements ==
  ASSUME IInv, IInv', [Next]_vars
  PROVE  [Abstract!Next]_<<total, Extents>>
<1>1. CASE UNCHANGED <<num, list, total>>
  BY <1>1, SameListSameExtents
<1>2. ASSUME NEW bytes \in PoolSizes, psram_pool_init(bytes)
      PROVE  [Abstract!Next]_<<total, Extents>>
  <2>1. total = 0 /\ total' \in Nat /\ Extents' = Extents
    BY <1>2, SameListSameExtents DEF psram_pool_init, IInv, TypeOK, blocks
  <2>2. CASE total' = 0
    BY <2>1, <2>2
  <2>3. CASE total' # 0
    BY <2>1, <2>3 DEF Abstract!Next, Abstract!SetUp, Extents
  <2>4. QED
    BY <2>2, <2>3
<1>3. ASSUME NEW t \in Tasks, Call(t)
      PROVE  UNCHANGED <<num, list, total>>
  BY <1>3
  DEF Call, AllocRefused, AllocCall, FreeCall, ReallocInPlace, ReallocCall,
      DumpStats, vars, pool, blocks
<1>4. ASSUME NEW t \in Tasks, Lock(t)
      PROVE  UNCHANGED <<num, list, total>>
  BY <1>4 DEF Lock, pool, blocks
<1>5. ASSUME NEW t \in Tasks, Step(t)
      PROVE  \/ AllocMark(t) \/ FreeClear(t) \/ ReallocExpand(t)
             \/ UNCHANGED <<num, list, total>>
  BY <1>5
  DEF Step, Search, Work, AllocFound, SearchFinds, AllocNoFit, SearchFails, AllocGive,
      MaxFreeGive, FreeCheck,
      FreeGive, ReallocGive, ReallocMove, Copy, pool, blocks
<1>6. UNCHANGED vars => UNCHANGED <<num, list, total>>
  BY DEF vars, pool, blocks
<1>7. QED
  BY <1>1, <1>2, <1>3, <1>4, <1>5, <1>6, MarkAllocates, ClearReleases, ExpandGrows DEF Next

\* The pool with its bitmap, headers and mutex is, to its callers, an
\* allocator of disjoint extents.
THEOREM PoolImplements ==
  ASSUME NoWrap, DoubleFrees = FALSE
  PROVE  Spec => ImplementsBlockPool
<1>1. Init => Abstract!Init
  BY DEF Init, Abstract!Init, Live
<1>2. IInv /\ IInv' /\ [Next]_vars => [Abstract!Next]_<<total, Extents>>
  BY StepImplements
<1>3. QED
  BY <1>1, <1>2, PoolInvariant, PTL
  DEF Spec, ImplementsBlockPool, Abstract!Spec, Extents

-----------------------------------------------------------------------------
(***************************************************************************)
(* The loops over the bitmap, for any pool, any bitmap, any request and    *)
(* any alignment: the search returns the first fit or there is none, and   *)
(* the failure's log line names the longest free run; and the pool with    *)
(* these loops does what the pool with the one-step search does.           *)
(***************************************************************************)
ScanTypes ==
  /\ total_blocks \in Nat /\ bits \subseteq 0 .. total_blocks - 1
  /\ nblocks \in Nat /\ alignment \in Nat \ {0}
  /\ phase \in {"none", "find", "found", "nofit", "max", "done"}
  /\ index \in Nat /\ run_start \in Nat /\ run_len \in Nat
  /\ max_run \in Nat /\ cur_run \in Nat

\* The first block at which the search may still find a run.
Candidate == IF run_len = 0 THEN index ELSE run_start

\* The search: the run so far ends before index, and every aligned block before
\* its start has been ruled out.
SearchInv ==
  phase = "find" =>
    /\ IsAligned(Candidate) /\ run_len < Wanted
    /\ run_len > 0 => FreeRun(run_start, run_len) /\ run_start + run_len = index
    /\ \A b \in 0 .. Candidate - 1 : IsAligned(b) => ~FreeRun(b, Wanted)

\* The longest run: cur_run blocks before index are free, and not one more; of
\* the blocks before it, max_run in a row are free, and never one more.
LongestInv ==
  phase \in {"max", "done"} =>
    /\ index <= total_blocks /\ cur_run <= index
    /\ \A x \in index - cur_run .. index - 1 : x \notin bits
    /\ cur_run < index => index - cur_run - 1 \in bits
    /\ cur_run <= max_run
    /\ \E b \in 0 .. index : b + max_run <= index /\ FreeRun(b, max_run)
    /\ \A b \in 0 .. index : b + max_run + 1 <= index => ~FreeRun(b, max_run + 1)
    /\ phase = "done" => index = total_blocks

ScanInv == ScanTypes /\ SearchInv /\ FoundIsFirstFit /\ FailureIsGenuine /\ LongestInv

-----------------------------------------------------------------------------
(* Rounding up *)

LEMMA ProductMonotone ==
  ASSUME NEW a \in Nat, NEW m \in Nat, NEW n \in Nat, m <= n
  PROVE  a * m <= a * n
<1>1. PICK k \in Nat : n = m + k
  <2>1. n - m \in Nat /\ n = m + (n - m)
    OBVIOUS
  <2> QED BY <2>1
<1>2. a * k >= 0
  OBVIOUS
<1>3. a * (m + k) = a * m + a * k
  OBVIOUS
<1> QED BY <1>1, <1>2, <1>3

LEMMA Division ==
  ASSUME NEW a \in Nat \ {0}, NEW x \in Nat
  PROVE  /\ x \div a \in Nat /\ x % a \in 0 .. a - 1
         /\ x = a * (x \div a) + (x % a)
  OBVIOUS

\* There is only one remainder.
LEMMA Remainder ==
  ASSUME NEW a \in Nat \ {0}, NEW q \in Nat, NEW r \in 0 .. a - 1
  PROVE  (a * q + r) % a = r
<1> DEFINE x == a * q + r
           d == x \div a
<1>1. x \in Nat
  OBVIOUS
<1>2. d \in Nat /\ x % a \in 0 .. a - 1 /\ x = a * d + (x % a)
  BY <1>1, Division
<1>3. x = a * q + r
  OBVIOUS
<1> HIDE DEF x, d
<1>4. CASE d = q
  BY <1>1, <1>2, <1>3, <1>4
<1>5. CASE d > q
  <2>1. q + 1 \in Nat /\ q + 1 <= d
    BY <1>2, <1>5
  <2>2. a * (q + 1) <= a * d
    BY <2>1, <1>2, ProductMonotone
  <2> QED BY <2>2, <1>2, <1>3
<1>6. CASE d < q
  <2>1. d + 1 \in Nat /\ d + 1 <= q
    BY <1>2, <1>6
  <2>2. a * (d + 1) <= a * q
    BY <2>1, ProductMonotone
  <2> QED BY <2>2, <1>2, <1>3
<1>7. (a * q + r) % a = x % a
  BY <1>3
<1> QED BY <1>2, <1>4, <1>5, <1>6, <1>7

\* Rounding up gives the next aligned block: none lies in between.
LEMMA NextAligned ==
  ASSUME NEW x \in Nat, alignment \in Nat \ {0}
  PROVE  /\ AlignUp(x) \in Nat /\ AlignUp(x) >= x /\ IsAligned(AlignUp(x))
         /\ \A b \in x .. AlignUp(x) - 1 : ~IsAligned(b)
<1> DEFINE a == alignment
           q == x \div a
           r == x % a
<1>1. a \in Nat \ {0} /\ q \in Nat /\ r \in 0 .. a - 1 /\ x = a * q + r
  BY Division
<1>2. AlignUp(x) = x + ((a - r) % a)
  BY DEF AlignUp
<1>3. \A b : IsAligned(b) <=> b % a = 0
  BY DEF IsAligned
<1> HIDE DEF a, q, r
<1>4. CASE r = 0
  <2>1. (a * 1 + 0) % a = 0 /\ (a * q + 0) % a = 0
    BY <1>1, Remainder
  <2>2. a - r = a * 1 + 0 /\ x = a * q + 0
    BY <1>1, <1>4
  <2> QED BY <2>1, <2>2, <1>1, <1>2, <1>3
<1>5. CASE r # 0
  <2>1. (a - r) % a = a - r
    <3>1. a - r \in 0 .. a - 1
      BY <1>1, <1>5
    <3>2. (a * 0 + (a - r)) % a = a - r
      BY <3>1, <1>1, Remainder
    <3> QED BY <3>1, <3>2, <1>1
  <2>2. AlignUp(x) = a * (q + 1) + 0 /\ AlignUp(x) = a * q + a /\ q + 1 \in Nat
    BY <2>1, <1>1, <1>2
  <2>3. IsAligned(AlignUp(x))
    BY <2>2, <1>1, <1>3, Remainder
  <2>4. ASSUME NEW b \in x .. AlignUp(x) - 1 PROVE ~IsAligned(b)
    <3> DEFINE k == b - a * q
    <3>1. k \in 1 .. a - 1 /\ b = a * q + k
      BY <1>1, <1>5, <2>2
    <3> HIDE DEF k
    <3>2. (a * q + k) % a = k
      BY <3>1, <1>1, Remainder
    <3> QED BY <3>1, <3>2, <1>3
  <2>5. AlignUp(x) \in Nat /\ AlignUp(x) >= x
    BY <2>2, <1>1
  <2> QED BY <2>3, <2>4, <2>5
<1> QED BY <1>1, <1>4, <1>5

LEMMA WantedNat ==
  ASSUME nblocks \in Nat PROVE Wanted \in Nat /\ Wanted >= 1 /\ Wanted >= nblocks
  BY DEF Wanted

-----------------------------------------------------------------------------
(* The search *)

LEMMA ScanStarts == ScanInit => ScanInv
  BY DEF ScanInit, ScanInv, ScanTypes, SearchInv, FoundIsFirstFit, FailureIsGenuine,
         LongestInv

LEMMA ReturnsStep == ScanInv /\ ScanReturns => ScanInv'
  BY DEF ScanReturns, ScanInv, ScanTypes, SearchInv, FoundIsFirstFit, FailureIsGenuine,
         LongestInv

LEMMA FindBeginsStep ==
  ASSUME ScanInv, NEW tb \in Nat, NEW B \in SUBSET (0 .. tb - 1),
         NEW n \in Nat, NEW a \in Nat \ {0}, FindBegins(tb, B, n, a)
  PROVE  ScanInv'
<1>1. ScanTypes'
  BY DEF ScanInv, ScanTypes, FindBegins, maxi
<1>2. nblocks' \in Nat /\ phase' = "find" /\ index' = 0 /\ run_len' = 0 /\ alignment' = a
  BY DEF FindBegins
<1>3. 0 % a = 0
  <2>1. (a * 0 + 0) % a = 0
    BY Remainder
  <2>2. a * 0 + 0 = 0
    OBVIOUS
  <2> QED BY <2>1, <2>2, Zenon
<1>4. SearchInv'
  BY <1>2, <1>3 DEF SearchInv, IsAligned, Candidate, Wanted
<1> QED BY <1>1, <1>2, <1>4 DEF ScanInv, FoundIsFirstFit, FailureIsGenuine, LongestInv

LEMMA FindFreeStep == ScanInv /\ FindFree => ScanInv'
<1> SUFFICES ASSUME ScanInv, FindFree PROVE ScanInv'
  OBVIOUS
<1> USE DEF ScanInv, FindFree
<1>1. ScanTypes'
  BY DEF ScanTypes, args, request, maxi
<1>2. UNCHANGED <<total_blocks, bits, nblocks, alignment>> /\ Wanted' = Wanted
      /\ \A b, n : FreeRun(b, n)' = FreeRun(b, n) /\ IsAligned(b)' = IsAligned(b)
  BY DEF args, request, Wanted, FreeRun, IsAligned
<1>3. IsAligned(run_start') /\ run_start' = Candidate
  BY DEF SearchInv, Candidate
<1>4. run_start' + run_len' = index + 1
  BY DEF SearchInv, Candidate, ScanTypes
<1>5. FreeRun(run_start', run_len')
  BY <1>4 DEF SearchInv, FreeRun, ScanTypes
<1>6. \A b \in 0 .. run_start' - 1 : IsAligned(b) => ~FreeRun(b, Wanted)
  BY <1>3 DEF SearchInv
<1>7. CASE run_len + 1 >= nblocks
  <2>1. run_len' = Wanted /\ phase' = "found"
    BY <1>7, WantedNat DEF SearchInv, ScanTypes, Wanted
  <2>2. FoundIsFirstFit'
    BY <2>1, <1>2, <1>3, <1>5, <1>6 DEF FoundIsFirstFit
  <2> QED BY <2>1, <2>2, <1>1 DEF SearchInv, FailureIsGenuine, LongestInv
<1>8. CASE run_len + 1 < nblocks
  <2>1. run_len' < Wanted /\ phase' = "find" /\ index' = index + 1 /\ run_len' > 0
    BY <1>8 DEF ScanTypes, Wanted
  <2>2. Candidate' = run_start'
    BY <2>1 DEF Candidate, ScanTypes
  <2>3. SearchInv'
    BY <2>1, <2>2, <1>2, <1>3, <1>4, <1>5, <1>6 DEF SearchInv, maxi
  <2> QED BY <2>1, <2>3, <1>1 DEF FoundIsFirstFit, FailureIsGenuine, LongestInv
<1> QED BY <1>7, <1>8

LEMMA FindUsedStep == ScanInv /\ FindUsed => ScanInv'
<1> SUFFICES ASSUME ScanInv, FindUsed PROVE ScanInv'
  OBVIOUS
<1> USE DEF ScanInv, FindUsed
<1>1. index + 1 \in Nat /\ Wanted \in Nat /\ Wanted >= 1 /\ run_len \in Nat /\ total_blocks \in Nat /\ index \in Nat
  BY WantedNat DEF ScanTypes
<1>2. /\ index' \in Nat /\ index' >= index + 1 /\ IsAligned(index')
      /\ \A b \in index + 1 .. index' - 1 : ~IsAligned(b)
  BY <1>1, NextAligned DEF ScanTypes
<1>3. ScanTypes'
  BY <1>2 DEF ScanTypes, args, request, maxi
<1>4. /\ UNCHANGED <<total_blocks, bits, nblocks, alignment>> /\ Wanted' = Wanted
      /\ \A b, n : FreeRun(b, n)' = FreeRun(b, n) /\ IsAligned(b)' = IsAligned(b)
  BY DEF args, request, Wanted, FreeRun, IsAligned
<1>5. ASSUME NEW b \in 0 .. index' - 1, IsAligned(b) PROVE ~FreeRun(b, Wanted)
  <2>1. CASE b < Candidate
    BY <2>1, <1>1, <1>5 DEF SearchInv, Candidate, ScanTypes
  <2>2. CASE b >= Candidate /\ b <= index
    <3>1. index \in b .. b + Wanted - 1
      <4>1. CASE run_len = 0
        BY <4>1, <2>2, <1>1 DEF Candidate
      <4>2. CASE run_len > 0
        BY <4>2, <2>2, <1>1 DEF SearchInv, Candidate, ScanTypes
      <4> QED BY <4>1, <4>2, <1>1
    <3> QED BY <3>1 DEF FreeRun
  <2>3. CASE b > index
    BY <2>3, <1>1, <1>2, <1>5
  <2> QED BY <2>1, <2>2, <2>3, <1>1 DEF Candidate, ScanTypes
<1>6. phase' = "find" /\ run_len' = 0 /\ Candidate' = index'
  BY DEF Candidate
<1>7. SearchInv'
  BY <1>1, <1>2, <1>4, <1>5, <1>6 DEF SearchInv, maxi
<1> QED BY <1>3, <1>6, <1>7 DEF FoundIsFirstFit, FailureIsGenuine, LongestInv

LEMMA FindNothingStep == ScanInv /\ FindNothing => ScanInv'
<1> SUFFICES ASSUME ScanInv, FindNothing PROVE ScanInv'
  OBVIOUS
<1> USE DEF ScanInv, FindNothing
<1>1. /\ Wanted \in Nat /\ Wanted >= 1 /\ total_blocks \in Nat /\ index \in Nat
      /\ run_len \in Nat /\ run_start \in Nat
  BY WantedNat DEF ScanTypes
<1>2. ScanTypes'
  BY DEF ScanTypes, args, request, find, maxi
<1>3. /\ UNCHANGED <<total_blocks, bits, nblocks, alignment>> /\ Wanted' = Wanted
      /\ \A b, n : FreeRun(b, n)' = FreeRun(b, n) /\ IsAligned(b)' = IsAligned(b)
  BY DEF args, request, Wanted, FreeRun, IsAligned
<1>4. ASSUME NEW b \in 0 .. total_blocks, IsAligned(b) PROVE ~FreeRun(b, Wanted)
  <2>1. CASE b < Candidate
    BY <2>1, <1>1, <1>4 DEF SearchInv, Candidate
  <2>2. CASE b >= Candidate
    <3>1. b + Wanted > total_blocks
      BY <2>2, <1>1 DEF SearchInv, Candidate
    <3> QED BY <3>1, <1>1 DEF FreeRun
  <2> QED BY <2>1, <2>2, <1>1 DEF Candidate
<1>5. FailureIsGenuine'
  BY <1>3, <1>4 DEF FailureIsGenuine
<1> QED BY <1>2, <1>5 DEF SearchInv, FoundIsFirstFit, LongestInv

-----------------------------------------------------------------------------
(* The longest run *)

LEMMA MaxBeginsStep ==
  ASSUME ScanInv, NEW tb \in Nat, NEW B \in SUBSET (0 .. tb - 1), MaxBegins(tb, B)
  PROVE  ScanInv'
<1>1. ScanTypes'
  BY DEF ScanInv, ScanTypes, MaxBegins, request, find
<1>2. /\ index' = 0 /\ cur_run' = 0 /\ max_run' = 0 /\ total_blocks' \in Nat
      /\ phase' = "max"
  BY DEF MaxBegins
<1>3. FreeRun(0, 0)'
  BY <1>2 DEF FreeRun
<1>4. LongestInv'
  BY <1>2, <1>3 DEF LongestInv
<1> QED BY <1>1, <1>2, <1>4 DEF ScanInv, SearchInv, FoundIsFirstFit, FailureIsGenuine

LEMMA MaxFreeStep == ScanInv /\ MaxFree => ScanInv'
<1> SUFFICES ASSUME ScanInv, MaxFree PROVE ScanInv'
  OBVIOUS
<1> USE DEF ScanInv, MaxFree
<1>1. /\ total_blocks \in Nat /\ index \in Nat /\ cur_run \in Nat /\ max_run \in Nat
      /\ index' = index + 1 /\ index < total_blocks /\ index \notin bits /\ phase' = "max"
      /\ cur_run' = cur_run + 1
  BY DEF ScanTypes
<1>2. ScanTypes'
  BY DEF ScanTypes, args, request, find
<1>3. /\ UNCHANGED <<total_blocks, bits, nblocks, alignment>> /\ Wanted' = Wanted
      /\ \A b, n : FreeRun(b, n)' = FreeRun(b, n) /\ IsAligned(b)' = IsAligned(b)
  BY DEF args, request, Wanted, FreeRun, IsAligned
<1>4. FailureIsGenuine'
  BY <1>3 DEF FailureIsGenuine
<1>5. /\ cur_run <= index /\ cur_run <= max_run
      /\ \A x \in index - cur_run .. index - 1 : x \notin bits
      /\ cur_run < index => index - cur_run - 1 \in bits
      /\ \A b \in 0 .. index : b + max_run + 1 <= index => ~FreeRun(b, max_run + 1)
  BY DEF LongestInv
<1>6. PICK c \in 0 .. index : c + max_run <= index /\ FreeRun(c, max_run)
  BY DEF LongestInv
<1>7. \A x \in index' - cur_run' .. index' - 1 : x \notin bits
  BY <1>1, <1>5
<1>8. CASE cur_run + 1 <= max_run
  <2>1. max_run' = max_run
    BY <1>8, <1>1
  <2>2. ASSUME NEW b \in 0 .. index', b + max_run + 1 <= index', FreeRun(b, max_run + 1)
        PROVE  FALSE
    <3>1. CASE b + max_run + 1 <= index
      BY <3>1, <2>2, <1>1, <1>5
    <3>2. CASE b + max_run = index
      <4>1. index - cur_run - 1 \in b .. b + (max_run + 1) - 1 /\ cur_run < index
        BY <3>2, <1>1, <1>8
      <4> QED BY <4>1, <1>5, <2>2 DEF FreeRun
    <3> QED BY <3>1, <3>2, <2>2, <1>1
  <2>3. c \in 0 .. index' /\ c + max_run' <= index' /\ FreeRun(c, max_run')
    BY <2>1, <1>1, <1>6
  <2>4. LongestInv'
    BY <2>1, <2>2, <2>3, <1>1, <1>3, <1>5, <1>7, <1>8 DEF LongestInv
  <2> QED BY <2>4, <1>1, <1>2, <1>4 DEF SearchInv, FoundIsFirstFit
<1>9. CASE cur_run + 1 > max_run
  <2>1. max_run' = cur_run + 1 /\ max_run = cur_run
    BY <1>9, <1>1, <1>5
  <2>2. index - cur_run \in 0 .. index' /\ (index - cur_run) + max_run' <= index' /\ FreeRun(index - cur_run, max_run')
    BY <2>1, <1>1, <1>5, <1>7 DEF FreeRun
  <2>3. ASSUME NEW b \in 0 .. index', b + max_run' + 1 <= index', FreeRun(b, max_run' + 1)
        PROVE  FALSE
    <3>1. b \in 0 .. index /\ b + max_run + 1 <= index
      BY <2>1, <2>3, <1>1
    <3>2. FreeRun(b, max_run + 1)
      BY <2>1, <2>3, <1>1 DEF FreeRun
    <3> QED BY <3>1, <3>2, <1>5
  <2>4. LongestInv'
    BY <2>1, <2>2, <2>3, <1>1, <1>3, <1>5, <1>7 DEF LongestInv
  <2> QED BY <2>4, <1>1, <1>2, <1>4 DEF SearchInv, FoundIsFirstFit
<1> QED BY <1>8, <1>9, <1>1

LEMMA MaxUsedStep == ScanInv /\ MaxUsed => ScanInv'
<1> SUFFICES ASSUME ScanInv, MaxUsed PROVE ScanInv'
  OBVIOUS
<1> USE DEF ScanInv, MaxUsed
<1>1. /\ total_blocks \in Nat /\ index \in Nat /\ max_run \in Nat /\ max_run' = max_run
      /\ index' = index + 1 /\ index < total_blocks /\ index \in bits /\ phase' = "max" /\ cur_run' = 0
  BY DEF ScanTypes
<1>2. ScanTypes'
  BY DEF ScanTypes, args, request, find
<1>3. /\ UNCHANGED <<total_blocks, bits, nblocks, alignment>> /\ Wanted' = Wanted
      /\ \A b, n : FreeRun(b, n)' = FreeRun(b, n) /\ IsAligned(b)' = IsAligned(b)
  BY DEF args, request, Wanted, FreeRun, IsAligned
<1>4. FailureIsGenuine'
  BY <1>3 DEF FailureIsGenuine
<1>5. PICK c \in 0 .. index : c + max_run <= index /\ FreeRun(c, max_run)
  BY DEF LongestInv
<1>6. c \in 0 .. index' /\ c + max_run' <= index' /\ FreeRun(c, max_run')
  BY <1>1, <1>5
<1>7. ASSUME NEW b \in 0 .. index', b + max_run + 1 <= index', FreeRun(b, max_run + 1)
      PROVE  FALSE
  <2>1. CASE b + max_run + 1 <= index
    BY <2>1, <1>1, <1>7 DEF LongestInv
  <2>2. CASE b + max_run = index
    BY <2>2, <1>1, <1>7 DEF FreeRun
  <2> QED BY <2>1, <2>2, <1>1, <1>7
<1>8. LongestInv'
  BY <1>1, <1>3, <1>6, <1>7 DEF LongestInv
<1> QED BY <1>1, <1>2, <1>4, <1>8 DEF SearchInv, FoundIsFirstFit

LEMMA MaxDoneStep == ScanInv /\ MaxDone => ScanInv'
<1> SUFFICES ASSUME ScanInv, MaxDone PROVE ScanInv'
  OBVIOUS
<1> USE DEF ScanInv, MaxDone
<1>1. /\ UNCHANGED <<total_blocks, bits, nblocks, alignment, index, run_start, run_len, max_run, cur_run>>
      /\ Wanted' = Wanted
      /\ \A b, n : FreeRun(b, n)' = FreeRun(b, n) /\ IsAligned(b)' = IsAligned(b)
  BY DEF args, request, find, maxi, Wanted, FreeRun, IsAligned
<1>2. ScanTypes'
  BY <1>1 DEF ScanTypes
<1>3. FailureIsGenuine'
  BY <1>1 DEF FailureIsGenuine
<1>4. LongestInv'
  BY <1>1 DEF LongestInv, ScanTypes
<1> QED BY <1>2, <1>3, <1>4 DEF SearchInv, FoundIsFirstFit

-----------------------------------------------------------------------------
LEMMA ScanKeeps == ScanInv /\ [ScanNext]_scan_vars => ScanInv'
<1> SUFFICES ASSUME ScanInv, [ScanNext]_scan_vars PROVE ScanInv'
  OBVIOUS
<1>1. CASE UNCHANGED scan_vars
  BY <1>1 DEF scan_vars, args, request, find, maxi, ScanInv, ScanTypes, SearchInv, Candidate,
     Wanted, FreeRun, IsAligned, FoundIsFirstFit, FailureIsGenuine, LongestInv
<1>2. CASE Begins
  BY <1>2, FindBeginsStep, MaxBeginsStep DEF Begins
<1>3. CASE Iteration
  BY <1>3, FindFreeStep, FindUsedStep, FindNothingStep, MaxFreeStep, MaxUsedStep,
     MaxDoneStep DEF Iteration
<1>4. CASE ScanReturns
  BY <1>4, ReturnsStep
<1> QED BY <1>1, <1>2, <1>3, <1>4 DEF ScanNext

LEMMA ScanInvariant == ScanSpec => []ScanInv
  BY ScanStarts, ScanKeeps, PTL DEF ScanSpec

\* find_contiguous_free returns the lowest aligned run that is free.
THEOREM SearchFindsFirstFit == ScanSpec => []FoundIsFirstFit
<1>1. ScanInv => FoundIsFirstFit
  BY DEF ScanInv
<1> QED BY <1>1, ScanInvariant, PTL

\* find_contiguous_free fails only if there is no such run.
THEOREM SearchFailsGenuinely == ScanSpec => []FailureIsGenuine
<1>1. ScanInv => FailureIsGenuine
  BY DEF ScanInv
<1> QED BY <1>1, ScanInvariant, PTL

\* psram_pool_max_free_block returns the length of the longest free run.
THEOREM MaximumIsLongest == ScanSpec => []MaxIsLongestRun
<1>1. ASSUME ScanInv, phase = "done"
      PROVE  /\ \E b \in 0 .. total_blocks : FreeRun(b, max_run)
             /\ \A b \in 0 .. total_blocks - 1 : ~FreeRun(b, max_run + 1)
  <2>1. total_blocks \in Nat /\ max_run \in Nat /\ index = total_blocks
    BY <1>1 DEF ScanInv, ScanTypes, LongestInv
  <2>2. PICK b \in 0 .. total_blocks : FreeRun(b, max_run)
    BY <1>1, <2>1 DEF ScanInv, LongestInv
  <2>3. ASSUME NEW c \in 0 .. total_blocks - 1, FreeRun(c, max_run + 1) PROVE FALSE
    <3>1. c \in 0 .. index /\ c + max_run + 1 <= index
      BY <2>1, <2>3 DEF FreeRun
    <3> QED BY <3>1, <2>3, <1>1 DEF ScanInv, LongestInv
  <2> QED BY <2>1, <2>2, <2>3
<1>2. ScanInv => MaxIsLongestRun
  BY <1>1 DEF MaxIsLongestRun
<1> QED BY <1>2, ScanInvariant, PTL

-----------------------------------------------------------------------------
(* The pool with the loops *)

\* The loop and the one-step search agree on the same bitmap and request.
SameSearch(t) ==
  /\ total_blocks = total /\ bits = bitmap
  /\ nblocks = want[t] /\ alignment = align[t]

LEMMA SearchIsLoop ==
  ASSUME IInv, ScanInv, NEW t \in Tasks, SameSearch(t)
  PROVE  /\ phase = "found" =>
              /\ HasFit(want[t], align[t])
              /\ find_contiguous_free(want[t], align[t]) = run_start
         /\ phase = "nofit" => ~HasFit(want[t], align[t])
<1> DEFINE n == want[t]
           a == align[t]
<1>1. /\ total \in Nat /\ total <= MaxBlocks /\ MaxBlocks \in Nat /\ run_start \in Nat
      /\ n \in Nat /\ a \in Nat \ {0}
  BY PoolAssumption DEF IInv, TypeOK, ScanInv, ScanTypes
<1>2. RunLength(n) \in Nat \ {0} /\ RunLength(n) = Wanted
  BY <1>1 DEF SameSearch, RunLength, Wanted
<1>3. \A b : FitsAligned(b, n, a) <=> IsAligned(b) /\ FreeRun(b, Wanted)
  <2>1. SUFFICES ASSUME NEW b
                 PROVE  FitsAligned(b, n, a) <=> IsAligned(b) /\ FreeRun(b, Wanted)
    OBVIOUS
  <2>2. FitsAligned(b, n, a) <=> b % alignment = 0 /\ Fits(b, RunLength(n))
    BY DEF SameSearch, FitsAligned
  <2>3. Fits(b, RunLength(n)) <=> FreeRun(b, Wanted)
    BY <1>2 DEF SameSearch, Fits, FreeRun, Extent, IsFree
  <2> QED BY <2>2, <2>3, Zenon DEF IsAligned
<1>4. \A b \in Nat : FitsAligned(b, n, a) => b \in Block /\ b \in 0 .. total - 1
  <2>1. SUFFICES ASSUME NEW b \in Nat, FitsAligned(b, n, a)
                 PROVE  b \in Block /\ b \in 0 .. total - 1
    OBVIOUS
  <2>2. b + RunLength(n) <= total
    BY <2>1 DEF FitsAligned, Fits
  <2> HIDE DEF n
  <2>3. b \in 0 .. total - 1
    BY <1>1, <1>2, <2>2
  <2> QED BY <1>1, <2>3 DEF Block
<1>5. total_blocks = total
  BY DEF SameSearch
<1> HIDE DEF n, a
<1>6. ASSUME phase = "found"
      PROVE  HasFit(n, a) /\ find_contiguous_free(n, a) = run_start
  <2>1. /\ FitsAligned(run_start, n, a) /\ run_start \in Block
        /\ \A b \in 0 .. run_start - 1 : ~FitsAligned(b, n, a)
    BY <1>1, <1>3, <1>4, <1>6 DEF ScanInv, FoundIsFirstFit
  <2>2. ASSUME NEW b \in Block, FitsAligned(b, n, a),
               \A c \in 0 .. b - 1 : ~FitsAligned(c, n, a)
        PROVE  b = run_start
    <3>1. b \in Nat /\ ~(run_start < b) /\ ~(b < run_start)
      BY <1>1, <2>1, <2>2 DEF Block
    <3> QED BY <1>1, <3>1
  <2> QED BY <2>1, <2>2 DEF HasFit, find_contiguous_free
<1>7. ASSUME phase = "nofit" PROVE ~HasFit(n, a)
  <2>1. SUFFICES ASSUME NEW b \in Block, FitsAligned(b, n, a) PROVE FALSE
    BY DEF HasFit
  <2>2. b \in Nat /\ b \in 0 .. total - 1
    BY <1>1, <1>4, <2>1 DEF Block
  <2> QED BY <1>1, <1>3, <1>5, <1>7, <2>1, <2>2 DEF ScanInv, FailureIsGenuine
<1> QED BY <1>6, <1>7 DEF n, a

\* No task is in a call before the pool has been initialized.
NoCallBeforeBoot == ~booted => ~initialized /\ \A t \in Tasks : pc[t] = "idle"

SearchInvariant == IInv /\ ScanInv /\ SearchIsOfHolder /\ NoCallBeforeBoot

LEMMA BootKeeps ==
  ASSUME IInv, NoCallBeforeBoot, [Next]_vars
  PROVE  NoCallBeforeBoot'
<1>1. CASE UNCHANGED vars
  BY <1>1 DEF NoCallBeforeBoot, vars, pool
<1>2. CASE \E bytes \in PoolSizes : psram_pool_init(bytes)
  BY <1>2 DEF NoCallBeforeBoot, psram_pool_init
<1>3. ASSUME NEW t \in Tasks, Call(t) \/ Lock(t) \/ Step(t) PROVE NoCallBeforeBoot'
  <2>1. CASE booted
    <3>1. booted' = booted
      BY <1>3 DEF Call, Lock, Step, Search, Work, AllocRefused, AllocCall, FreeCall,
        ReallocInPlace, ReallocCall, DumpStats, AllocFound, SearchFinds,
        AllocNoFit, SearchFails, AllocMark, AllocGive, MaxFreeGive, FreeCheck,
        FreeClear, FreeGive, ReallocExpand, ReallocGive, ReallocMove, Copy,
        vars, pool
    <3> QED BY <2>1, <3>1 DEF NoCallBeforeBoot
  <2>2. CASE ~booted
    <3>1. ~initialized /\ pc[t] = "idle" /\ total = 0
      BY <2>2 DEF NoCallBeforeBoot, IInv
    <3>2. \A b \in Block : ~Holds(t, b)
      <4>1. \A b \in Live : num[b] > 0 /\ b + num[b] <= 0
        BY <3>1 DEF IInv, HeadersTileBitmap
      <4>2. \A b \in Live : b \in Nat /\ num[b] \in Nat
        BY PoolAssumption DEF IInv, TypeOK, Live, Block
      <4>3. Live = {}
        BY <4>1, <4>2
      <4> QED BY <4>3 DEF IInv, HeldIsLive
    <3>3. Call(t)
      BY <1>3, <3>1 DEF Lock, Waiting, Step, Search, Work, AllocFound, SearchFinds,
        AllocNoFit, SearchFails, AllocMark, AllocGive, MaxFreeGive, FreeCheck,
        FreeClear, FreeGive, ReallocExpand, ReallocGive, ReallocMove, Copy
    <3>4. \E s \in Sizes : AllocRefused(t, s)
      BY <3>1, <3>2, <3>3 DEF Call, AllocCall, FreeCall, ReallocInPlace,
        ReallocCall, DumpStats, IInv
    <3> QED BY <3>4 DEF AllocRefused, vars, pool, NoCallBeforeBoot
  <2> QED BY <2>1, <2>2
<1> QED BY <1>1, <1>2, <1>3 DEF Next

\* Every step of the pool with its loops is a step of the pool, or none.
LEMMA SearchStepIsPoolStep ==
  ASSUME SearchInvariant, [SearchNext]_search_vars
  PROVE  [Next]_vars
<1>1. CASE UNCHANGED search_vars
  BY <1>1 DEF search_vars
<1>2. CASE Elsewhere
  BY <1>2 DEF Elsewhere, Next, Step
<1>3. CASE Iteration /\ UNCHANGED vars
  BY <1>3
<1>4. ASSUME NEW t \in Tasks, Scan(t) PROVE [Next]_vars
  <2>1. CASE FindCalled(t) \/ MaxCalled(t)
    BY <2>1 DEF FindCalled, MaxCalled
  <2>2. CASE MaxReturns(t)
    BY <2>2 DEF MaxReturns, Next, Step, Search
  <2>3. CASE FindReturns(t)
    <3>1. pc[t] = "alloc_find" /\ phase \in {"found", "nofit"}
      BY <2>3 DEF FindReturns, SearchFinds, SearchFails
    <3>2. PICK u \in Tasks : pc[u] = "alloc_find" /\ SameSearch(u)
      BY <3>1 DEF SearchInvariant, SearchIsOfHolder, SameSearch
    <3>3. u = t
      BY <3>1, <3>2 DEF SearchInvariant, IInv, MutexExcludes, InCriticalSection
    <3>4. AllocFound(t) \/ AllocNoFit(t)
      BY <2>3, <3>2, <3>3, SearchIsLoop
      DEF SearchInvariant, FindReturns, AllocFound, AllocNoFit
    <3> QED BY <3>4 DEF Next, Step, Search
  <2> QED BY <1>4, <2>1, <2>2, <2>3 DEF Scan
<1> QED BY <1>1, <1>2, <1>3, <1>4 DEF SearchNext

\* Its loops are loops of PsramScan.
LEMMA SearchStepIsScanStep ==
  ASSUME SearchInvariant, [SearchNext]_search_vars
  PROVE  [ScanNext]_scan_vars
<1>1. CASE UNCHANGED search_vars \/ Elsewhere
  BY <1>1 DEF search_vars, Elsewhere
<1>2. CASE Iteration
  BY <1>2 DEF ScanNext
<1>3. ASSUME NEW t \in Tasks, Scan(t) PROVE ScanNext
  <2>1. /\ total \in Nat /\ bitmap \in SUBSET (0 .. total - 1)
        /\ want[t] \in Nat /\ align[t] \in Nat \ {0}
    <3>1. total \in Nat /\ want[t] \in Nat /\ align[t] \in Nat \ {0}
      BY PoolAssumption DEF SearchInvariant, IInv, TypeOK
    <3>2. ASSUME NEW x \in bitmap PROVE x \in 0 .. total - 1
      <4>1. PICK b \in Live : x \in Extent(b, num[b])
        BY <3>2 DEF SearchInvariant, IInv, HeadersTileBitmap
      <4>2. b \in Nat /\ num[b] \in Nat /\ b + num[b] <= total
        BY PoolAssumption DEF SearchInvariant, IInv, HeadersTileBitmap, TypeOK, Live, Block
      <4> QED BY <3>1, <4>1, <4>2 DEF Extent
    <3> QED BY <3>1, <3>2
  <2>2. CASE FindCalled(t)
    BY <2>1, <2>2 DEF FindCalled, ScanNext, Begins
  <2>3. CASE MaxCalled(t)
    BY <2>1, <2>3 DEF MaxCalled, ScanNext, Begins
  <2>4. CASE FindReturns(t) \/ MaxReturns(t)
    BY <2>4 DEF FindReturns, MaxReturns, ScanNext
  <2> QED BY <1>3, <2>2, <2>3, <2>4 DEF Scan
<1> QED BY <1>1, <1>2, <1>3 DEF SearchNext

\* A task outside the mutex leaves alone what the searching task looks at.
LEMMA OthersLeaveSearch ==
  ASSUME IInv, NEW u \in Tasks, pc[u] = "alloc_find" \/ pc[u] = "max_free",
         NEW t \in Tasks, Call(t) \/ Lock(t) \/ Work(t)
  PROVE  /\ t # u /\ pc'[u] = pc[u]
         /\ UNCHANGED <<total, bitmap>> /\ want'[u] = want[u] /\ align'[u] = align[u]
<1>1. u \in mutex /\ \A v \in Tasks : v \in mutex <=> v = u
  BY DEF IInv, MutexExcludes, InCriticalSection
<1>2. t # u
  BY <1>1
  DEF Call, Lock, Work, Waiting, AllocRefused, AllocCall, FreeCall, ReallocInPlace,
      ReallocCall, DumpStats, AllocMark, AllocGive, FreeCheck, FreeClear, FreeGive,
      ReallocExpand, ReallocGive, ReallocMove, Copy, vars
<1>3. pc[t] \notin InCriticalSection
  BY <1>1, <1>2 DEF IInv, MutexExcludes
<1>4. CASE Call(t)
  BY <1>2, <1>4
  DEF Call, AllocRefused, AllocCall, FreeCall, ReallocInPlace, ReallocCall,
      DumpStats, Goto, vars, pool, blocks, locals, IInv, TypeOK
<1>5. CASE Lock(t)
  BY <1>1, <1>5 DEF Lock, Take
<1>6. CASE Work(t)
  <2>1. Copy(t)
    BY <1>3, <1>6
    DEF Work, InCriticalSection, AllocMark, AllocGive, FreeCheck,
        FreeClear, FreeGive, ReallocExpand, ReallocGive, ReallocMove
  <2> QED BY <1>2, <2>1 DEF Copy, Goto, pool, blocks, locals, IInv, TypeOK
<1> QED BY <1>2, <1>4, <1>5, <1>6

LEMMA SearchKeepsHolder ==
  ASSUME SearchInvariant, [SearchNext]_search_vars
  PROVE  SearchIsOfHolder'
<1> DEFINE Looking == {"find", "found", "nofit"}
           Measuring == {"max", "done"}
<1>1. CASE UNCHANGED search_vars
  BY <1>1 DEF SearchInvariant, SearchIsOfHolder, search_vars, vars, pool, blocks, locals,
              scan_vars, args, request
<1>2. CASE Elsewhere
  <2>1. UNCHANGED <<phase, total_blocks, bits, nblocks, alignment>>
    BY <1>2 DEF Elsewhere, scan_vars, args, request
  <2>2. ASSUME phase \in Looking \cup Measuring
        PROVE  \E t \in Tasks : Call(t) \/ Lock(t) \/ Work(t)
    <3>1. PICK u \in Tasks : pc[u] \in {"alloc_find", "max_free"}
      BY <2>2 DEF SearchInvariant, SearchIsOfHolder
    <3>2. booted
      BY <3>1 DEF SearchInvariant, NoCallBeforeBoot
    <3> QED BY <1>2, <3>2 DEF Elsewhere, psram_pool_init
  <2>3. ASSUME phase \in Looking
        PROVE  \E u \in Tasks : pc'[u] = "alloc_find" /\ SameSearch(u)'
    <3>1. PICK u \in Tasks : pc[u] = "alloc_find" /\ SameSearch(u)
      BY <2>3 DEF SearchInvariant, SearchIsOfHolder, SameSearch
    <3>2. /\ pc'[u] = pc[u] /\ UNCHANGED <<total, bitmap>>
          /\ want'[u] = want[u] /\ align'[u] = align[u]
      BY <2>2, <2>3, <3>1, OthersLeaveSearch DEF SearchInvariant
    <3> QED BY <2>1, <3>1, <3>2 DEF SameSearch
  <2>4. ASSUME phase \in Measuring
        PROVE  \E u \in Tasks : pc'[u] = "max_free"
    <3>1. PICK u \in Tasks : pc[u] = "max_free"
      BY <2>4 DEF SearchInvariant, SearchIsOfHolder
    <3>2. pc'[u] = pc[u]
      BY <2>2, <2>4, <3>1, OthersLeaveSearch DEF SearchInvariant
    <3> QED BY <3>1, <3>2
  <2> QED BY <2>1, <2>3, <2>4 DEF SearchIsOfHolder, SameSearch
<1>3. CASE Iteration /\ UNCHANGED vars
  <2>1. /\ UNCHANGED <<total_blocks, bits, nblocks, alignment>>
        /\ \/ phase \in Looking /\ phase' \in Looking
           \/ phase \in Measuring /\ phase' \in Measuring
    BY <1>3 DEF Iteration, FindFree, FindUsed, FindNothing, MaxFree, MaxUsed, MaxDone, args,
                request
  <2>2. UNCHANGED <<pc, total, bitmap, want, align>>
    BY <1>3 DEF vars, pool, blocks, locals
  <2> QED BY <2>1, <2>2 DEF SearchInvariant, SearchIsOfHolder
<1>4. ASSUME NEW t \in Tasks, Scan(t) PROVE SearchIsOfHolder'
  <2>1. CASE FindReturns(t) \/ MaxReturns(t)
    BY <2>1 DEF FindReturns, MaxReturns, ScanReturns, SearchIsOfHolder
  <2>2. CASE FindCalled(t)
    BY <2>2 DEF FindCalled, FindBegins, SearchIsOfHolder, vars, pool, blocks, locals
  <2>3. CASE MaxCalled(t)
    BY <2>3 DEF MaxCalled, MaxBegins, SearchIsOfHolder, vars
  <2> QED BY <1>4, <2>1, <2>2, <2>3 DEF Scan
<1> QED BY <1>1, <1>2, <1>3, <1>4 DEF SearchNext

\* The pool with the loops of its search implements the pool that finds the
\* lowest fit in one step, for any number of tasks.
THEOREM SearchImplementsPool ==
  ASSUME NoWrap, DoubleFrees = FALSE
  PROVE  SearchSpec => ImplementsPool
<1>1. SearchInit => SearchInvariant
  BY InitHolds, ScanStarts
  DEF SearchInit, SearchInvariant, SearchIsOfHolder, ScanInit, NoCallBeforeBoot, Init
<1>2. SearchInvariant /\ [SearchNext]_search_vars => SearchInvariant'
  <2> SUFFICES ASSUME SearchInvariant, [SearchNext]_search_vars PROVE SearchInvariant'
    OBVIOUS
  <2>1. IInv'
    BY SearchStepIsPoolStep, NextStep DEF SearchInvariant
  <2>2. ScanInv'
    BY SearchStepIsScanStep, ScanKeeps DEF SearchInvariant
  <2>3. NoCallBeforeBoot'
    BY SearchStepIsPoolStep, BootKeeps DEF SearchInvariant
  <2> QED BY <2>1, <2>2, <2>3, SearchKeepsHolder DEF SearchInvariant
<1>3. SearchInvariant /\ [SearchNext]_search_vars => [Next]_vars
  BY SearchStepIsPoolStep
<1>4. SearchInit => Init
  BY DEF SearchInit
<1> QED BY <1>1, <1>2, <1>3, <1>4, PTL DEF SearchSpec, ImplementsPool, Spec
=============================================================================
