------------------------------ MODULE PsramPool ------------------------------
(***************************************************************************)
(* The PSRAM block pool (src/psram_pool.c): a bitmap of fixed-size blocks, *)
(* an allocation header stored at the start of the first block of every    *)
(* allocation, a list of the live headers, and one non-recursive FreeRTOS  *)
(* mutex.  Any task may call it through the KernelAPI table.               *)
(*                                                                         *)
(* A pointer is named by the block that holds its header: the code's       *)
(* pointer is pool_base + b * BLOCK_SIZE + HEADER_SIZE.                    *)
(***************************************************************************)
EXTENDS Integers, FiniteSets

CONSTANTS
  Tasks,        \* the tasks that call the pool
  MaxBlocks,    \* PSRAM_POOL_MAX_BLOCKS
  BlockSize,    \* PSRAM_POOL_BLOCK_SIZE, bytes
  HeaderSize,   \* HEADER_SIZE, bytes
  WordSize,     \* size_t is computed modulo this
  PoolSizes,    \* pool_size_bytes psram_pool_init may be called with
  Sizes,        \* the request sizes callers use, bytes
  Alignments,   \* the alignments callers ask for, bytes
  DoubleFrees,  \* may a task free a pointer it has already freed?
  Dumps         \* may a task call psram_pool_dump_stats?

ASSUME PoolAssumption ==
  /\ MaxBlocks \in Nat \ {0}
  /\ BlockSize \in Nat \ {0}
  /\ HeaderSize \in Nat
  /\ HeaderSize < BlockSize
  /\ WordSize \in Nat \ {0}
  /\ PoolSizes \subseteq Nat
  /\ Sizes \subseteq Nat
  /\ Alignments \subseteq Nat
  /\ DoubleFrees \in BOOLEAN
  /\ Dumps \in BOOLEAN

\* No request is so large that the round-up of its size wraps around.
NoWrap == \A s \in Sizes : HeaderSize + s + BlockSize - 1 < WordSize

VARIABLES
  booted,       \* app_main has called psram_pool_init
  initialized,  \* g_pool.initialized
  total,        \* g_pool.total_blocks
  bitmap,       \* g_pool.bitmap: the blocks whose bit is set
  used,         \* g_pool.used_blocks
  num,          \* num_blocks of the header at the start of each block
  magic,        \* magic of that header
  list,         \* g_pool.header_list: the blocks whose header is linked
  mutex,        \* the tasks inside g_pool.mutex
  pc,           \* where each task is
  resizing,     \* is the alloc or free of the task a part of its realloc?
  want,         \* nblocks (or new_nblocks) of the task's request
  align,        \* align_blocks of the task's request
  at,           \* start: the block the task's search found
  ptr,          \* the pointer the task passed
  usable,       \* usable[t][b]: blocks t may use behind pointer b, 0 if none
  stale,        \* stale[t]: the pointers t has freed (kept if DoubleFrees)
  data          \* data[b]: the task whose payload is in block b

pool    == <<booted, initialized, total>>
blocks  == <<bitmap, used, num, list>>
locals  == <<resizing, want, align, at, ptr>>
clients == <<usable, stale, data>>
vars    == <<pool, blocks, magic, mutex, pc, locals, clients>>

Block == 0 .. MaxBlocks - 1

InCriticalSection ==
  {"alloc_find", "alloc_mark", "alloc_give", "free_check", "free_clear",
   "free_give", "realloc_try", "realloc_give", "max_free", "dump_max"}

PCs == InCriticalSection \cup
  {"idle", "alloc_take", "free_take", "realloc_take", "max_take", "copy"}

FreeSteps == {"free_take", "free_check", "free_clear", "free_give"}

\* The steps of a realloc while the original is still the caller's.
MoveSteps ==
  {"realloc_take", "realloc_try", "alloc_take", "alloc_find", "alloc_mark",
   "alloc_give", "copy", "free_take", "free_check", "free_clear"}

-----------------------------------------------------------------------------
\* bitmap_get, and the blocks of an extent.
IsFree(b) == b \notin bitmap

Extent(b, n) == b .. (b + n - 1)

\* The magic values tell a live header from a freed one; "OTHER" stands for
\* what is in a block that payload or nothing was written to.
Live == {b \in Block : magic[b] = "ALLOCATED"}

\* nblocks of a request, with the 32-bit additions of the code.
NBlocks(s) ==
  LET total_size == (HeaderSize + s) % WordSize
  IN  ((total_size + BlockSize - 1) % WordSize) \div BlockSize

\* align_blocks of a request: its alignment is clamped to one byte and to one
\* block, converted to blocks, and clamped once more.
AlignBlocks(bytes) ==
  LET clamped == CASE bytes > BlockSize -> BlockSize
                   [] bytes < 1         -> 1
                   [] OTHER             -> bytes
  IN  IF clamped \div BlockSize < 1 THEN 1 ELSE clamped \div BlockSize

\* The search stops after one free block even when asked for none.
RunLength(n) == IF n = 0 THEN 1 ELSE n

\* Variant with a bug: the search may run one block past the pool's end.
Fits_PastEnd(b, n) ==
  /\ b + n <= total + 1
  /\ \A i \in Extent(b, n) : IsFree(i)

Fits(b, n) ==
  /\ b + n <= total
  /\ \A i \in Extent(b, n) : IsFree(i)

FitsAligned(b, n, a) == b % a = 0 /\ Fits(b, RunLength(n))

HasFit(n, a) == \E b \in Block : FitsAligned(b, n, a)

\* find_contiguous_free: the lowest run of n free blocks that starts at a
\* multiple of a.  (The loop itself is PsramScan; PoolSearch composes the two
\* and shows that the loop returns this block.)
find_contiguous_free(n, a) ==
  CHOOSE b \in Block : /\ FitsAligned(b, n, a)
                       /\ \A c \in 0 .. b - 1 : ~FitsAligned(c, n, a)

\* Variant with a bug: the mutex is not waited for.
Take_NoWait(t) == mutex' = mutex \cup {t}

Take(t) == mutex = {} /\ mutex' = {t}

\* Variant with a bug: the mutex is not given back.
Give_Kept(t) == UNCHANGED mutex

Give(t) == mutex' = mutex \ {t}

Goto(t, label) == pc' = [pc EXCEPT ![t] = label]

\* The call returns to the task, and its locals are gone.
Return(t) ==
  /\ Goto(t, "idle")
  /\ resizing' = [resizing EXCEPT ![t] = FALSE]
  /\ want' = [want EXCEPT ![t] = 0]
  /\ align' = [align EXCEPT ![t] = 1]
  /\ at' = [at EXCEPT ![t] = 0]
  /\ ptr' = [ptr EXCEPT ![t] = 0]

\* What a task holds: pointers whose header it has been given and not freed.
Holds(t, b) == usable[t][b] > 0

\* Task t fills the given blocks of its allocation at b with its own payload;
\* all but the first of an extent's blocks lose what header was in them.
Fill(t, b, S) ==
  /\ data'  = [x \in Block |-> IF x \in S THEN {t} ELSE data[x]]
  /\ magic' = [x \in Block |-> IF x \in S \ {b} THEN "OTHER" ELSE magic[x]]
-----------------------------------------------------------------------------
(* Boot *)

Init ==
  /\ booted = FALSE /\ initialized = FALSE /\ total = 0
  /\ bitmap = {} /\ used = 0 /\ list = {}
  /\ num = [b \in Block |-> 0]
  /\ magic = [b \in Block |-> "OTHER"]
  /\ mutex = {}
  /\ pc = [t \in Tasks |-> "idle"]
  /\ resizing = [t \in Tasks |-> FALSE]
  /\ want = [t \in Tasks |-> 0]
  /\ align = [t \in Tasks |-> 1]
  /\ at = [t \in Tasks |-> 0]
  /\ ptr = [t \in Tasks |-> 0]
  /\ usable = [t \in Tasks |-> [b \in Block |-> 0]]
  /\ stale = [t \in Tasks |-> {}]
  /\ data = [b \in Block |-> {}]

\* psram_pool_init, called once by app_main before any other task exists.  It
\* fails on a bad size or when one of its three heap allocations fails; the
\* kernel goes on regardless.
psram_pool_init(bytes) ==
  /\ ~booted
  /\ booted' = TRUE
  /\ \/ /\ bytes \div BlockSize \in 1 .. MaxBlocks
        /\ initialized' = TRUE
        /\ total' = bytes \div BlockSize
     \/ UNCHANGED <<initialized, total>>
  /\ UNCHANGED <<blocks, magic, mutex, pc, locals, clients>>

\* xSemaphoreTake(g_pool.mutex, portMAX_DELAY): where a task waits for the
\* mutex, and where it goes on with it.  The mutex is not recursive, so
\* psram_pool_dump_stats ("dump_max") waits for itself.
Waiting ==
  [alloc_take |-> "alloc_find", free_take |-> "free_check",
   realloc_take |-> "realloc_try", max_take |-> "max_free", dump_max |-> "max_free"]

Lock(t) ==
  /\ pc[t] \in DOMAIN Waiting
  /\ Take(t)
  /\ Goto(t, Waiting[pc[t]])
  /\ UNCHANGED <<pool, blocks, magic, locals, clients>>

-----------------------------------------------------------------------------
(* psram_pool_alloc_aligned *)

\* An early return: the pool is not initialized or the size is zero.
AllocRefused(t, s) ==
  /\ booted /\ pc[t] = "idle"
  /\ ~initialized \/ s = 0
  /\ UNCHANGED vars

AllocCall(t, s, a) ==
  /\ pc[t] = "idle" /\ initialized /\ s # 0
  /\ want' = [want EXCEPT ![t] = NBlocks(s)]
  /\ align' = [align EXCEPT ![t] = AlignBlocks(a)]
  /\ Goto(t, "alloc_take")
  /\ UNCHANGED <<pool, blocks, magic, mutex, resizing, at, ptr, clients>>

\* find_contiguous_free returns block b.
SearchFinds(t, b) ==
  /\ pc[t] = "alloc_find"
  /\ at' = [at EXCEPT ![t] = b]
  /\ Goto(t, "alloc_mark")
  /\ UNCHANGED <<pool, blocks, magic, mutex, resizing, want, align, ptr, clients>>

AllocFound(t) ==
  /\ HasFit(want[t], align[t])
  /\ SearchFinds(t, find_contiguous_free(want[t], align[t]))

\* find_contiguous_free returns UINT32_MAX: the mutex is given back and the
\* failure is logged with psram_pool_max_free_block(), which takes it again.
SearchFails(t) ==
  /\ pc[t] = "alloc_find"
  /\ Give(t)
  /\ Goto(t, "max_take")
  /\ UNCHANGED <<pool, blocks, magic, locals, clients>>

AllocNoFit(t) == ~HasFit(want[t], align[t]) /\ SearchFails(t)

\* Sets the bits, counts them, writes the header and links it.
AllocMark(t) ==
  /\ pc[t] = "alloc_mark"
  /\ bitmap' = bitmap \cup Extent(at[t], want[t])
  /\ used' = used + want[t]
  /\ num' = [num EXCEPT ![at[t]] = want[t]]
  /\ magic' = [magic EXCEPT ![at[t]] = "ALLOCATED"]
  /\ list' = list \cup {at[t]}
  /\ usable' = [usable EXCEPT ![t][at[t]] = want[t]]
  /\ stale' = [stale EXCEPT ![t] = @ \ {at[t]}]
  /\ Goto(t, "alloc_give")
  /\ UNCHANGED <<pool, mutex, locals, data>>

\* Gives the mutex and returns to the caller, who writes its payload, or to
\* psram_pool_realloc, which copies the old one first.
AllocGive(t) ==
  /\ pc[t] = "alloc_give"
  /\ Give(t)
  /\ \/ /\ resizing[t]
        /\ Goto(t, "copy")
        /\ UNCHANGED <<magic, data, locals>>
     \/ /\ ~resizing[t]
        /\ Return(t)
        /\ Fill(t, at[t], Extent(at[t], want[t]))
  /\ UNCHANGED <<pool, blocks, usable, stale>>

\* psram_pool_max_free_block, for the log line of the failed allocation; the
\* call then returns NULL, and so does a realloc it is part of.
MaxFreeGive(t) ==
  /\ pc[t] = "max_free"
  /\ Give(t)
  /\ Return(t)
  /\ UNCHANGED <<pool, blocks, magic, clients>>

-----------------------------------------------------------------------------
(* psram_pool_free *)

\* Of a pointer that the caller holds, or has freed before.
FreeCall(t, b) ==
  /\ pc[t] = "idle" /\ (Holds(t, b) \/ b \in stale[t])
  /\ ptr' = [ptr EXCEPT ![t] = b]
  /\ Goto(t, "free_take")
  /\ UNCHANGED <<pool, blocks, magic, mutex, resizing, want, align, at, clients>>

\* Any magic but ALLOCATED is logged as a double free or as corruption, and the
\* call returns.
FreeCheck(t) ==
  /\ pc[t] = "free_check"
  /\ IF magic[ptr[t]] = "ALLOCATED"
       THEN Goto(t, "free_clear") /\ UNCHANGED <<mutex, locals>>
       ELSE Give(t) /\ Return(t)
  /\ UNCHANGED <<pool, blocks, magic, clients>>

\* Variant with a bug: the header is not poisoned.
Poison_None == "ALLOCATED"

Poison == "FREED"

\* Clears the bits, uncounts them, unlinks the header and poisons it.
FreeClear(t) ==
  /\ pc[t] = "free_clear"
  /\ bitmap' = bitmap \ Extent(ptr[t], num[ptr[t]])
  /\ used' = used - num[ptr[t]]
  /\ list' = list \ {ptr[t]}
  /\ magic' = [magic EXCEPT ![ptr[t]] = Poison]
  /\ usable' = [usable EXCEPT ![t][ptr[t]] = 0]
  /\ stale' = [stale EXCEPT ![t] = IF DoubleFrees THEN @ \cup {ptr[t]} ELSE @]
  /\ Goto(t, "free_give")
  /\ UNCHANGED <<pool, num, mutex, locals, data>>

\* Gives the mutex; as the end of a realloc, the caller goes on to write the
\* blocks it gained.
FreeGive(t) ==
  /\ pc[t] = "free_give"
  /\ Give(t)
  /\ Return(t)
  /\ \/ /\ resizing[t]
        /\ Fill(t, at[t], Extent(at[t], want[t]) \ Extent(at[t], num[ptr[t]]))
     \/ /\ ~resizing[t]
        /\ UNCHANGED <<magic, data>>
  /\ UNCHANGED <<pool, blocks, usable, stale>>

-----------------------------------------------------------------------------
(* psram_pool_realloc of a live pointer (with NULL it is AllocCall, with    *)
(* size 0 it is FreeCall).  num_blocks is read before the mutex is taken.   *)

UserSize(b) == num[b] * BlockSize - HeaderSize

\* The allocation is large enough already: nothing changes but what the
\* caller may use of it.
ReallocInPlace(t, b, s) ==
  /\ pc[t] = "idle" /\ Holds(t, b)
  /\ s # 0 /\ s <= UserSize(b)
  /\ usable' = [usable EXCEPT ![t][b] = NBlocks(s)]
  /\ Fill(t, b, Extent(b, NBlocks(s)) \ Extent(b, usable[t][b]))
  /\ UNCHANGED <<pool, blocks, mutex, pc, locals, stale>>

ReallocCall(t, b, s) ==
  /\ pc[t] = "idle" /\ Holds(t, b)
  /\ s > UserSize(b)
  /\ ptr' = [ptr EXCEPT ![t] = b]
  /\ want' = [want EXCEPT ![t] = NBlocks(s)]
  /\ resizing' = [resizing EXCEPT ![t] = TRUE]
  /\ Goto(t, "realloc_take")
  /\ UNCHANGED <<pool, blocks, magic, mutex, align, at, clients>>

\* The blocks the allocation lacks, right behind it.
Extra(t) == Extent(ptr[t], want[t]) \ Extent(ptr[t], num[ptr[t]])

\* Variant with a bug: only the end of the pool is checked, not the bits.
CanExpand_IgnoresBits(t) == \A b \in Extra(t) : b < total

CanExpand(t) == \A b \in Extra(t) : b < total /\ IsFree(b)

\* Variant with a bug: the gained blocks are not counted.
Gained_Zero(t) == 0

Gained(t) == want[t] - num[ptr[t]]

ReallocExpand(t) ==
  /\ pc[t] = "realloc_try" /\ CanExpand(t)
  /\ bitmap' = bitmap \cup Extra(t)
  /\ used' = used + Gained(t)
  /\ num' = [num EXCEPT ![ptr[t]] = want[t]]
  /\ Goto(t, "realloc_give")
  /\ UNCHANGED <<pool, list, magic, mutex, locals, clients>>

ReallocGive(t) ==
  /\ pc[t] = "realloc_give"
  /\ Give(t)
  /\ Return(t)
  /\ usable' = [usable EXCEPT ![t][ptr[t]] = want[t]]
  /\ Fill(t, ptr[t], Extent(ptr[t], want[t]) \ Extent(ptr[t], usable[t][ptr[t]]))
  /\ UNCHANGED <<pool, blocks, stale>>

\* Variant with a bug: the old allocation is freed first.
AfterGive_FreesFirst == "free_take"

AfterGive == "alloc_take"

\* No room behind it: allocate (under the mutex again), copy, free the old.
ReallocMove(t) ==
  /\ pc[t] = "realloc_try" /\ ~CanExpand(t)
  /\ Give(t)
  /\ Goto(t, AfterGive)
  /\ align' = [align EXCEPT ![t] = AlignBlocks(BlockSize)]
  /\ UNCHANGED <<pool, blocks, magic, resizing, want, at, ptr, clients>>

\* Variant with a bug: the copy stops one block short.
Moved_Short(t) == Extent(at[t], num[ptr[t]] - 1)

Moved(t) == Extent(at[t], num[ptr[t]])

\* memcpy of old_user_size bytes, outside the mutex.
Copy(t) ==
  /\ pc[t] = "copy"
  /\ data' = [b \in Block |-> IF b \in Moved(t) THEN data[b - at[t] + ptr[t]]
                                               ELSE data[b]]
  /\ magic' = [b \in Block |-> IF b \in Moved(t) \ {at[t]} THEN "OTHER" ELSE magic[b]]
  /\ Goto(t, "free_take")
  /\ UNCHANGED <<pool, blocks, mutex, locals, usable, stale>>

-----------------------------------------------------------------------------
(* psram_pool_dump_stats prints, with the mutex taken, the result of        *)
(* psram_pool_max_free_block, which takes it once more.                     *)

DumpStats(t) ==
  /\ Dumps
  /\ pc[t] = "idle" /\ initialized
  /\ Take(t)
  /\ Goto(t, "dump_max")
  /\ UNCHANGED <<pool, blocks, magic, locals, clients>>

-----------------------------------------------------------------------------

\* What a task does once it is in a call (all but taking the mutex).
Search(t) == AllocFound(t) \/ AllocNoFit(t) \/ MaxFreeGive(t)

Work(t) ==
  \/ AllocMark(t) \/ AllocGive(t)
  \/ FreeCheck(t) \/ FreeClear(t) \/ FreeGive(t)
  \/ ReallocExpand(t) \/ ReallocGive(t) \/ ReallocMove(t) \/ Copy(t)

Step(t) == Search(t) \/ Work(t)

Call(t) ==
  \/ \E s \in Sizes : AllocRefused(t, s) \/ \E a \in Alignments : AllocCall(t, s, a)
  \/ \E b \in Block : FreeCall(t, b)
  \/ \E b \in Block, s \in Sizes : ReallocInPlace(t, b, s) \/ ReallocCall(t, b, s)
  \/ DumpStats(t)

Next ==
  \/ \E bytes \in PoolSizes : psram_pool_init(bytes)
  \/ \E t \in Tasks : Call(t) \/ Lock(t) \/ Step(t)

Spec == Init /\ [][Next]_vars

\* A task in a call keeps running, and FreeRTOS hands the mutex to a waiting
\* task whenever it is given (portMAX_DELAY: a waiter never gives up).
Fairness == \A t \in Tasks : WF_vars(Step(t)) /\ SF_vars(Lock(t))

FairSpec == Spec /\ Fairness

-----------------------------------------------------------------------------
(* Properties *)

\* Types.
TypeOK ==
  /\ booted \in BOOLEAN /\ initialized \in BOOLEAN
  /\ total \in 0 .. MaxBlocks
  /\ bitmap \subseteq Block /\ used \in Int /\ list \subseteq Block
  /\ num \in [Block -> Nat]
  /\ magic \in [Block -> {"ALLOCATED", "FREED", "OTHER"}]
  /\ mutex \in SUBSET Tasks
  /\ pc \in [Tasks -> PCs]
  /\ resizing \in [Tasks -> BOOLEAN]
  /\ want \in [Tasks -> Nat] /\ align \in [Tasks -> Nat \ {0}]
  /\ at \in [Tasks -> Block] /\ ptr \in [Tasks -> Block]
  /\ usable \in [Tasks -> [Block -> Nat]]
  /\ stale \in [Tasks -> SUBSET Block]
  /\ data \in [Block -> SUBSET Tasks]

\* The bitmap says exactly which blocks belong to a live header, no block
\* belongs to two, and the header list links exactly the live headers: what
\* find_contiguous_free, free and the leak report rely on, whatever the tasks
\* interleave.
HeadersTileBitmap ==
  /\ list = Live
  /\ \A b \in Live : num[b] > 0 /\ b + num[b] <= total
  /\ \A b, c \in Live : b # c => Extent(b, num[b]) \cap Extent(c, num[c]) = {}
  /\ bitmap = UNION {Extent(b, num[b]) : b \in Live}

\* used_blocks, which psram_pool_free_size reads without the mutex, counts the
\* bits that are set.
UsedCountsBits == used = Cardinality(bitmap)

\* A pointer a task has been given and has not freed is live, at least as
\* large as the task was told, and nobody else's.
HeldIsLive ==
  \A t \in Tasks, b \in Block :
    Holds(t, b) =>
      /\ b \in Live /\ usable[t][b] <= num[b]
      /\ \A u \in Tasks \ {t} : ~Holds(u, b)

\* The payload a task wrote is still in its blocks whenever it looks: nobody
\* else was given them, and a realloc carried the old contents over.
PayloadIntact ==
  \A t \in Tasks, b \in Block :
    Holds(t, b) /\ pc[t] = "idle" =>
      \A x \in Extent(b, usable[t][b]) : data[x] = {t}

\* What a task in the middle of a call has found out, asked for or been given
\* is still so when it goes on, whatever the other tasks did since: the run it
\* found is free until it is marked, and the pointers it works on are its own.
LocalsHold(t) ==
  /\ pc[t] = "idle" => ~resizing[t]
  /\ pc[t] \in {"alloc_take", "alloc_find", "alloc_mark"} => want[t] > 0
  /\ pc[t] = "alloc_mark" => Fits(at[t], want[t])
  /\ pc[t] = "alloc_give" \/ (resizing[t] /\ pc[t] \in FreeSteps \cup {"copy"}) =>
       Holds(t, at[t]) /\ usable[t][at[t]] = want[t] /\ num[at[t]] = want[t]
  /\ pc[t] \in FreeSteps \ {"free_give"} => Holds(t, ptr[t])
  /\ pc[t] \in {"realloc_take", "realloc_try", "realloc_give", "copy"} => resizing[t]
  /\ pc[t] = "realloc_give" => Holds(t, ptr[t]) /\ num[ptr[t]] = want[t]
  /\ resizing[t] /\ pc[t] \in MoveSteps =>
       Holds(t, ptr[t]) /\ num[ptr[t]] < want[t]

LocalsConsistent == \A t \in Tasks : LocalsHold(t)

\* A pointer freed twice is caught by its header's magic: only a free of a
\* pointer the caller holds gets to clear bits.
OnlyHeldIsFreed ==
  \A t \in Tasks : pc[t] = "free_clear" => Holds(t, ptr[t])

\* A failed realloc leaves the original valid; only a successful move, after
\* its copy, or an explicit free ends a pointer.
OnlyFreeEndsPointer ==
  [][\A t \in Tasks, b \in Block :
       Holds(t, b) /\ ~Holds(t, b)' =>
         /\ ptr[t] = b
         /\ resizing[t] => Holds(t, at[t]) /\ usable[t][at[t]] >= num[b]]_vars

\* Only the task inside the mutex is between taking and giving it.
MutexExcludes ==
  /\ \A t \in Tasks : t \in mutex <=> pc[t] \in InCriticalSection
  /\ \A t, u \in mutex : t = u

\* The invariant the steps preserve, from which the others follow.
IInv ==
  /\ TypeOK
  /\ ~booted => total = 0
  /\ \A t \in Tasks : stale[t] = {}
  /\ MutexExcludes
  /\ HeadersTileBitmap
  /\ UsedCountsBits
  /\ HeldIsLive
  /\ LocalsConsistent

\* Every call returns, whatever the tasks interleave.  (It does not once a task
\* asks for the statistics: dump_stats takes the mutex and waits for itself.)
CallsReturn == \A t \in Tasks : pc[t] # "idle" ~> pc[t] = "idle"

\* dump_stats apart, no call waits for ever: a task is only ever stuck behind a
\* task that hangs in dump_stats.
OnlyDumpBlocks ==
  \A t \in Tasks :
    pc[t] # "idle" ~> pc[t] = "idle" \/ \E u \in Tasks : pc[u] = "dump_max"

\* The pool implements the block allocator that has no mutex, no headers and
\* no bitmap: each marking, clearing or in-place growth is one step of it.
Abstract == INSTANCE BlockPool WITH
  size <- total,
  live <- {<<b, num[b]>> : b \in Live}

ImplementsBlockPool == Abstract!Spec
=============================================================================
