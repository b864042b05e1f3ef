------------------------------ MODULE PsramScan ------------------------------
(***************************************************************************)
(* The two loops of src/psram_pool.c over the bitmap, one iteration at a   *)
(* time: find_contiguous_free, the search of every allocation, and         *)
(* psram_pool_max_free_block, which a failed allocation calls to log how   *)
(* much would have fitted.  The mutex is held during each loop, so the     *)
(* bitmap it looks at does not change under it; each loop may start with   *)
(* any bitmap.  PoolSearch runs them on the bitmap of the pool.            *)
(***************************************************************************)
EXTENDS Integers

VARIABLES
  total_blocks, bits,   \* g_pool.total_blocks, the set bits of g_pool.bitmap
  nblocks, alignment,   \* arguments of find_contiguous_free
  phase,                \* the loop that runs or has ended; "none" between calls
  index,                \* i, the index of either loop
  run_start, run_len,   \* locals of find_contiguous_free
  max_run, cur_run      \* locals of psram_pool_max_free_block

request == <<nblocks, alignment>>
args    == <<total_blocks, bits, request>>
find    == <<run_start, run_len>>
maxi    == <<max_run, cur_run>>

scan_vars == <<args, phase, index, find, maxi>>

\* (x + alignment - 1) & ~(alignment - 1): x rounded up to the alignment.
AlignUp(x) == x + ((alignment - (x % alignment)) % alignment)

ScanInit ==
  /\ total_blocks = 0 /\ bits = {}
  /\ nblocks = 0 /\ alignment = 1
  /\ phase = "none" /\ index = 0
  /\ run_start = 0 /\ run_len = 0
  /\ max_run = 0 /\ cur_run = 0

\* The loop's result is returned to the caller, and its locals are gone.
ScanReturns ==
  /\ phase \in {"found", "nofit", "done"}
  /\ total_blocks' = 0 /\ bits' = {}
  /\ nblocks' = 0 /\ alignment' = 1
  /\ phase' = "none" /\ index' = 0
  /\ run_start' = 0 /\ run_len' = 0
  /\ max_run' = 0 /\ cur_run' = 0

-----------------------------------------------------------------------------
(* find_contiguous_free *)

\* The call with n blocks aligned to a blocks, on a pool of tb blocks whose
\* bits B are set.  (0 rounded up to any alignment is 0.)
FindBegins(tb, B, n, a) ==
  /\ phase = "none"
  /\ total_blocks' = tb /\ bits' = B
  /\ nblocks' = n /\ alignment' = a
  /\ phase' = "find" /\ index' = 0
  /\ run_start' = 0 /\ run_len' = 0
  /\ UNCHANGED maxi

\* The block extends the run, or starts one; a run that is long enough ends the
\* search.
FindFree ==
  /\ phase = "find" /\ index < total_blocks /\ index \notin bits
  /\ run_start' = IF run_len = 0 THEN index ELSE run_start
  /\ run_len' = run_len + 1
  /\ \/ run_len + 1 >= nblocks /\ phase' = "found" /\ index' = index
     \/ run_len + 1 <  nblocks /\ phase' = phase   /\ index' = index + 1
  /\ UNCHANGED <<args, maxi>>

\* Variant with a bug: the skip leaves out the block it lands on.
FindUsed_SkipsTooFar ==
  /\ phase = "find" /\ index < total_blocks /\ index \in bits
  /\ run_len' = 0
  /\ index' = AlignUp(index + 1) + 1
  /\ UNCHANGED <<args, phase, run_start, maxi>>

\* Variant with a bug: the length of the run is not reset.
FindUsed_KeepsLength ==
  /\ phase = "find" /\ index < total_blocks /\ index \in bits
  /\ index' = AlignUp(index + 1)
  /\ UNCHANGED <<args, phase, run_start, run_len, maxi>>

\* The block ends the run; the search goes on at the next aligned block.
FindUsed ==
  /\ phase = "find" /\ index < total_blocks /\ index \in bits
  /\ run_len' = 0
  /\ index' = AlignUp(index + 1)
  /\ UNCHANGED <<args, phase, run_start, maxi>>

\* UINT32_MAX: nothing fits.
FindNothing ==
  /\ phase = "find" /\ index >= total_blocks
  /\ phase' = "nofit"
  /\ UNCHANGED <<args, index, find, maxi>>

-----------------------------------------------------------------------------
(* psram_pool_max_free_block: the mutex was free in between, so the bitmap   *)
(* may be another one than the search looked at.                             *)

MaxBegins(tb, B) ==
  /\ phase = "none"
  /\ total_blocks' = tb /\ bits' = B
  /\ phase' = "max" /\ index' = 0
  /\ max_run' = 0 /\ cur_run' = 0
  /\ UNCHANGED <<request, find>>

\* Variant with a bug: only a run that is ended by a used block is recorded.
MaxFree_EndedRunsOnly ==
  /\ phase = "max" /\ index < total_blocks /\ index \notin bits
  /\ cur_run' = cur_run + 1
  /\ max_run' = IF index + 1 \in bits /\ cur_run + 1 > max_run
                THEN cur_run + 1 ELSE max_run
  /\ index' = index + 1
  /\ UNCHANGED <<args, phase, find>>

MaxFree ==
  /\ phase = "max" /\ index < total_blocks /\ index \notin bits
  /\ cur_run' = cur_run + 1
  /\ max_run' = IF cur_run + 1 > max_run THEN cur_run + 1 ELSE max_run
  /\ index' = index + 1
  /\ UNCHANGED <<args, phase, find>>

MaxUsed ==
  /\ phase = "max" /\ index < total_blocks /\ index \in bits
  /\ cur_run' = 0
  /\ index' = index + 1
  /\ UNCHANGED <<args, phase, find, max_run>>

MaxDone ==
  /\ phase = "max" /\ index >= total_blocks
  /\ phase' = "done"
  /\ UNCHANGED <<args, index, find, maxi>>

Iteration ==
  \/ FindFree \/ FindUsed \/ FindNothing
  \/ MaxFree \/ MaxUsed \/ MaxDone

\* The loops on any pool: with any bitmap, request and alignment.
Begins ==
  \E tb \in Nat : \E B \in SUBSET (0 .. tb - 1) :
    \/ \E n \in Nat, a \in Nat \ {0} : FindBegins(tb, B, n, a)
    \/ MaxBegins(tb, B)

ScanNext == Begins \/ Iteration \/ ScanReturns

ScanSpec == ScanInit /\ [][ScanNext]_scan_vars

-----------------------------------------------------------------------------
(* What the loops must compute.                                             *)

\* n blocks from b on are in the pool and free.
FreeRun(b, n) == b + n <= total_blocks /\ \A x \in b .. b + n - 1 : x \notin bits

\* The search looks at one block even for a request of none.
Wanted == IF nblocks = 0 THEN 1 ELSE nblocks

IsAligned(b) == b % alignment = 0

\* The block the search returns starts the lowest aligned run of nblocks free
\* blocks: the allocation that follows marks only free blocks of the pool.
FoundIsFirstFit ==
  phase = "found" =>
    /\ IsAligned(run_start) /\ FreeRun(run_start, Wanted)
    /\ \A b \in 0 .. run_start - 1 : IsAligned(b) => ~FreeRun(b, Wanted)

\* The search fails only when no aligned run is long enough: skipping to the
\* next aligned block after a used one loses nothing.
FailureIsGenuine ==
  phase = "nofit" =>
    \A b \in 0 .. total_blocks : IsAligned(b) => ~FreeRun(b, Wanted)

\* psram_pool_max_free_block returns the length of the longest free run.
MaxIsLongestRun ==
  phase = "done" =>
    /\ \E b \in 0 .. total_blocks : FreeRun(b, max_run)
    /\ \A b \in 0 .. total_blocks - 1 : ~FreeRun(b, max_run + 1)
=============================================================================
