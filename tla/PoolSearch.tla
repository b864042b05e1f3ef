----------------------------- MODULE PoolSearch -----------------------------
(***************************************************************************)
(* The pool with the loops of its search: where PsramPool finds a run, or  *)
(* the longest one, in one step, the loops of PsramScan run on the bitmap  *)
(* of the pool, under the mutex, with the blocks and the alignment of the  *)
(* task's request.  The loops' variables are those of the task inside the  *)
(* mutex.                                                                  *)
(***************************************************************************)
EXTENDS PsramPool, PsramScan

search_vars == <<vars, scan_vars>>

SearchInit == Init /\ ScanInit

\* find_contiguous_free(nblocks, align_blocks) is called.
FindCalled(t) ==
  /\ pc[t] = "alloc_find"
  /\ FindBegins(total, bitmap, want[t], align[t])
  /\ UNCHANGED vars

\* It returns a block, or UINT32_MAX.
FindReturns(t) ==
  /\ \/ phase = "found" /\ SearchFinds(t, run_start)
     \/ phase = "nofit" /\ SearchFails(t)
  /\ ScanReturns

\* The body of psram_pool_max_free_block, once it has the mutex.
MaxCalled(t) ==
  /\ pc[t] = "max_free"
  /\ MaxBegins(total, bitmap)
  /\ UNCHANGED vars

MaxReturns(t) ==
  /\ phase = "done"
  /\ MaxFreeGive(t)
  /\ ScanReturns

Scan(t) ==
  \/ FindCalled(t) \/ FindReturns(t)
  \/ MaxCalled(t)  \/ MaxReturns(t)

\* What the pool does besides: all but Search(t).
Elsewhere ==
  /\ \/ \E bytes \in PoolSizes : psram_pool_init(bytes)
     \/ \E t \in Tasks : Call(t) \/ Lock(t) \/ Work(t)
  /\ UNCHANGED scan_vars

SearchNext ==
  \/ Elsewhere
  \/ Iteration /\ UNCHANGED vars
  \/ \E t \in Tasks : Scan(t)

SearchSpec == SearchInit /\ [][SearchNext]_search_vars

-----------------------------------------------------------------------------
\* The search is that of a task inside the mutex, for its request, on the
\* bitmap as it is: nobody changed it since the loop began.
SearchIsOfHolder ==
  /\ phase \in {"find", "found", "nofit"} =>
       \E t \in Tasks :
         /\ pc[t] = "alloc_find"
         /\ total_blocks = total /\ bits = bitmap
         /\ nblocks = want[t] /\ alignment = align[t]
  /\ phase \in {"max", "done"} => \E t \in Tasks : pc[t] = "max_free"

\* The pool with its loops does what PsramPool does, where the search is one
\* step that knows the lowest fit.
ImplementsPool == Spec
=============================================================================
