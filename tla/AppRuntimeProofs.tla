-------------------------- MODULE AppRuntimeProofs --------------------------
(***************************************************************************)
(* Proofs about loading and running an app: what the kernel task holds     *)
(* where, how long the app's task uses it, and that the relocation of a    *)
(* program whose relocations fit in its block gives the image the file     *)
(* asks for, for every set of files and every size of the pool's blocks    *)
(* and of the chunks.                                                      *)
(***************************************************************************)
EXTENDS AppRuntime, TLAPS

-----------------------------------------------------------------------------
(* The inductive invariant *)

\* The kernel task with a load under way, and with a loaded app.
Loading == {"header", "alloc", "body", "bss", "reloc", "cleanup"}
Loaded  == {"loaded", "direct", "unload", "no_task", "wait", "check", "finish"}

TypeOK ==
  /\ pc \in {"idle", "free"} \cup Loading \cup Loaded
  /\ app \in Apps /\ block \in Nat /\ at \in Nat /\ blocks \in Nat /\ contexts \in Nat
  /\ file \in BOOLEAN

\* Which of the block, the context and the file the kernel holds where.
HoldInv ==
  /\ blocks = (IF block > 0 THEN 1 ELSE 0)
  /\ pc \in {"body", "bss", "reloc"} \cup Loaded => block > 0
  /\ pc \in {"idle", "header", "alloc", "free"} => block = 0
  /\ contexts = (IF pc \in Loaded \cup {"free"} THEN 1 ELSE 0)
  /\ file => pc \in {"header", "alloc", "body", "cleanup"}

\* The kernel waits until the app's task has given the semaphore, or is gone.
TaskInv ==
  /\ task \in {"entry", "run", "result", "give"} => pc \in {"wait", "check"} /\ ~done
  /\ pc \in {"wait", "check"} => alive

\* The relocations before the n-th that are for word k.
Before(k, n) == {j \in DOMAIN app.relocs : j < n /\ app.relocs[j].offset = k}

\* Word k is as its file has it, or stores the base that the last of the
\* relocations before the n-th names for it.
Relocated(k, n) ==
  /\ k \in DOMAIN mem
  /\ \/ Before(k, n) = {} /\ mem[k] = Body(k)
     \/ \E j \in Before(k, n) :
          (\A l \in Before(k, n) : l <= j) /\ mem[k] = Base(app.relocs[j].target)

\* What the load has done so far: the body is read in order, and relocations
\* that fit behind the program stay until they have been applied.
ImageInv ==
  /\ pc \in {"body", "bss", "reloc"} => DOMAIN mem = 0 .. RoundUp(TotalRam) - 1
  /\ pc = "body" =>
       at <= BodyWords(app) /\ \A k \in 0 .. at - 1 : k \in DOMAIN mem => mem[k] = Body(k)
  /\ pc = "bss" =>
       \A k \in 0 .. BodyWords(app) - 1 : k \in DOMAIN mem => mem[k] = Body(k)
  /\ pc = "reloc" /\ TableFits =>
       /\ at \in 1 .. Len(app.relocs) + 1
       /\ \A k \in app.program .. BodyWords(app) - 1 : k \in DOMAIN mem /\ mem[k] = Body(k)
       /\ \A k \in 0 .. app.program - 1 : Relocated(k, at)
  /\ pc = "loaded" /\ TableFits =>
       \A k \in 0 .. app.program - 1 : Relocated(k, Len(app.relocs) + 1)

IInv == TypeOK /\ HoldInv /\ TaskInv /\ ImageInv

-----------------------------------------------------------------------------
(* Lemmas about the operators *)

\* What dividing gives.
LEMMA Division ==
  ASSUME NEW a \in Nat \ {0}, NEW x \in Nat
  PROVE  x \div a \in Nat /\ x % a \in 0 .. a - 1 /\ x = a * (x \div a) + (x % a)
  OBVIOUS

\* The pool hands out at least the words asked for.
LEMMA Rounding ==
  ASSUME NEW n \in Nat
  PROVE  RoundUp(n) \in Nat /\ RoundUp(n) >= n
<1> DEFINE x == n + BlockWords - 1
           d == x \div BlockWords
<1>1. BlockWords \in Nat \ {0} /\ x \in Nat
  BY RuntimeAssumption
<1>2. d \in Nat /\ x % BlockWords \in 0 .. BlockWords - 1 /\ x = BlockWords * d + (x % BlockWords)
  BY <1>1, Division
<1>3. RoundUp(n) = BlockWords * d
  BY DEF RoundUp
<1>4. BlockWords * d \in Nat
  BY <1>1, <1>2
<1>5. x = n + BlockWords - 1
  OBVIOUS
<1> HIDE DEF d, x
<1> QED BY <1>1, <1>2, <1>3, <1>4, <1>5

\* The sizes and the relocations of a file.
LEMMA FileTyped ==
  ASSUME app \in Apps
  PROVE  /\ app.program \in Nat \ {0} /\ app.bss \in Nat /\ TotalRam \in Nat \ {0}
         /\ Len(app.relocs) \in Nat /\ BodyWords(app) \in Nat
         /\ BodyWords(app) = app.program + Len(app.relocs)
         /\ DOMAIN app.relocs = 1 .. Len(app.relocs)
         /\ \A j \in 1 .. Len(app.relocs) : app.relocs[j].offset \in 0 .. app.program - 1
<1>1. /\ app.program \in Nat \ {0} /\ app.bss \in Nat
      /\ app.relocs \in Seq([offset : 0 .. app.program - 1, target : Section, known : BOOLEAN])
  BY RuntimeAssumption
<1> DEFINE R == [offset : 0 .. app.program - 1, target : Section, known : BOOLEAN]
<1>2. \A r \in R : r.offset \in 0 .. app.program - 1
  OBVIOUS
<1> HIDE DEF R
<1>3. app.relocs \in Seq(R)
  BY <1>1 DEF R
<1>4. /\ Len(app.relocs) \in Nat /\ DOMAIN app.relocs = 1 .. Len(app.relocs)
      /\ \A j \in 1 .. Len(app.relocs) : app.relocs[j] \in R
  BY <1>3
<1> QED BY <1>1, <1>2, <1>4 DEF TotalRam, BodyWords

\* Storing words changes these words of the block and no other.
LEMMA StoredWords ==
  ASSUME NEW new
  PROVE  /\ DOMAIN Stored(new) = DOMAIN mem
         /\ \A k \in DOMAIN mem :
              Stored(new)[k] = IF k \in DOMAIN new THEN new[k] ELSE mem[k]
  BY DEF Stored

\* As long as a relocation is in memory, it is the file's.
LEMMA EntryInFile ==
  ASSUME app \in Apps, at \in 1 .. Len(app.relocs),
         app.program + at - 1 \in DOMAIN mem,
         mem[app.program + at - 1] = Body(app.program + at - 1)
  PROVE  Entries(app.program + at - 1) = {app.relocs[at]}
<1> DEFINE k == app.program + at - 1
<1>1. k \in Nat /\ k - app.program + 1 = at
  BY FileTyped
<1>2. mem[k] = <<"body", k>>
  BY DEF Body
<1>3. k \in DOMAIN mem
  OBVIOUS
<1> HIDE DEF k
<1>4. mem[k] # Zero /\ mem[k][2] = k
  BY <1>2 DEF Zero
<1>5. Entries(k) = {app.relocs[k - app.program + 1]}
  BY <1>3, <1>4 DEF Entries
<1> QED BY <1>1, <1>5 DEF k

-----------------------------------------------------------------------------
(* The invariant holds initially and every step keeps it *)

LEMMA InvInit == Init => IInv
<1> SUFFICES ASSUME Init PROVE IInv
  OBVIOUS
<1>1. TypeOK
  BY DEF Init, TypeOK
<1>2. HoldInv
  BY DEF Init, HoldInv, Loaded
<1>3. TaskInv /\ ImageInv
  BY DEF Init, TaskInv, ImageInv
<1> QED BY <1>1, <1>2, <1>3 DEF IInv

\* The steps of the app's task leave the kernel task and what it holds alone.
AppTaskSteps ==
  AppTask \/ TaskReturns \/ TaskVanishes \/ app_sandbox_panic_hook

LEMMA TaskStepsKeep ==
  ASSUME AppTaskSteps PROVE UNCHANGED <<pc, load, heap, alive>>
  BY DEF AppTaskSteps, AppTask, TaskEnters, TaskReturns, TaskResult, TaskGives, TaskDeletes,
         TaskVanishes, app_sandbox_panic_hook, load, heap, TaskGoto

\* The steps of a run and of the unloading: the file and its image stay.
RunSteps ==
  \/ RunDirectly \/ app_sandbox_run \/ AppReturns \/ UnloadBlock \/ UnloadContext
  \/ TaskNotCreated \/ WaitTaken \/ WaitTimeout \/ CheckTask \/ SandboxReturns

\* The steps of a load.
LoadSteps ==
  \/ ReadHeader \/ AllocBlock \/ ReadChunk \/ Verify \/ ZeroBss \/ Relocate
  \/ MakeContext \/ Cleanup

LEMMA Steps ==
  ASSUME Next
  PROVE  \/ task = "none" /\ \E a \in Apps : LoadCall(a)
         \/ LoadSteps \/ RunSteps \/ AppTaskSteps
  BY DEF Next, Kernel, LoadSteps, RunSteps, AppTaskSteps

\* Every step of the kernel task keeps what it holds in step with where it is.
LEMMA HoldStep ==
  ASSUME TypeOK, HoldInv, [Next]_vars
  PROVE  TypeOK' /\ HoldInv'
<1> USE DEF TypeOK, HoldInv, Loading, Loaded, Goto, Fail
<1>1. CASE UNCHANGED vars
  BY <1>1 DEF vars, load, heap
<1>2. ASSUME NEW a \in Apps, LoadCall(a) PROVE TypeOK' /\ HoldInv'
  BY <1>2 DEF LoadCall, heap
<1>3. CASE LoadSteps
  <2>1. CASE ReadHeader
    BY <2>1 DEF ReadHeader, load, heap
  <2>2. CASE AllocBlock
    <3>1. RoundUp(TotalRam) \in Nat /\ RoundUp(TotalRam) > 0
      BY FileTyped, Rounding
    <3> QED BY <2>2, <3>1 DEF AllocBlock
  <2>3. CASE ReadChunk
    <3>1. at' \in Nat
      BY <2>3, FileTyped, RuntimeAssumption DEF ReadChunk
    <3> QED BY <2>3, <3>1 DEF ReadChunk, heap
  <2>4. CASE Verify
    BY <2>4 DEF Verify, heap
  <2>5. CASE ZeroBss
    BY <2>5 DEF ZeroBss, heap
  <2>6. CASE Relocate
    <3>1. at' \in Nat
      BY <2>6 DEF Relocate
    <3>2. (pc' = pc \/ pc' = "cleanup") /\ pc = "reloc"
      BY <2>6 DEF Relocate
    <3> QED BY <2>6, <3>1, <3>2 DEF Relocate, heap
  <2>7. CASE MakeContext
    BY <2>7 DEF MakeContext
  <2>8. CASE Cleanup
    <3>1. block' = 0 /\ blocks' = 0 /\ contexts' = 0 /\ pc' = "idle" /\ file' = FALSE
      BY <2>8 DEF Cleanup, FreesBlock
    <3>2. app' = app /\ at' = 0
      BY <2>8 DEF Cleanup
    <3>3. TypeOK'
      BY <3>1, <3>2
    <3>4. HoldInv'
      BY <3>1
    <3> QED BY <3>3, <3>4
  <2> QED BY <1>3, <2>1, <2>2, <2>3, <2>4, <2>5, <2>6, <2>7, <2>8 DEF LoadSteps
<1>4. CASE RunSteps
  <2>1. CASE UnloadBlock
    BY <2>1 DEF UnloadBlock
  <2>2. CASE UnloadContext
    BY <2>2 DEF UnloadContext, load
  <2>3. CASE ~UnloadBlock /\ ~UnloadContext
    <3>1. UNCHANGED <<load, heap>> /\ pc \in Loaded /\ pc' \in Loaded
      BY <1>4, <2>3 DEF RunSteps, RunDirectly, app_sandbox_run, AppReturns, TaskNotCreated,
             WaitTaken, WaitTimeout, CheckTask, SandboxReturns
    <3> QED BY <3>1 DEF load, heap
  <2> QED BY <2>1, <2>2, <2>3
<1>5. CASE AppTaskSteps
  BY <1>5, TaskStepsKeep DEF load, heap
<1> QED BY <1>1, <1>2, <1>3, <1>4, <1>5, Steps

\* While the app's task is there, the kernel waits and does not go on.
LEMMA TaskStep ==
  ASSUME TypeOK, TaskInv, [Next]_vars
  PROVE  TaskInv'
<1> USE DEF TaskInv, Goto, Fail
<1>1. CASE UNCHANGED vars
  BY <1>1 DEF vars, sandbox
<1>2. ASSUME task = "none", NEW a \in Apps, LoadCall(a) PROVE TaskInv'
  BY <1>2 DEF LoadCall, sandbox
<1>3. CASE LoadSteps
  <2>1. UNCHANGED sandbox /\ pc \notin {"wait", "check"} /\ pc' \notin {"wait", "check"}
    BY <1>3 DEF LoadSteps, ReadHeader, AllocBlock, ReadChunk, Verify, ZeroBss, Relocate,
                MakeContext, Cleanup
  <2> QED BY <2>1 DEF sandbox
<1>4. CASE RunSteps
  <2>1. CASE RunDirectly \/ AppReturns \/ UnloadBlock \/ UnloadContext
    BY <2>1 DEF RunDirectly, AppReturns, UnloadBlock, UnloadContext, sandbox
  <2>2. CASE app_sandbox_run
    BY <2>2 DEF app_sandbox_run
  <2>3. CASE TaskNotCreated
    BY <2>3 DEF TaskNotCreated
  <2>4. CASE WaitTaken
    BY <2>4 DEF WaitTaken
  <2>5. CASE WaitTimeout
    BY <2>5 DEF WaitTimeout, sandbox
  <2>6. CASE CheckTask
    BY <2>6 DEF CheckTask, GivesUp, sandbox
  <2>7. CASE SandboxReturns
    BY <2>7 DEF SandboxReturns
  <2> QED BY <1>4, <2>1, <2>2, <2>3, <2>4, <2>5, <2>6, <2>7 DEF RunSteps
<1>5. CASE AppTaskSteps
  <2>1. pc' = pc /\ alive' = alive
    BY <1>5, TaskStepsKeep
  <2>2. task' \in {"entry", "run", "result", "give"} =>
          task \in {"entry", "run", "result", "give"} /\ done' = done
    BY <1>5 DEF AppTaskSteps, AppTask, TaskEnters, TaskReturns, TaskResult, TaskGives,
                TaskDeletes, TaskVanishes, app_sandbox_panic_hook, TaskGoto
  <2> QED BY <2>1, <2>2
<1> QED BY <1>1, <1>2, <1>3, <1>4, <1>5, Steps

-----------------------------------------------------------------------------
(* The image *)

\* A chunk continues the body where the last one ended.
LEMMA ReadChunkImage ==
  ASSUME TypeOK, ImageInv, ReadChunk PROVE ImageInv'
<1> DEFINE next == IF at + ChunkWords < BodyWords(app) THEN at + ChunkWords ELSE BodyWords(app)
           new  == [k \in at .. next - 1 |-> Body(k)]
<1>1. CASE pc' = "cleanup"
  BY <1>1 DEF ImageInv
<1>2. CASE pc' # "cleanup"
  <2>1. pc = "body" /\ pc' = "body" /\ app' = app /\ mem' = Stored(new) /\ at' = next
    BY <1>2 DEF ReadChunk, Fail, Goto
  <2>2. next \in Nat /\ next <= BodyWords(app) /\ at \in Nat
    BY FileTyped, RuntimeAssumption DEF TypeOK
  <2>3. ASSUME NEW k \in 0 .. next - 1, k \in DOMAIN mem
        PROVE  mem'[k] = Body(k)
    <3>1. CASE k \in at .. next - 1
      <4>1. k \in DOMAIN new /\ new[k] = Body(k)
        BY <3>1
      <4> QED BY <4>1, <2>1, <2>3, StoredWords
    <3>2. CASE k \notin at .. next - 1
      <4>1. k \in 0 .. at - 1 /\ k \notin DOMAIN new
        BY <3>2, <2>2, <2>3
      <4>2. mem[k] = Body(k)
        BY <4>1, <2>1, <2>3 DEF ImageInv
      <4> QED BY <4>1, <4>2, <2>1, <2>3, StoredWords
    <3> QED BY <3>1, <3>2
  <2> HIDE DEF next, new
  <2>4. DOMAIN mem' = DOMAIN mem /\ TotalRam' = TotalRam
    BY <2>1, StoredWords DEF TotalRam
  <2> QED BY <2>1, <2>2, <2>3, <2>4 DEF ImageInv, BodyWords, Body, RoundUp
<1> QED BY <1>1, <1>2

\* Without BSS nothing is zeroed, and nothing is relocated yet.
LEMMA ZeroBssImage ==
  ASSUME TypeOK, ImageInv, ZeroBss PROVE ImageInv'
<1> DEFINE new == [k \in app.program .. app.program + app.bss - 1 |-> Zero]
<1>1. pc = "bss" /\ pc' = "reloc" /\ app' = app /\ mem' = Stored(new) /\ at' = 1
  BY DEF ZeroBss, Goto
<1>d. DOMAIN mem' = DOMAIN mem /\ DOMAIN mem = 0 .. RoundUp(TotalRam) - 1
  BY <1>1, StoredWords DEF ImageInv
<1>2. SUFFICES ASSUME TableFits
      PROVE  /\ 1 \in 1 .. Len(app.relocs) + 1
             /\ \A k \in app.program .. BodyWords(app) - 1 : k \in DOMAIN mem' /\ mem'[k] = Body(k)
             /\ \A k \in 0 .. app.program - 1 : Relocated(k, 1)'
  BY <1>1, <1>d DEF ImageInv, BodyWords, Body, TableFits, TotalRam, RoundUp
<1>3. ASSUME NEW k \in 0 .. BodyWords(app) - 1
      PROVE  k \in DOMAIN mem' /\ mem'[k] = Body(k)
  <2>1. k \notin DOMAIN new
    BY <1>2, FileTyped DEF TypeOK, TableFits
  <2>2. RoundUp(TotalRam) \in Nat /\ BodyWords(app) <= RoundUp(TotalRam) /\ BodyWords(app) \in Nat
    BY <1>2, FileTyped, Rounding DEF TypeOK, TableFits
  <2>3. k \in DOMAIN mem
    BY <1>d, <2>2
  <2>4. mem[k] = Body(k)
    BY <1>1, <2>3 DEF ImageInv
  <2> QED BY <2>1, <2>3, <2>4, <1>1, StoredWords
<1>4. ASSUME NEW k \in 0 .. app.program - 1 PROVE Relocated(k, 1)'
  <2>1. k \in 0 .. BodyWords(app) - 1
    BY FileTyped DEF TypeOK
  <2>2. Before(k, 1)' = {}
    BY <1>1, FileTyped DEF Before, TypeOK
  <2> QED BY <2>1, <2>2, <1>3 DEF Relocated, Body
<1>5. \A k \in app.program .. BodyWords(app) - 1 : k \in 0 .. BodyWords(app) - 1
  BY FileTyped DEF TypeOK
<1>6. 1 \in 1 .. Len(app.relocs) + 1
  BY FileTyped DEF TypeOK
<1> QED BY <1>3, <1>4, <1>5, <1>6

\* One relocation: its word gets the base, and it is the last for this word.
LEMMA RelocateImage ==
  ASSUME TypeOK, ImageInv, Relocate PROVE ImageInv'
<1>1. CASE pc' = "cleanup"
  BY <1>1 DEF ImageInv
<1>d. pc' # "cleanup" =>
        /\ pc = "reloc" /\ pc' = "reloc" /\ app' = app
        /\ DOMAIN mem' = DOMAIN mem /\ TotalRam' = TotalRam
  BY StoredWords DEF Relocate, Fail, Goto, TotalRam
<1>2. CASE pc' # "cleanup" /\ ~TableFits
  BY <1>2, <1>d DEF ImageInv, TableFits, BodyWords, RoundUp
<1>3. CASE pc' # "cleanup" /\ TableFits
  <2> DEFINE r   == app.relocs[at]
             new == [k \in {r.offset} |-> Base(r.target)]
  <2>1. /\ pc = "reloc" /\ pc' = "reloc" /\ app' = app /\ at' = at + 1
        /\ at \in 1 .. Len(app.relocs) /\ at \in Nat
    BY <1>3, FileTyped DEF Relocate, MoreRelocs, Fail, Goto, ImageInv, TypeOK
  <2>2. \A k \in app.program .. BodyWords(app) - 1 : k \in DOMAIN mem /\ mem[k] = Body(k)
    BY <2>1, <1>3 DEF ImageInv
  <2>3. app.program + at - 1 \in app.program .. BodyWords(app) - 1
    BY <2>1, FileTyped DEF TypeOK
  <2>4. Entries(app.program + at - 1) = {r}
    BY <2>1, <2>2, <2>3, EntryInFile DEF TypeOK
  <2>5. mem' = Stored(new)
    BY <2>4, <1>3 DEF Relocate, Fail, Goto
  <2>6. r.offset \in 0 .. app.program - 1
    BY <2>1, FileTyped DEF TypeOK
  <2>7. ASSUME NEW k \in app.program .. BodyWords(app) - 1
        PROVE  k \in DOMAIN mem' /\ mem'[k] = Body(k)
    <3>1. k \notin DOMAIN new
      BY <2>6, FileTyped DEF TypeOK
    <3>2. k \in DOMAIN mem /\ mem[k] = Body(k)
      BY <2>2
    <3> QED BY <3>1, <3>2, <2>5, StoredWords
  <2>8. ASSUME NEW k \in 0 .. app.program - 1 PROVE Relocated(k, at)'
    <3> HIDE DEF r, new
    <3>1. Before(k, at)' = Before(k, at) \cup (IF r.offset = k THEN {at} ELSE {})
      <4>1. Before(k, at)' = {j \in DOMAIN app.relocs : j < at + 1 /\ app.relocs[j].offset = k}
        BY <2>1 DEF Before
      <4>2. ASSUME NEW j \in DOMAIN app.relocs
            PROVE  j < at + 1 /\ app.relocs[j].offset = k
                     <=> (j < at /\ app.relocs[j].offset = k) \/ (j = at /\ r.offset = k)
        <5>1. j \in Nat
          BY FileTyped DEF TypeOK
        <5> QED BY <5>1, <2>1 DEF r
      <4>3. at \in DOMAIN app.relocs
        BY <2>1, FileTyped DEF TypeOK
      <4> QED BY <4>1, <4>2, <4>3 DEF Before
    <3>2. \A l \in Before(k, at) : l \in Nat /\ l < at
      BY FileTyped DEF Before, TypeOK
    <3>3. CASE r.offset = k
      <4>0. k \in DOMAIN mem
        BY <2>1, <1>3 DEF ImageInv, Relocated
      <4>1. k \in DOMAIN mem' /\ mem'[k] = Base(r.target)
        BY <4>0, <3>3, <2>5, StoredWords DEF new
      <4>2. at \in Before(k, at)' /\ \A l \in Before(k, at)' : l <= at
        BY <3>1, <3>2, <3>3, <2>1
      <4> QED BY <4>1, <4>2, <2>1 DEF Relocated, r, Base
    <3>4. CASE r.offset # k
      <4>1. Relocated(k, at)
        BY <2>1, <1>3 DEF ImageInv
      <4>2. k \in DOMAIN mem' /\ mem'[k] = mem[k]
        BY <4>1, <3>4, <2>5, StoredWords DEF Relocated, new
      <4>3. Before(k, at)' = Before(k, at)
        BY <3>1, <3>4
      <4> QED BY <4>1, <4>2, <4>3, <2>1 DEF Relocated, Base, Body
    <3> QED BY <3>3, <3>4
  <2>9. at + 1 \in 1 .. Len(app.relocs) + 1
    BY <2>1, FileTyped DEF TypeOK
  <2> HIDE DEF r, new
  <2> QED BY <2>1, <2>7, <2>9, <2>8, <1>d, <1>3 DEF ImageInv, BodyWords, Body, RoundUp
<1> QED BY <1>1, <1>2, <1>3

\* The load is done when every relocation is applied.
LEMMA MakeContextImage ==
  ASSUME TypeOK, ImageInv, MakeContext PROVE ImageInv'
<1>1. CASE pc' = "cleanup"
  BY <1>1 DEF ImageInv
<1>2. CASE pc' # "cleanup"
  <2>1. pc = "reloc" /\ pc' = "loaded" /\ app' = app /\ mem' = mem /\ ~(at <= Len(app.relocs))
    BY <1>2 DEF MakeContext, MoreRelocs, Fail, Goto
  <2>2. ASSUME TableFits, NEW k \in 0 .. app.program - 1
        PROVE  Relocated(k, Len(app.relocs) + 1)'
    <3>1. Relocated(k, at) /\ at \in 1 .. Len(app.relocs) + 1
      BY <2>1, <2>2 DEF ImageInv
    <3>2. at = Len(app.relocs) + 1
      BY <3>1, <2>1, FileTyped DEF TypeOK
    <3> QED BY <3>1, <3>2, <2>1 DEF Relocated, Before, Base, Body
  <2> QED BY <2>1, <2>2 DEF ImageInv, TableFits, BodyWords, TotalRam, RoundUp
<1> QED BY <1>1, <1>2

\* Every step keeps what is known of the image.
LEMMA ImageStep ==
  ASSUME TypeOK, ImageInv, [Next]_vars
  PROVE  ImageInv'
<1> USE DEF Goto, Fail
<1>1. ASSUME pc' = pc, UNCHANGED <<app, mem, at>> PROVE ImageInv'
  BY <1>1 DEF ImageInv, BodyWords, Body, Relocated, Before, Base, TableFits, TotalRam, RoundUp
<1>2. ASSUME pc' \notin {"body", "bss", "reloc", "loaded"} PROVE ImageInv'
  BY <1>2 DEF ImageInv
<1>3. CASE UNCHANGED vars
  BY <1>1, <1>3 DEF vars, load
<1>4. ASSUME NEW a \in Apps, LoadCall(a) PROVE ImageInv'
  BY <1>2, <1>4 DEF LoadCall
<1>5. CASE LoadSteps
  <2>1. CASE AllocBlock
    <3>1. CASE pc' = "body"
      <4>1. at' = 0 /\ app' = app /\ mem' = [k \in 0 .. RoundUp(TotalRam) - 1 |-> Junk]
        BY <2>1, <3>1 DEF AllocBlock
      <4>2. BodyWords(app) \in Nat
        BY FileTyped DEF TypeOK
      <4> QED BY <3>1, <4>1, <4>2 DEF ImageInv, BodyWords, TotalRam, RoundUp, Junk
    <3> QED BY <2>1, <3>1, <1>2 DEF AllocBlock
  <2>2. CASE Verify
    <3>1. CASE pc' = "bss"
      <4>1. pc = "body" /\ at = BodyWords(app) /\ UNCHANGED <<app, mem>>
        BY <2>2 DEF Verify
      <4> QED BY <3>1, <4>1 DEF ImageInv, BodyWords, Body, TotalRam, RoundUp
    <3> QED BY <2>2, <3>1, <1>2 DEF Verify
  <2>3. CASE ReadHeader \/ Cleanup
    BY <2>3, <1>2 DEF ReadHeader, Cleanup
  <2> QED BY <1>5, <2>1, <2>2, <2>3, ReadChunkImage, ZeroBssImage, RelocateImage, MakeContextImage
          DEF LoadSteps
<1>6. CASE RunSteps
  <2>1. pc' \notin {"body", "bss", "reloc", "loaded"}
    BY <1>6 DEF RunSteps, RunDirectly, app_sandbox_run, AppReturns, UnloadBlock, UnloadContext,
           TaskNotCreated, WaitTaken, WaitTimeout, CheckTask, SandboxReturns
  <2> QED BY <2>1, <1>2
<1>7. CASE AppTaskSteps
  BY <1>1, <1>7, TaskStepsKeep DEF load
<1> QED BY <1>3, <1>4, <1>5, <1>6, <1>7, Steps

\* The invariant of a run of the kernel task and the app's task.
THEOREM RuntimeInvariant == Spec => []IInv
<1>1. Init => IInv
  BY InvInit
<1>2. IInv /\ [Next]_vars => IInv'
  BY HoldStep, TaskStep, ImageStep DEF IInv
<1> QED BY <1>1, <1>2, PTL DEF Spec

-----------------------------------------------------------------------------
(* What the runs check *)

\* Whichever step of app_loader_load fails, and however the app ends, its
\* block, its context and its file have been given back when the kernel task
\* may load the next.
THEOREM NothingLeftBetweenApps == Spec => []NothingHeldBetweenApps
<1>1. IInv => NothingHeldBetweenApps
  BY DEF IInv, TypeOK, HoldInv, NothingHeldBetweenApps, Loaded
<1> QED BY <1>1, RuntimeInvariant, PTL

\* app_sandbox_run leaves its state, and the kernel frees the block, only after
\* the app's task has given the semaphore or is gone.
THEOREM TaskHasItsMemory == Spec => []CodeOutlivesTask
<1>1. IInv => CodeOutlivesTask
  BY DEF IInv, HoldInv, TaskInv, CodeOutlivesTask, Loaded
<1> QED BY <1>1, RuntimeInvariant, PTL

\* A program without BSS whose relocations fit in its block is in memory as
\* its file has it, with the last base that app_loader_load's relocations name
\* for each word, whatever the sizes of program and chunks and however the
\* relocations overlap.
THEOREM ImageRelocated == Spec => []ImageIfTableFits
<1>1. ASSUME IInv, pc = "loaded", TableFits, NEW k \in 0 .. app.program - 1
      PROVE  mem[k] = Expected(k)
  <2> DEFINE for == {j \in DOMAIN app.relocs : app.relocs[j].offset = k}
             max == CHOOSE j \in for : \A l \in for : l <= j
  <2>1. Relocated(k, Len(app.relocs) + 1)
    BY <1>1 DEF IInv, ImageInv
  <2>2. Before(k, Len(app.relocs) + 1) = for /\ \A j \in for : j \in Nat
    BY <1>1, FileTyped DEF IInv, TypeOK, Before
  <2>3. Expected(k) = IF for = {} THEN Body(k) ELSE Base(app.relocs[max].target)
    BY DEF Expected
  <2> HIDE DEF for
  <2>4. CASE for = {}
    BY <2>1, <2>2, <2>3, <2>4 DEF Relocated
  <2>5. CASE for # {}
    <3>1. PICK j \in for : (\A l \in for : l <= j) /\ mem[k] = Base(app.relocs[j].target)
      BY <2>1, <2>2, <2>5 DEF Relocated
    <3>2. max \in for /\ \A l \in for : l <= max
      BY <3>1
    <3> HIDE DEF max
    <3>3. max = j
      BY <3>1, <3>2, <2>2
    <3> QED BY <3>1, <3>3, <2>3, <2>5
  <2> QED BY <2>4, <2>5
<1>2. IInv => ImageIfTableFits
  BY <1>1 DEF ImageIfTableFits
<1> QED BY <1>2, RuntimeInvariant, PTL
=============================================================================
