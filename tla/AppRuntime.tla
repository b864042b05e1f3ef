----------------------------- MODULE AppRuntime -----------------------------
(***************************************************************************)
(* The life of an app: app_loader_load reads, verifies and relocates its   *)
(* file into a block of the PSRAM pool (src/app_loader.c), the kernel runs *)
(* it in its own task (app_loader_run, as app_main does) or in a sandbox   *)
(* task (src/app_sandbox.c), and app_loader_unload frees it.               *)
(*                                                                         *)
(* Memory is counted in words; the file's body is its program (code, rodata*)
(* and data) followed by one word per relocation.  The block has room for  *)
(* the program and its BSS; what of the body lies past it is memory of     *)
(* others, and what the loader reads there may be anything.                *)
(***************************************************************************)
EXTENDS Naturals, Sequences

CONSTANTS
  Apps,       \* the files: records of
              \*   valid    does validate_header accept the header?
              \*   signed   does the signature match the body?
              \*   program  words of code, rodata and data, at least one
              \*   bss      words of BSS
              \*   relocs   sequence of [offset, target, known], target being
              \*            the section whose base is stored at the offset
  BlockWords, \* the pool allocates multiples of this
  ChunkWords  \* size of stream_buf

Section == {"code", "rodata", "data", "bss", "kernel"}

ASSUME RuntimeAssumption ==
  /\ BlockWords \in Nat \ {0} /\ ChunkWords \in Nat \ {0}
  /\ \A a \in Apps :
       /\ a.program \in Nat \ {0} /\ a.bss \in Nat
       /\ a.relocs \in Seq([offset : 0 .. a.program - 1, target : Section, known : BOOLEAN])

VARIABLES
  pc,         \* where the kernel task is
  app,        \* the file it was asked to load
  file,       \* is the file open?
  block,      \* words of the PSRAM block the load has, 0 if none
  mem,        \* what is in the words of the block
  at,         \* psram_offset, or the number of the relocation
  result,     \* load_result_t of the load or of the sandbox
  blocks,     \* blocks allocated for apps and not freed
  contexts,   \* app_context_t allocated and not freed
  task,       \* where the sandbox's app task is, "none" without one
  done,       \* is done_sem given?
  alive,      \* do the sandbox_state_t and its done_sem exist?
  active,     \* is s_active_sandbox set?
  crashed     \* state.crashed

load    == <<app, file, block, mem, at>>
heap    == <<blocks, contexts>>
sandbox == <<task, done, alive, active, crashed>>
vars    == <<pc, load, result, heap, sandbox>>

BodyWords(a) == a.program + Len(a.relocs)

\* A word is a word of the file's body, a section's base that was stored, zero,
\* or whatever was there before.
Body(k)  == <<"body", k>>
Base(s)  == <<"base", s>>
Zero     == <<"zero", 0>>
Junk     == <<"junk", 0>>

\* Words the pool hands out for n words.
RoundUp(n) == BlockWords * ((n + BlockWords - 1) \div BlockWords)

Goto(label) == pc' = label

Fail(code) == Goto("cleanup") /\ result' = code

Init ==
  /\ pc = "idle" /\ app \in Apps
  /\ file = FALSE /\ block = 0 /\ mem = <<>> /\ at = 0
  /\ result = "OK" /\ blocks = 0 /\ contexts = 0
  /\ task = "none" /\ done = FALSE /\ alive = FALSE /\ active = FALSE /\ crashed = FALSE

-----------------------------------------------------------------------------
(* app_loader_load *)

LoadCall(a) ==
  /\ pc = "idle"
  /\ app' = a
  /\ \/ file' = TRUE /\ Goto("header") /\ result' = "OK"
     \/ file' = FALSE /\ Goto("idle") /\ result' = "FILE_OPEN"
  /\ UNCHANGED <<block, mem, at, heap, sandbox>>

\* Reads the header and validates it.  (A uint8_t version is never above
\* KERNEL_ABI_VERSION, 256.)
ReadHeader ==
  /\ pc = "header"
  /\ \/ Fail("HEADER_READ")
     \/ ~app.valid /\ Fail("BAD_HEADER")
     \/ app.valid /\ Goto("alloc") /\ UNCHANGED result
  /\ UNCHANGED <<load, heap, sandbox>>

TotalRam == app.program + app.bss

AllocBlock ==
  /\ pc = "alloc"
  /\ \/ /\ block' = RoundUp(TotalRam)
        /\ blocks' = blocks + 1
        /\ mem' = [k \in 0 .. RoundUp(TotalRam) - 1 |-> Junk]
        /\ Goto("body") /\ UNCHANGED result
     \/ Fail("PSALLOC") /\ UNCHANGED <<block, blocks, mem>>
  /\ at' = 0
  /\ UNCHANGED <<app, file, contexts, sandbox>>

\* The block after the words of new were stored; those past it hit others.
Stored(new) == [k \in DOMAIN mem |-> IF k \in DOMAIN new THEN new[k] ELSE mem[k]]

\* One chunk of the body, relocations included, goes to psram_offset.
ReadChunk ==
  /\ pc = "body" /\ at < BodyWords(app)
  /\ \/ /\ LET next == IF at + ChunkWords < BodyWords(app) THEN at + ChunkWords
                                                            ELSE BodyWords(app)
           IN  mem' = Stored([k \in at .. next - 1 |-> Body(k)]) /\ at' = next
        /\ UNCHANGED <<pc, result>>
     \/ Fail("BODY_READ") /\ UNCHANGED <<mem, at>>
  /\ UNCHANGED <<app, file, block, heap, sandbox>>

\* The signature; then the file is closed.
Verify ==
  /\ pc = "body" /\ at = BodyWords(app)
  /\ \/ Fail("BODY_READ") /\ UNCHANGED file
     \/ ~app.signed /\ Fail("SIGNATURE") /\ UNCHANGED file
     \/ app.signed /\ file' = FALSE /\ Goto("bss") /\ UNCHANGED result
  /\ UNCHANGED <<app, block, mem, at, heap, sandbox>>

ZeroBss ==
  /\ pc = "bss"
  /\ mem' = Stored([k \in app.program .. app.program + app.bss - 1 |-> Zero])
  /\ at' = 1
  /\ Goto("reloc")
  /\ UNCHANGED <<app, file, block, result, heap, sandbox>>

\* Variant with a bug: the last relocation is not applied.
MoreRelocs_NotLast == at < Len(app.relocs)

MoreRelocs == at <= Len(app.relocs)

\* What may be read as the relocation at word k: the file's, or, if zeroed,
\* ABS32 of the code's base at offset 0; past the block anything, also an
\* offset that lies past it.
Entries(k) ==
  IF k \notin DOMAIN mem THEN [offset : 0 .. block, target : Section, known : BOOLEAN]
  ELSE IF mem[k] = Zero THEN {[offset |-> 0, target |-> "code", known |-> TRUE]}
  ELSE {app.relocs[mem[k][2] - app.program + 1]}

Relocate ==
  /\ pc = "reloc" /\ MoreRelocs
  /\ \E r \in Entries(app.program + at - 1) :
       \/ /\ r.known
          /\ mem' = Stored([k \in {r.offset} |-> Base(r.target)])
          /\ at' = at + 1
          /\ UNCHANGED <<pc, result>>
       \/ ~r.known /\ Fail("RELOC") /\ UNCHANGED <<mem, at>>
  /\ UNCHANGED <<app, file, block, heap, sandbox>>

\* The context, or no memory for it.
MakeContext ==
  /\ pc = "reloc" /\ ~MoreRelocs
  /\ \/ contexts' = contexts + 1 /\ Goto("loaded") /\ UNCHANGED result
     \/ Fail("PSALLOC") /\ UNCHANGED contexts
  /\ at' = 0
  /\ UNCHANGED <<app, file, block, mem, blocks, sandbox>>

\* Variant with a bug: the block is kept if only the context is missing.
FreesBlock_Unless == result # "PSALLOC"

FreesBlock == TRUE

Cleanup ==
  /\ pc = "cleanup"
  /\ file' = FALSE
  /\ blocks' = IF block > 0 /\ FreesBlock THEN blocks - 1 ELSE blocks
  /\ block' = 0 /\ mem' = <<>> /\ at' = 0
  /\ Goto("idle")
  /\ UNCHANGED <<app, result, contexts, sandbox>>

-----------------------------------------------------------------------------
(* app_loader_run and app_loader_unload *)

\* In the kernel's own task, as app_main runs the first app, until it returns.
RunDirectly ==
  /\ pc = "loaded"
  /\ Goto("direct")
  /\ UNCHANGED <<load, result, heap, sandbox>>

AppReturns ==
  /\ pc = "direct"
  /\ Goto("unload")
  /\ UNCHANGED <<load, result, heap, sandbox>>

UnloadBlock ==
  /\ pc = "unload"
  /\ blocks' = blocks - 1 /\ block' = 0 /\ mem' = <<>>
  /\ Goto("free")
  /\ UNCHANGED <<app, file, at, result, contexts, sandbox>>

UnloadContext ==
  /\ pc = "free"
  /\ contexts' = contexts - 1
  /\ Goto("idle")
  /\ UNCHANGED <<load, result, blocks, sandbox>>

-----------------------------------------------------------------------------
(* app_sandbox_run *)

\* Makes the state, publishes it and creates the app's task.
app_sandbox_run ==
  /\ pc = "loaded"
  /\ result' = "RELOC"
  /\ done' = FALSE /\ alive' = TRUE /\ active' = TRUE /\ crashed' = FALSE
  /\ \/ task' = "entry" /\ Goto("wait")
     \/ task' = "none" /\ Goto("no_task")
  /\ UNCHANGED <<load, heap>>

TaskNotCreated ==
  /\ pc = "no_task"
  /\ result' = "PSALLOC"
  /\ active' = FALSE /\ alive' = FALSE
  /\ Goto("unload")
  /\ UNCHANGED <<load, heap, task, done, crashed>>

WaitTaken ==
  /\ pc = "wait" /\ done
  /\ done' = FALSE
  /\ Goto("finish")
  /\ UNCHANGED <<load, result, heap, task, alive, active, crashed>>

WaitTimeout ==
  /\ pc = "wait" /\ ~done
  /\ Goto("check")
  /\ UNCHANGED <<load, result, heap, sandbox>>

\* Variant with a bug: an app that takes too long is given up.
GivesUp_TooLong == TRUE

\* Variant with a bug: only the semaphore ends the wait.
GivesUp_Never == FALSE

\* The task vanished without crashing.
GivesUp == task = "deleted" /\ ~crashed

CheckTask ==
  /\ pc = "check"
  /\ \/ GivesUp /\ result' = "RELOC" /\ Goto("finish")
     \/ ~GivesUp /\ Goto("wait") /\ UNCHANGED result
  /\ UNCHANGED <<load, heap, sandbox>>

\* The state goes out of scope, and the kernel unloads the app.
SandboxReturns ==
  /\ pc = "finish"
  /\ active' = FALSE /\ alive' = FALSE
  /\ result' = IF crashed THEN "RELOC" ELSE result
  /\ task' = IF task = "deleted" THEN "none" ELSE task
  /\ Goto("unload")
  /\ UNCHANGED <<load, heap, done, crashed>>

-----------------------------------------------------------------------------
(* The app's task: app_task_entry, and app_sandbox_panic_hook *)

TaskGoto(label) == task' = label

TaskEnters ==
  /\ task = "entry"
  /\ TaskGoto("run")
  /\ UNCHANGED <<pc, load, result, heap, done, alive, active, crashed>>

TaskReturns ==
  /\ task = "run"
  /\ TaskGoto("result")
  /\ UNCHANGED <<pc, load, result, heap, done, alive, active, crashed>>

TaskResult ==
  /\ task = "result"
  /\ result' = "OK"
  /\ TaskGoto("give")
  /\ UNCHANGED <<pc, load, heap, done, alive, active, crashed>>

TaskGives ==
  /\ task = "give"
  /\ done' = TRUE
  /\ TaskGoto("delete")
  /\ UNCHANGED <<pc, load, result, heap, alive, active, crashed>>

\* vTaskDelete; the kernel no longer looks if it has gone on already.
TaskDeletes ==
  /\ task = "delete"
  /\ TaskGoto(IF alive THEN "deleted" ELSE "none")
  /\ UNCHANGED <<pc, load, result, heap, done, alive, active, crashed>>

\* Something else deletes the task while the app runs.
TaskVanishes ==
  /\ task = "run"
  /\ TaskGoto("deleted")
  /\ UNCHANGED <<pc, load, result, heap, done, alive, active, crashed>>

\* The app faults: the panic hook marks the active sandbox.
app_sandbox_panic_hook ==
  /\ task = "run"
  /\ crashed' = active
  /\ TaskGoto("halted")
  /\ UNCHANGED <<pc, load, result, heap, done, alive, active>>

-----------------------------------------------------------------------------

Kernel ==
  \/ ReadHeader \/ AllocBlock \/ ReadChunk \/ Verify \/ ZeroBss \/ Relocate
  \/ MakeContext \/ Cleanup
  \/ UnloadBlock \/ UnloadContext
  \/ TaskNotCreated \/ WaitTaken \/ WaitTimeout \/ CheckTask \/ SandboxReturns

AppTask == TaskEnters \/ TaskResult \/ TaskGives \/ TaskDeletes

\* A bound of the model: a new app is loaded when the task of the one before is
\* gone.
Next ==
  \/ task = "none" /\ \E a \in Apps : LoadCall(a)
  \/ RunDirectly \/ app_sandbox_run \/ AppReturns
  \/ Kernel \/ AppTask
  \/ TaskReturns \/ TaskVanishes \/ app_sandbox_panic_hook

\* The kernel's task and the app's task outside of the app's own code run on;
\* nothing says that the app returns.
Spec == Init /\ [][Next]_vars /\ WF_vars(Kernel) /\ WF_vars(AppTask)

-----------------------------------------------------------------------------
(* Properties *)

\* Whichever step of a load fails, and however the app ends, no block, no
\* context and no open file is left over between two apps.
NothingHeldBetweenApps == pc = "idle" => blocks = 0 /\ contexts = 0 /\ ~file

\* The block is not freed and the sandbox's state not left while the app's task
\* still executes code from the one or reads and writes the other.
CodeOutlivesTask ==
  /\ task \in {"entry", "run"} => block > 0
  /\ task \in {"entry", "result", "give"} => alive

\* An app that ends, whichever way but a crash, is unloaded.
EndedIsUnloaded == task \in {"result", "deleted"} /\ pc # "idle" /\ ~crashed ~> pc = "idle"

\* The word the program expects at k: the base of the section its last
\* relocation for k names, or what the file has there.
Expected(k) ==
  LET for == {j \in DOMAIN app.relocs : app.relocs[j].offset = k}
  IN  IF for = {} THEN Body(k)
      ELSE Base(app.relocs[CHOOSE j \in for : \A l \in for : l <= j].target)

\* The relocations lie in the block, and no BSS lies over them.
TableFits == app.bss = 0 /\ BodyWords(app) <= RoundUp(TotalRam)

\* An app whose relocations fit in what the pool rounded its block up by, and
\* that has no BSS, is in memory as its file has it, and fully relocated.  The
\* loader allocates no room for the table (line 240) and zeroes the BSS before
\* it reads it (296), so nothing holds for other apps.
ImageIfTableFits ==
  pc = "loaded" /\ TableFits => \A k \in 0 .. app.program - 1 : mem[k] = Expected(k)
=============================================================================
