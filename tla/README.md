# ESPressOS in TLA+

TLA+ models of ESPressOS, an app-hosting operating system for the ESP32-S3
(FreeRTOS, PSRAM, SD card, LVGL display), the TLC runs that check them on small
instances, and TLAPS proofs for all instances: of every safety property (but the one about a second free) of its memory allocator
and the search in its bitmap, storage and lifecycle managers, app loader and sandbox, power manager,
A/V recorder (with one client, and if camera and card are fast enough), audio players and voice app, app updates and input service.
Paths are relative to the repository; code paths to its `src/` directory unless they
begin with `apps/` or `docs/`.

## 1. The system

| Component | Source | State it keeps | Operations | Talks to |
| --- | --- | --- | --- | --- |
| PSRAM block pool | `psram_pool.c` | bitmap, `used_blocks`, in-band headers in a linked list, a mutex | alloc (aligned), free, realloc, longest run, free size, statistics | loader; apps through the API table |
| Storage manager | `svc_storage.c` | card state, `fs_mounted`, callback; a mutex around the state alone | init, monitor task, start provisioning, provisioning task, get state | SD driver, lifecycle manager (callback in the task that changed the state) |
| Lifecycle manager | `lifecycle_manager.c` | `g_current_app_ctx` | `lifecycle_init`, `on_storage_event` | storage, loader, display overlays |
| App loader | `app_loader.c` | a context per loaded app | load, run, unload | pool, file system, signature check |
| App sandbox | `app_sandbox.c` | `sandbox_state_t` on the caller's stack, `s_active_sandbox` | run, panic hook, crash report | loader's context, FreeRTOS task and watchdog |
| Power manager | `svc_power.c` | power state, array of 8 locks, time of last activity; a mutex around acquire and release alone | acquire, release, wake, monitor task | display backlight, wake service |
| A/V recorder | `apps/camera/svc_av_recorder.c` | recorder state, file, two queues, stop flag, mutex | start, stop; video, audio and writer tasks | camera, microphone, file system |
| Input service | `svc_input.c` | button states, event queue, subscribers, pending gesture | button poll (timer), dispatch task, subscribe, unsubscribe, consume gesture | apps (callbacks), lifecycle |
| Battery service | `apps/battery/svc_battery.c` | hourly ring of voltages, rate, last reading | update task, getters, warning callback | ADC, GPIO |
| Audio service | `svc_audio.c` | a playback ring that outlives the apps; the handle is a sentinel | open, write, close (drains), DMA task, microphone | I2S |
| Audio players | `apps/app_audio.c`, `apps/audio/app_audio.c` | playing flag, file, pending chunk / thread handle | select, play/pause, `app_deinit`; stream timer / playback thread | audio service, threads |
| Voice assistant | `apps/voice/app_voice.c` | recording flag, thread handle, output handle | press, release, `app_deinit`; stream thread | audio service, threads, network |
| Settings and OTA | `apps/appstore/app_settings.c` | lists of local and remote apps; `/apps` and `/cache` on the card | check, download, verify, replace, go home | file system, network, kernel's launch request |
| Launcher | `app_launcher.c` | names of the listed apps | scan, click | file system, kernel's launch request |
| Display service | `svc_display.c` | table of the app's objects | create, set, clean up | LVGL |
| Wake-word service | `svc_wake.c` | triggered flag, chunk counter | detector task, consume, light sleep loop | audio, power |
| Kernel main, API table | `kernel_main.c`, `kernel_init.c`, `kernel_api.h` | the table | `app_main` | everything |
| Clock, file system, camera, gallery, social services; clock, camera and battery UIs; tools | | none or a flag each | forwarding to libraries, layout | |

**What is hard here.** Almost every component is shared by several FreeRTOS tasks, and
almost every one protects a part of its state only: the pool reads a header before it
takes its mutex, the storage manager's mutex covers one assignment and neither the mount
nor the callback, the power monitor reads the locks without the mutex that apps take, the
recorder waits for three tasks by sleeping half a second, the players' threads and handlers
share one flag. Cards are pulled out at any
moment, also during boot. Loads fail at each of seven steps, updates at each of six, and the
power may go between any two of them. `PROJECT.json` lists each
such hazard at its line, with the property that covers it or the reason there is none.

**What correctness means**, per component:

* *Pool*: disjoint live extents, nothing leaked or freed twice, payloads intact across
  realloc, the lowest fit is found, every call returns (which the statistics do not).
* *Storage*: the mount flag claims no mount there is not; a removed card ends up unmounted, by flag and
  driver; provisioning ends.
* *Lifecycle*: one app at most, none leaked or unloaded twice; what it did last fits
  the card's current state; nothing runs in freed memory.
* *Loader and sandbox*: all or nothing per load; the image in memory is the file's,
  relocated; code and shared state outlive the task that uses them; an app that ends is unloaded.
* *Power*: no lock is in the array that nobody holds; the state the monitor aims at respects the held ones.
* *Recorder*: queues outlive their users, recordings do not overlap, queued data is written, the file closed.
* *Input*: a button's events tell its story in order as long as none was dropped; no callback
  after unsubscribe has returned.
* *Players and voice*: no chunk skipped or played twice because the ring was full; the handle is the running
  thread's; `app_deinit` leaves none it could wait for; handlers come back.
* *Updates*: only verified images in `/apps`, an app leaves `/apps` only for a verified file, an update ends.

## 2. Modules

| Module | Models | Notes |
| --- | --- | --- |
| `BlockPool` | nothing of the code: the abstract allocator | live extents only |
| `PsramPool` | `psram_pool.c`, all operations, any number of tasks | refines `BlockPool` |
| `PsramScan` | the two bitmap loops of `psram_pool.c`, one iteration a step | |
| `PoolSearch` | the pool with the loops in place of the one-step search | EXTENDS `PsramPool`, `PsramScan`; implements `PsramPool` |
| `PsramPoolProofs` | theorems about `PsramPool` and `PoolSearch` | TLAPS |
| `Storage` | `svc_storage.c` | boot, monitor, user and provisioning tasks, the card |
| `Lifecycle` | `lifecycle_manager.c` | EXTENDS and composes `Storage` |
| `LifecycleProofs` | theorems about `Storage` and `Lifecycle` | TLAPS |
| `AppRuntime` | `app_loader.c`, `app_sandbox.c`, `app_main` | kernel task and app task |
| `AppRuntimeProofs` | theorems about `AppRuntime` | TLAPS |
| `Power` | `svc_power.c` | apps, waker, monitor |
| `PowerProofs` | theorems about `Power` | TLAPS |
| `AvRecorder` | `svc_av_recorder.c` | clients, three tasks, a coarse clock |
| `AvRecorderProofs` | theorems about `AvRecorder` | TLAPS |
| `AudioService` | `svc_audio.c` | how many chunks are in the ring, and whether the DMA task holds one |
| `AppThreads` | external: `thread_create`, `thread_join`, the kernel's registry | from `CORE_APPS.md:276` and the calls |
| `StreamPlayer` | `apps/app_audio.c` | EXTENDS `AudioService` |
| `ThreadPlayer` | `apps/audio/app_audio.c` | EXTENDS `AudioService`, `AppThreads` |
| `VoiceApp` | `apps/voice/app_voice.c` | EXTENDS `AudioService`, `AppThreads` |
| `AudioApps` | composition of the three apps | one after the other on one ring |
| `AudioAppsProofs` | theorems about `AudioApps` | TLAPS |
| `AppStore` | `app_launcher.c`, `apps/appstore/app_settings.c` | card contents survive power loss |
| `AppStoreProofs` | theorems about `AppStore` | TLAPS |
| `Input` | `svc_input.c` | poll timer, dispatcher, clients |
| `InputProofs` | theorems about `Input` | TLAPS |
| `MCPsramPool`, `MCAppRuntime`, `MCPower`, `MCAppStore`, `MCInput` | | definitions for the configurations: sets of inputs, symmetry |

Conventions. A task is at a label `pc[p]`; a label is added exactly where another task can
observe or change something between two statements. A mutex is the set of its holders. A
definition `X_Something` placed before `X` is a variant of `X` with a plausible bug; it is
used by nothing, and replacing `X` by it must break the property `PROJECT.json` names for it.

### PsramPool

`bitmap` is the set of blocks whose bit is set; `num[b]` and `magic[b]` are the header at
block `b`; `list` is what the header list links; `usable[t][b]` is how much of its pointer
`b` task `t` may write (0 when it has none) and `data[b]` who wrote block `b` last, so
that overlap, a short copy or a use after free is visible as a lost payload. `alloc_take`, `alloc_find`,
`alloc_mark`, `alloc_give` and so on are the statements around the mutex; realloc's reads
before the mutex, its try to grow under it and its allocate-copy-free after it are separate
steps. Sizes are in units of which `BlockSize` make a block, and wrap at `WordSize`.
A call has an alignment in the same units, of which `AlignBlocks` makes what lines 155-163 make: clamped to `BlockSize`
and divided by it, it is always one block.

In `PoolSearch` a task that searches runs the loops of `PsramScan`, one iteration a step, on the bitmap of the pool and
goes on with what they return; `PsramPool` searches in one step (`find_contiguous_free`). `ImplementsPool` says that nobody can tell the
difference.

### Storage and Lifecycle

`card` is what is in the slot, `vfs` whether the driver has a mount of it or of a card that
is gone, and `handle` whether `s_storage.card` names it. `try_mount`, `unmount_safe` and `set_state` are called by several tasks, so they are
actions with the task as parameter, one step each for the unmount by the handle, the flag and the handle; `to[p]` and `then[p]` hold the state being set and where the
caller goes on. The I/O outcomes are nondeterministic within what the card allows: a present card
may fail to answer, a health check may fail on a loose contact; the driver refuses to mount
twice and formats only what has no file system, as `format_if_mount_failed` says.
`Lifecycle` adds the handler to the callback step. `load_and_run_app` and the confirm
callback are declared nowhere in the repository; they are modelled from their call sites:
the first returns after starting the app in a task of its own.

### AppRuntime

Memory is counted in words: a relocation, a section's base and an instruction take one each.
`mem` is what lies in the block, by word: a word of the file, a stored base, zero, or what
was there before. The code streams the relocation table behind the program, over the BSS and past the end of the block.
What lies there belongs to others: a write is not in `mem`, and a relocation read back there
may be any (`Entries`), also one that is not inside the program. The sandbox's parts are on both sides of the
semaphore: the kernel's loop with its 100 ms timeouts, and the app's task, which returns,
faults (the panic hook runs and the task halts) or is deleted by someone else.

### Power

The time since the last activity is told apart by the timeouts it exceeds (`age`, 0 to 4).
The monitor's unprotected reads are separate steps: its `now`, the last activity, each slot
of the array; an acquire stores the lock and increments the count in either order,
the compiler being free to choose. If an activity is noted between the monitor's two
reads, the unsigned difference may wrap, and `idle` becomes the longest time. The backlight is not in the model.

### AvRecorder

Only time makes `svc_av_recorder_stop` wait for the tasks, so the model has a clock:
`left[p]` is how many ticks a task may still spend at its label, and the clock stands still
while a task with none left has a step to take. The time of a label is a constant: of a frame of the camera
(`esp_camera_fb_get` blocks), of the microphone's timeout, of a chunk written, of the flush after a pass and at the end, of the loops' delays. Queued chunks are `early` or `late`, sent before or after
stop was requested. Task creation can fail, after which the state is `spoiled` and the
properties say nothing: the code goes on with deleted queues and closes the file twice.

### AudioService, the players and the voice app

The unit is the chunk an app passes to one `audio.write`; `ring` counts those in the playback ring, and `held` says that the DMA
task has the first of them and has not returned it. A byte buffer gives nothing to a second reader meanwhile, so
`CloseRing` leaves the ring as it is then, which is the normal case while something plays; it may also leave what lies behind the
end of the buffer. Each app's statics are one record (`sp`, `tp`, `va`), new whenever the kernel
loads it; the ring stays. `stream_timer_cb` is one step, since timers and handlers run in the UI
task one after the other, and so is a handler, up to the `thread_join` it waits in (`waits`):
meanwhile the thread goes on. `at[t]` is the place of thread `t` in its
function; the reads and writes of the shared flag are steps of their own, and so are the decoder's display calls after its close and
the voice app's three network calls, which have no timeout.
The flag is all that handlers and thread share: a thread that ends by itself clears it, and only then closes the
output. `Unload` is the kernel's once `app_deinit` has returned; `ForceUnload` may come at any time, since `app_deinit` has 500 ms
(`kernel_api.h:308`) and `app_loader_unload` calls none. Threads that are left are deleted where they are (`CORE_APPS.md:276`); that a
UI task waiting in the app goes with it is a choice of the model, no document says what becomes of it.
At this commit nothing fills the microphone's ring, so `mic_read` gives nothing and the voice app sends nothing; the model has both outcomes.

### AppStore

`apps[a]` and `cache[a]` are the files `/apps/<a>.espapp` and `/cache/<a>.espapp.tmp`: absent, the number of a build,
or `Bad` (cut off, or not signed). `verify_app_file` can refuse any file, since it reads the card to judge it, and accepts only good ones. A file is `Bad` from the moment it is created until its
stream has ended, so a power loss leaves a `Bad` one. `PowerLoss` is possible at every step and keeps the
card alone. `run_ota_update` is one step per operation that touches the card or may fail. The manifests
on the card are a constant: nothing in the code rewrites them, so an app
that was updated is offered again. Which of several apps comes next is the server's order, any order here.

### Input

A poll of one button is a step, and the long press is two: the event is queued
(line 98), then the gesture noted (101-105). The dispatcher is at a label per access to shared
state. `MutexFree` says it is not inside its loop over the slots; the public functions hold the mutex for
an instant only and are one step. `last[b]` is what was last taken from the queue for button `b`, and `"lost"`
from the first event of `b` that found the queue full. With a poll every 10 ms the long press is sent at 800 to 810 ms, so the gesture for
`FORCE_QUIT_MS` (2000) is never noted (`Gesture`).

## 3. Runs

| Run | Instance | What it shows |
| --- | --- | --- |
| `pool_two_tasks` | 2 tasks, a pool of three blocks (and sizes that init refuses), requests of no bytes, exactly one block and one byte more | bitmap, headers, counter and payloads agree in every interleaving; refines `BlockPool`; a call that does not return is stuck behind one of `psram_pool_dump_stats` |
| `pool_one_task` | `PoolSearch`: 1 task, pool of four blocks, requests of one, two and three, two alignments; frees its pointers twice | the loops find the lowest fit, fail only if there is none and measure the longest run, on every bitmap the pool gets into; they implement the one-step search; the magic catches a second free by the owner |
| `pool_dump` | violated: 2 tasks, two blocks | a call of `psram_pool_dump_stats` never returns, nor does a later one of another task |
| `storage` | any card, exchanged once for any other, one provisioning task | flag, unmounting, end of provisioning |
| `lifecycle` | any card, exchanged twice, two contexts, until two handlers race | contexts counted, handler up to date |
| `lifecycle_eject` | violated | the running app's memory is freed under it |
| `recorder` | one client; queues of 1 and 2; a camera that takes up to two ticks, a card that takes one per chunk or flush; a sleep of 12 ticks | queues in use exist, one recording, file closed, early chunks written |
| `power` | 3 apps, an array of 2, all three kinds of lock | locks backed, and respected by the monitor's target |
| `runtime` | programs of 2 or 3 words, 0 or 1 of BSS, up to 2 relocations, bad headers and signatures | nothing left over, code outlives its task, image right if the relocations fit in the block, unloading happens |
| `audio_apps` | 2 or 3 tracks or files of 4 or 2 chunks, one of them unplayable, an MP3; a ring of 2 chunks; 2 threads at a time | order of the chunks, one joinable thread, none left by `app_deinit` that it could wait for, joins return |
| `app_store` | launcher, settings and one app, 2 builds, room for one in the lists; power loss at every step | only verified images installed, apps given up only for a verified file, updates end |
| `input` | Back and a volume button, a queue of 2, 3 clients for 2 slots | callbacks to subscribers only, events tell the button's state |

### Bounds

* *Pool*: with three blocks and requests of one and two, an allocation grows in place,
  moves (from the last block to the first two) or finds nothing; four blocks with one task add moves past a neighbour. Two
  tasks give every pair of overlapping calls. The
  proofs remove all of these bounds.
* *Search*: four blocks have used, partial and fitting runs at either end and in the middle. Both alignments come out as one
  block, as any does; the loops themselves are proved for every alignment.
* *Storage*, *lifecycle*: one and two exchanges let a card vanish and another of a different
  kind appear inside any window of any task; one provisioner is enough for every pair of
  tasks. `CONSTRAINT Unraced` stops at the first overlap of two handlers; the properties of
  `lifecycle` are only claimed up to there, because afterwards the code gives no guarantee (see the hazards).
* *Recorder*: 12 ticks is the least sleep for which the properties hold with these queues, this camera and this card:
  one read, and the writing of what is in flight, what both queues hold, the flushes and the writer's own delays. With 11 TLC
  finds a queue deleted in use. The theorems (section 4) have a sum for any of them, which is not tight. Nothing in the code
  enforces it: its 500 ms are less than the 4 s that `esp_camera_fb_get` may block, and than a slow card's write.
* *Power*: two slots show the swap of the last lock into a gap; the third app makes a lock
  be dropped. Ticks happen while the monitor sleeps: a pass is short against 15 s.
* *Runtime*: two relocations show a lost last one and one under the BSS; a block of four words has room for some tables and not
  for others; a chunk of two words splits the body. A new load starts when the task of the app before is gone.
* *Audio*: four chunks fill a ring of two and leave one pending and one unread, at once; two
  threads are the one that ends and the one that is started beside it, a third `thread_create` fails. The DMA takes and returns chunks
  at any time or never.
* *App store*: with three apps one is updated while another's only copy is in the cache. `MaxApps`
  is one, less than the manifests on the card. The theorems remove these bounds.
* *Input*: two buttons show the events of one between those of the other and the gesture of one
  on the long press of the other; a queue of two fills while the dispatcher is in a callback. Clients are
  symmetric: they have one mask.

### Fairness

* `PsramPool`: weak fairness of a task's step, since tasks run on, and strong fairness of
  taking the mutex: FreeRTOS hands it to a waiter (`portMAX_DELAY`) whenever it is given. Every call returns under it but those of
  `psram_pool_dump_stats` and those behind it (`OnlyDumpBlocks`).
* `Storage`: weak fairness of each task, strong fairness of the health check: its five
  seconds pass again and again. None for the card or the user. Without the strong
  fairness `GoneIsUnmounted` would fail, rightly: a lost edge is noticed by that check only. It excepts the runs in which a mount
  crossed the monitor's unmount (`MountCrossed`): such a mount stays, with its flag or handle cleared.
* `AppRuntime`: weak fairness of the kernel's task and of the app's task outside the app's
  own code. Nothing says that the app returns, so `EndedIsUnloaded` starts where it has.

* `AudioApps`: weak fairness of each thread's own steps, and of the return from `thread_join`
  once its thread is gone. None for the user, the server, the kernel's launching and unloading, or the DMA: `UiReturns` must hold
  with a ring that stays full, because every `audio.write` has a timeout. None either for `ws.open`, `ws.send` and `ws.close`, which have
  no timeout: `UiReturns` has as a hypothesis that they return (`NetworkReturns`). If one does not, the UI task waits in `thread_join`
  for ever, as `Network Dropout` in `CORE_APPS.md:424` does not foresee.
* `AppStore`: weak fairness of the update, each network call of which has a timeout (`http_stream`'s 15 s).

The other modules claim safety only.

## 4. Proofs

Every theorem is about all values of the constants that the named assumption of its module allows. Each module of proofs has
an inductive invariant, `IInv` unless another name is given, which TLC has checked on an instance before it was proved: one
lemma per action or group of actions says that a step keeps it. The named assumptions say no more than what a
constant is (a number, a set without the name of some task), unless this section says so.

### The pool

`PsramPoolProofs` proves, for every number of tasks, pool size, block and
header size and set of requests: the type invariant, `HeadersTileBitmap`, `UsedCountsBits`,
`HeldIsLive`, `LocalsConsistent`, `PayloadIntact`, `OnlyFreeEndsPointer`, and that `Spec` implements
`BlockPool`.

Assumptions: `PoolAssumption` (constants are natural numbers, a header is smaller than a
block), `NoWrap` (no request is so large that rounding it up wraps around; `app_loader.c`
bounds what it asks for by `APP_MAX_LOAD_SIZE`) and `DoubleFrees = FALSE` (a task frees what
it holds; the run `pool_one_task` explores the rest).

The argument. None of the properties is inductive alone. A tiling survives an allocation
only if the run found earlier is still free when it is marked: that is `LocalsConsistent`.
That in turn survives another task's step only because of the mutex (`MutexExcludes`). A
free removes a whole extent only if the pointer is live and held (`HeldIsLive`). `IInv`
is their conjunction. The lemmas `TilesAdd`, `TilesRemove` and `TilesGrow` say what marking,
clearing and growing do to a tiling, once and without the state machine; each
operation then has one lemma that it keeps `IInv`, split by conjunct. `PoolImplements` uses `IInv` to match
marking, clearing and growing with the steps of `BlockPool`, and shows that every other step stutters.

The payload needs `PayInv` besides: `Written(t, b)` says how many blocks from `b` on task `t` has
written, also in the middle of a realloc, when the new extent has as much as the old one had; `Filled` that they still are as
written. A step writes what its own task holds (`WritesOwn`), and extents of two pointers that are held are disjoint
(`HeldDisjoint`), so nobody's payload is touched by another.

### The search in the bitmap

The same module proves of `PsramScan`, for every bitmap, request and alignment, `FoundIsFirstFit`, `FailureIsGenuine` and
`MaxIsLongestRun`. `ScanInv` has two parts: by `SearchInv`, every aligned block before the `Candidate` has been
ruled out, and the run so far ends at `index`; that rounding up skips no aligned block is the lemma `NextAligned`.
By `LongestInv`, of the blocks before `index`, `max_run` in a row are free and never one more.

`SearchImplementsPool` then joins the models, for any number of tasks: `SearchInvariant` adds to both invariants that the loops' bitmap, blocks and
alignment are those of the pool and of the task in the mutex (`SearchIsOfHolder`), which no other task can change
(`OthersLeaveSearch`); so where a loop ends, it returns what `find_contiguous_free` of `PsramPool` does in one step.

### Storage and lifecycle

`LifecycleProofs` proves `FlagIsMounted` for any number of provisioning tasks and any
exchanges of cards, that every step of `Lifecycle` is a step of `Storage` or leaves its variables alone
(`LifecycleImplementsStorage`: what holds of the storage manager holds under any handler), and, until two handlers race,
`ContextsCounted` and `LastHeardIsState`.

The other direction of `FlagIsMounted` is false, and no theorem claims it: lines 85-86 may clear the flag of a new mount. The flag is set in the step after the mount, so `MountInv` has to say who may be in between: one task at most, since the
driver refuses to mount twice, and never while the flag is up, unless the monitor is about to clear it. `HandlerInv` and `AppInv` add, until `raced`:
one handler at a time, which was told the current state, and one app at most, owned by `g_current_app_ctx` or by the handler
that loads or unloads it. `BootInv` orders the boot: no handler is called before one is registered.

### Loader and sandbox

`AppRuntimeProofs` proves `NothingHeldBetweenApps`, `CodeOutlivesTask` and `ImageIfTableFits` for any set of files, any sizes and any
number of relocations. `RuntimeAssumption` takes a relocation's offset to be inside the program, as the linker's
are, which `tools/build_espapp.py` copies; the loader does not look. `HoldInv` says which of block, context and file
the kernel holds at each label, so that every exit of the load gives back what it has; `TaskInv` that the kernel waits as long as the
task is there. `ImageInv` follows the load: words before `at` are the file's; if `TableFits`, the relocations behind the
program stay as read, and a word is the file's or what the last relocation before the `at`-th stored (`Relocated`).

### Power

`PowerProofs` proves `LocksBacked` and `TargetRespectsLocks` for any number of apps, any length of the array and any of the
kinds. The second is about the monitor's target in a pass no acquire or release runs into, until an acquire was dropped; it says
nothing of the backlight, nor that a display lock counts beside a CPU lock, which it does not (`svc_power.c:71`). `PowerAssumption` has the set of apps finite. `CountInv` compares, kind by kind, the slots with the holders: equally many
until an acquire is dropped, at most as many ever after. In the middle of an acquire or release that holds without the slot
and the app it is about; which slot that is depends on the order in which the compiler counts and fills. The `Matches` lemmas say what adding,
taking away and moving a lock do to the comparison, by cardinalities. `PassInv`: in a pass that nobody has run into
the mutex is free, and `highest` is the highest of the slots read and still in the array. So at the decision, a kind is
in the array exactly if it is held (`HeldIsLocked`).

### Recorder

`AvRecorderProofs` proves `TypeOK` for any number of clients, and `QueueInUseExists`, `OneRecording`, `FileFinalized` and `EarlyIsWritten`
for one client, any queues and any delays, if the sleep is long enough: `EnoughTime`, that is `StopTicks > MicTicks`,
`StopTicks > CameraTicks + LoopTicks` and
`StopTicks > WriteTicks * (VideoQueue + AudioQueue + 3) + 4 * PassTicks + FlushTicks` with `PassTicks = LoopTicks + FlushTicks`.
Both hypotheses are needed: in the run's instance, a sleep of
11 ticks lets TLC find a queue deleted while a task uses it, and with two clients, both of which may be past the test
of `state` before either takes the mutex, one recording starts inside the other (see the hazards). The code ensures neither: it
does not stop a second client, waits for no task, and its 500 ms outlast neither a camera that does not deliver
(`esp_camera_fb_get`, up to about 4 s) nor a slow card. The theorems say what holds if the hardware is that fast, and only then.

The argument is about time. `SleepInv`: what is left of the sleep is more than `TimeToEnd` of each task. For the writer that is
`WriterTime`: what is left at its label, one write for each chunk queued or still to be sent, and its
own delays. After the stop request no step of the writer or of a capture task increases it, and a tick lowers it as
much as the sleep. So when the sleep ends all tasks are off. `TasksInv`, `FileInv` and
`EarlyInv` say what the three tasks have done by then.

### Players and voice

`AudioAppsProofs` proves `StreamInOrder`, `ThreadIsJoinable` and `DeinitLeavesNoThread` for any files,
tracks, threads and lengths, and a ring of any size. Each says what the code keeps beside what it loses: the chunk dropped by `Resume`,
the decoder that ended by itself and is closing (`Leaving`), the stream that the server ended (`va.loose`). `ThreadInv`: a decoder
that has not cleared the flag is the thread of the
handle, and the flag is set or a handler waits for that thread; one that closes its output has ended by itself or is the one waited for.
`VoiceInv` says the same of the streaming thread until the server ends one. `StreamInv`: the chunk that is pending
is the one read last, and those accepted come before it. `IdleInv`: where no app with threads is loaded none is there, since both ways of
unloading delete them.

### Updates

`AppStoreProofs` proves `OnlyVerifiedInstalled` and `CopyUntilReplaced` for any apps, builds, manifests and list
sizes, from `StoreAssumption` alone. Neither is inductive: what `rename` installs is the cache's
file, which the verification looked at two steps before. `IInv` adds `CacheInv`: that file is the verified one from the
verification to the rename, and worth nothing while it is streamed, so a stream that fails loses nothing.
`CardKept` says once that steps that leave the card alone keep `IInv`. `CopyUntilReplaced` has two halves, each with a lemma: an app leaves
`/apps` only while a verified file for it is in `/cache` (`GoneForVerified`), and that file, while the app is missing, goes only
by the rename or by a later update that empties it or cannot verify what it wrote (`CopyKept`). Nothing looks into `/cache`, so it is no promise that the
app can be started.

### Input

`InputProofs` proves `CalledIsSubscribed` and `EventsTellState` for any number of buttons, clients and slots and any length of the queue. `IInv` says that slots
and IDs are inverse to each other (`Registry`) and that a callback runs for a taken slot (`Calling`), which
subscribe and unsubscribe keep because the dispatcher holds the mutex throughout its loop. For the events
`StoryInv` is inductive by itself: an event that is sent continues what the last one in the queue, or the last one taken, said of its
button (`SendTells`), and taking one moves the boundary only.

### Model-checked only

The liveness properties `OnlyDumpBlocks`, `GoneIsUnmounted`, `ProvisioningEnds`, `EndedIsUnloaded`, `UiReturns` and `UpdateEnds`: the proof
system has no reasoning about fairness and `ENABLED` for them here. What a recorder with two clients still
guarantees beyond its types, `OnlyHeldIsFreed` and what else a pool does with a second free of a pointer or with requests that wrap, and lifecycle after two handlers have raced are
not claimed by any theorem.

## 5. Where code and documents disagree

The first two are shown by runs that TLC finds violated; of the others the models have the
step, unless this list says so, and the line is named.

* Ejecting the card frees the running app's code (`lifecycle_manager.c:9`, run `lifecycle_eject`).
* `psram_pool_dump_stats` takes the mutex it holds (`psram_pool.c:333`, 347 and 311; `DumpStats`, run `pool_dump`), though the test
  plan has it called after each leak test and wants no deadlock (`docs/OS_ARCHITECTURE.md:140-141`).
* An alignment beyond one block is clamped (`psram_pool.c:156`, `AlignBlocks`), where the test of `docs/OS_ARCHITECTURE.md:135` asks for
  8 KB. And what is aligned is the header: the pointer lies 16 bytes behind it, so it does not have the alignment of `psram_pool.h:40`.
* A lock acquired when the display is dimmed or off leaves it so: the case of `ACTIVE` is the default (`svc_power.c:103`), which sets no
  backlight. `svc_power.h:12`, 21 and 23 and `docs/TODO_POWER_MANAGEMENT.md:124` say otherwise. The backlight is not modelled.
* A display lock beside a CPU lock does not keep the display on (`svc_power.c:71`, `Rank` in `Power`), against `svc_power.h:21`.
* "Wait for tasks to finish" in `svc_av_recorder.c:392` is a sleep of half a second, and `esp_camera_fb_get` (line 150) may take 4 s
  (`EnoughTime` in `AvRecorderProofs`).
* The relocation table is read to where the BSS or others' memory is (`app_loader.c:240`, 269), as the block has no room for it: line 296 zeroes
  what lies in the BSS before line 300 reads it (`ZeroBss`, `Entries` in `AppRuntime`). `ImageIfTableFits` is what is left.
* Closing the output drains nothing while the DMA task holds a chunk (`svc_audio.c:96`, `CloseRing`), so what a stopped player left is heard
  when the next one plays; the comment in the code says "Drain".
* Confirming the download on a card that has a file system fails, because it is mounted already
  (`svc_storage.c:308`; `FormatFailed` in `Storage`); `docs/OS_ARCHITECTURE.md:307` promises the download.
* The store's `README.md:3` says a power loss never bricks the device, and line 76 that the old launcher is kept. Between
  `app_settings.c:250` and 251 there is no launcher in `/apps`, and a failed rename leaves it so (`RemoveOld`, `RenameFails`, `PowerLoss` in `AppStore`);
  a verified file in `/cache` is all that `CopyUntilReplaced` has left, and nothing looks for it.
* `CORE_APPS.md:499` has the player go on from the exact timestamp after Pause and Resume; `apps/app_audio.c:140` forgets the pending
  chunk (`Resume` in `StreamPlayer`; `StreamInOrder` excepts it).
* `app_voice.c:112` waits "for thread to finish playing TTS"; the flag it has cleared makes the thread leave
  its loop, and closing the output drops what was not played, unless the DMA task holds a chunk (`ClosesVoice`).
* The decoder sets the display after its close (`apps/audio/app_audio.c:189-191`) while a handler may wait for it. `svc_display.c` takes no lock; with the
  display mutex that `docs/OS_ARCHITECTURE.md:320` plans, that would be a deadlock.
* `FORCE_QUIT` cannot be noted (`svc_input.c:103`, `Gesture` in `Input`), nor does anything call
  `svc_input_consume_sys_gesture`.

## 6. Not modelled

The services that only forward to a library (clock, file system), the camera, gallery and social
services, the display service and the remaining user interfaces have no state machine worth a model. The battery service
is arithmetic over readings that one task writes; the wake-word service is signal processing with one flag. The tools are sequential
scripts. Signal processing, codecs, HTTP, JSON and the drivers are external. Mapped modules leave
out log lines, screen layout, dialog texts, crash-report contents, the recorder's chunk format and
counters, the order in which a header's fields are checked, and the four relocation
encodings: each stores or patches in the target's address. PSRAM is lost when the power goes, so only
`AppStore` models that. What the loader's writes past its block do to the owner of that memory is not modelled, nor the backlight, nor
the promise that a crashed app's sandbox returns. The volume and the microphone's ring of the audio service are written or read by nobody else.

## 7. Plan

Done: the pool with its abstract specification; storage and lifecycle; loader and
sandbox; power; recorder; audio service, players and voice app; launcher and updates; input; and the
theorems of section 4, among them every invariant but `OnlyHeldIsFreed` and every action property the passing runs check. Next:

1. Theorems beyond the runs: the conditions for 12 ticks in `AvRecorder`, that is a tight `EnoughTime`; what
   `AppRuntime` still guarantees for relocations of an app with BSS.
2. The backlight as a variable of `Power`, once line 103 restores it: that ACTIVE has the display on.
3. `Battery` as a bounded algorithm against a definition of the hourly rate.
