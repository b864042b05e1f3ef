-------------------------------- MODULE Power --------------------------------
(***************************************************************************)
(* The power manager (src/svc_power.c): apps acquire and release locks     *)
(* under a mutex; once a second the monitor task reads the array of locks  *)
(* and the time of the last activity without it and changes the state;     *)
(* svc_power_wake changes it too, without the mutex.                       *)
(*                                                                         *)
(* Time since the last activity is told apart by the timeouts it exceeds:  *)
(* none, TIMEOUT_DIM_MS, SCREEN_OFF, LIGHT_SLEEP, DEEP_SLEEP are 0 to 4.   *)
(***************************************************************************)
EXTENDS Integers, FiniteSets

CONSTANTS Apps,      \* tasks that hold a lock each at times
          MaxLocks,  \* the length of active_locks
          Kinds      \* the kinds of lock they ask for

ASSUME PowerAssumption ==
  /\ IsFiniteSet(Apps) /\ Apps \cap {"monitor", "waker"} = {}
  /\ MaxLocks \in Nat \ {0}
  /\ Kinds \subseteq {"DISPLAY_ON", "CPU_AWAKE", "FULL_AWAKE"}

VARIABLES
  current_state,  \* s_pm.current_state
  active_locks,   \* s_pm.active_locks, all of the array
  lock_count,     \* s_pm.lock_count
  age,            \* timeouts that the time since last_activity_ms exceeds
  mutex,          \* the apps that hold s_pm.mutex
  backlight,      \* what svc_display_set_backlight was told last
  holds,          \* the lock each app has acquired and not released, or NONE
  pc,             \* where each task is
  slot,           \* the index an app's release has found
  idle, highest, i, target,  \* locals of power_monitor_task
  overtaken,      \* did an app change the locks during this pass?
  dropped,        \* was an acquire ever ignored for lack of room?
  asleep          \* deep sleep

locks == <<active_locks, lock_count, mutex, holds, slot, dropped>>
pass  == <<idle, highest, i, target>>
vars  == <<current_state, locks, age, backlight, pc, pass, overtaken, asleep>>

Rank   == [NONE |-> 0, DISPLAY_ON |-> 1, CPU_AWAKE |-> 2, FULL_AWAKE |-> 3]
Locks  == DOMAIN Rank
Procs  == Apps \cup {"monitor", "waker"}
Slots  == 1 .. MaxLocks
DEEP   == 4

Goto(p, label) == pc' = [pc EXCEPT ![p] = label]

\* svc_power_init, after power-up or the reset that ends a deep sleep.
Init ==
  /\ current_state = "ACTIVE" /\ backlight = 100 /\ asleep = FALSE
  /\ active_locks = [k \in Slots |-> "NONE"] /\ lock_count = 0
  /\ age = 0 /\ mutex = {}
  /\ holds = [a \in Apps |-> "NONE"] /\ slot = [a \in Apps |-> 0]
  /\ pc = [p \in Procs |-> IF p = "monitor" THEN "now" ELSE "out"]
  /\ idle = 0 /\ highest = "NONE" /\ i = 1 /\ target = "ACTIVE"
  /\ overtaken = FALSE /\ dropped = FALSE

-----------------------------------------------------------------------------
\* An app changes the locks while a pass of the monitor is under way.
Overtakes == overtaken' = (pc["monitor"] # "now")

\* The pass is over, or its locals are not needed any more.
Forget == idle' = 0 /\ highest' = "NONE" /\ i' = 1

\* last_activity_ms = now.  If the monitor has read its own now and not yet
\* subtracted last_activity_ms from it, that may be in its future: the
\* unsigned difference wraps around, and exceeds every timeout.
Activity ==
  /\ age' = 0
  /\ idle' \in IF pc["monitor"] = "subtract" THEN {0, DEEP} ELSE {idle}

\* Time passes, until one more timeout is exceeded.  A bound of the model: that
\* happens in the second the monitor sleeps, not in the short time of a pass.
Tick ==
  /\ pc["monitor"] = "now"
  /\ age < DEEP /\ age' = age + 1
  /\ UNCHANGED <<current_state, locks, backlight, pc, pass, overtaken, asleep>>

-----------------------------------------------------------------------------
(* svc_power_acquire *)

HasRoom == lock_count < MaxLocks

\* Takes the mutex.  The slot is filled and counted in an order of the
\* compiler's choosing, ...
Acquire(a, kind) ==
  /\ pc[a] = "out" /\ holds[a] = "NONE" /\ mutex = {}
  /\ mutex' = {a}
  /\ holds' = [holds EXCEPT ![a] = kind]
  /\ Overtakes
  /\ \/ /\ HasRoom
        /\ active_locks' = [active_locks EXCEPT ![lock_count + 1] = kind]
        /\ Goto(a, "count") /\ UNCHANGED <<lock_count, dropped>>
     \/ /\ HasRoom
        /\ lock_count' = lock_count + 1
        /\ Goto(a, "fill") /\ UNCHANGED <<active_locks, dropped>>
     \/ /\ ~HasRoom
        /\ dropped' = TRUE
        /\ Goto(a, "stamp") /\ UNCHANGED <<active_locks, lock_count>>
  /\ UNCHANGED <<current_state, age, backlight, slot, pass, asleep>>

\* ... the activity is noted and the mutex given.
Acquired(a) ==
  /\ pc[a] \in {"count", "fill", "stamp"}
  /\ lock_count' = IF pc[a] = "count" THEN lock_count + 1 ELSE lock_count
  /\ active_locks' = IF pc[a] = "fill" THEN [active_locks EXCEPT ![lock_count] = holds[a]]
                                        ELSE active_locks
  /\ Activity
  /\ mutex' = mutex \ {a}
  /\ Overtakes
  /\ Goto(a, "out")
  /\ UNCHANGED <<current_state, backlight, holds, slot, highest, i, target, dropped, asleep>>

-----------------------------------------------------------------------------
(* svc_power_release *)

\* Variant with a bug: the search skips the last slot.
Searched_NotLast == 1 .. lock_count - 1

Searched == 1 .. lock_count

\* Takes the mutex, finds the first slot with such a lock and uncounts one;
\* finds none if the lock was dropped.
Release(a) ==
  /\ pc[a] = "out" /\ holds[a] # "NONE" /\ mutex = {}
  /\ mutex' = {a}
  /\ LET found == {k \in Searched : active_locks[k] = holds[a]}
     IN  \/ /\ found # {}
            /\ slot' = [slot EXCEPT ![a] = CHOOSE k \in found : \A l \in found : k <= l]
            /\ lock_count' = lock_count - 1
         \/ /\ found = {}
            /\ UNCHANGED <<slot, lock_count>>
  /\ Overtakes
  /\ Goto(a, "refill")
  /\ UNCHANGED <<current_state, active_locks, age, backlight, holds, pass, dropped, asleep>>

\* The slot gets the last lock of the array.
Refilled(k) == [active_locks EXCEPT ![k] = active_locks[lock_count + 1]]

Released(a) ==
  /\ pc[a] = "refill"
  /\ active_locks' = IF slot[a] = 0 THEN active_locks ELSE Refilled(slot[a])
  /\ slot' = [slot EXCEPT ![a] = 0]
  /\ holds' = [holds EXCEPT ![a] = "NONE"]
  /\ mutex' = mutex \ {a}
  /\ Overtakes
  /\ Goto(a, "out")
  /\ UNCHANGED <<current_state, lock_count, age, backlight, pass, dropped, asleep>>

App(a) == (\E kind \in Kinds : Acquire(a, kind)) \/ Acquired(a) \/ Release(a) \/ Released(a)

-----------------------------------------------------------------------------
(* svc_power_wake, without the mutex *)

WakeStamps ==
  /\ pc["waker"] = "out"
  /\ Activity
  /\ Goto("waker", "awake?")
  /\ UNCHANGED <<current_state, locks, backlight, highest, i, target, overtaken, asleep>>

WakeLooks ==
  /\ pc["waker"] = "awake?"
  /\ \/ current_state = "ACTIVE" /\ Goto("waker", "out") /\ UNCHANGED backlight
     \/ current_state # "ACTIVE" /\ Goto("waker", "set") /\ backlight' = 100
  /\ UNCHANGED <<current_state, locks, age, pass, overtaken, asleep>>

WakeSets ==
  /\ pc["waker"] = "set"
  /\ current_state' = "ACTIVE"
  /\ Goto("waker", "out")
  /\ UNCHANGED <<locks, age, backlight, pass, overtaken, asleep>>

Waker == WakeStamps \/ WakeLooks \/ WakeSets

-----------------------------------------------------------------------------
(* power_monitor_task *)

ReadNow ==
  /\ pc["monitor"] = "now"
  /\ idle' = age
  /\ overtaken' = (mutex # {})
  /\ Goto("monitor", "subtract")
  /\ UNCHANGED <<current_state, locks, age, backlight, highest, i, target, asleep>>

Subtract ==
  /\ pc["monitor"] = "subtract"
  /\ Goto("monitor", "scan")
  /\ UNCHANGED <<current_state, locks, age, backlight, pass, overtaken, asleep>>

\* Variant with a bug: the last lock is not looked at.
Scanned_NotLast == i < lock_count

Scanned == i <= lock_count

\* get_highest_lock, one slot at a time.
ScanLock ==
  /\ pc["monitor"] = "scan" /\ Scanned
  /\ highest' = IF Rank[active_locks[i]] > Rank[highest] THEN active_locks[i] ELSE highest
  /\ i' = i + 1
  /\ UNCHANGED <<current_state, locks, age, backlight, pc, idle, target, overtaken, asleep>>

\* What the idle time asks for when no lock is held.
ByIdle == CASE idle = 4 -> "DEEP_SLEEP" [] idle = 3 -> "LIGHT_SLEEP"
            [] idle = 2 -> "DISPLAY_OFF" [] idle = 1 -> "DIMMED" [] idle = 0 -> "ACTIVE"

ByLock ==
  CASE highest = "CPU_AWAKE" -> IF idle > 1 THEN "DISPLAY_OFF" ELSE "ACTIVE"
    [] highest \in {"FULL_AWAKE", "DISPLAY_ON"} -> "ACTIVE"
    [] highest = "NONE" -> ByIdle

Decide ==
  /\ pc["monitor"] = "scan" /\ ~Scanned
  /\ \/ /\ ByLock = current_state
        /\ Goto("monitor", "now") /\ overtaken' = FALSE /\ UNCHANGED target
     \/ /\ ByLock # current_state
        /\ Goto("monitor", "apply") /\ target' = ByLock /\ UNCHANGED overtaken
  /\ Forget
  /\ UNCHANGED <<current_state, locks, age, backlight, asleep>>

\* The switch over the new state: back to ACTIVE the backlight stays as it is;
\* light sleep is the wake service's and returns; deep sleep does not.
Apply ==
  /\ pc["monitor"] = "apply"
  /\ backlight' = CASE target = "DIMMED" -> 20
                    [] target \in {"DISPLAY_OFF", "LIGHT_SLEEP"} -> 0
                    [] OTHER -> backlight
  /\ asleep' = (target = "DEEP_SLEEP")
  /\ Goto("monitor", "assign")
  /\ UNCHANGED <<current_state, locks, age, pass, overtaken>>

Assign ==
  /\ pc["monitor"] = "assign"
  /\ current_state' = target
  /\ Goto("monitor", "now")
  /\ target' = "ACTIVE" /\ overtaken' = FALSE
  /\ UNCHANGED <<locks, age, backlight, idle, highest, i, asleep>>

Monitor == ReadNow \/ Subtract \/ ScanLock \/ Decide \/ Apply \/ Assign

-----------------------------------------------------------------------------

Next == ~asleep /\ (Monitor \/ Waker \/ Tick \/ \E a \in Apps : App(a))

Spec == Init /\ [][Next]_vars

-----------------------------------------------------------------------------
(* Properties *)

\* There is never a lock in the array that nobody holds, also after acquires
\* were dropped and released all the same: nothing keeps the idle device awake.
LocksBacked ==
  mutex = {} =>
    \A kind \in Kinds : Cardinality({k \in 1 .. lock_count : active_locks[k] = kind})
                          <= Cardinality({a \in Apps : holds[a] = kind})

Held(kind) == \E a \in Apps : holds[a] = kind

\* The state that the monitor decides on respects the locks, in a pass that no
\* acquire or release runs into and until an acquire was ever dropped: no sleep
\* while the CPU is to stay awake, no power saving under a full lock, and no dark
\* display while display locks alone are held.  Beside a CPU lock, which ranks
\* higher, a display lock does not keep the display on.  What the backlight does
\* is not in it: the way to ACTIVE leaves it as it is.
TargetRespectsLocks ==
  pc["monitor"] = "apply" /\ ~overtaken /\ ~dropped =>
    /\ Held("FULL_AWAKE") => target = "ACTIVE"
    /\ Held("CPU_AWAKE") => target \in {"ACTIVE", "DISPLAY_OFF"}
    /\ Held("DISPLAY_ON") /\ ~Held("CPU_AWAKE") => target = "ACTIVE"
=============================================================================
