----------------------------- MODULE AppThreads -----------------------------
(***************************************************************************)
(* sys.thread_create and sys.thread_join as the apps use them (the calls   *)
(* are in no file of the kernel): a created thread runs until its function *)
(* returns, join waits for that, and the kernel keeps the threads of an    *)
(* app in a registry and deletes those that are left when it unloads the   *)
(* app (src/src/apps/CORE_APPS.md:276).                                    *)
(***************************************************************************)
CONSTANTS Threads, NULL

ASSUME ThreadAssumption == NULL \notin Threads

VARIABLE at   \* at[t]: the place of thread t in its function, "off": none

Alive(t) == at[t] # "off"
Lingering == {t \in Threads : Alive(t)}

\* Creates a thread whose handle is h; without memory for it nothing happens.
Create(h) ==
  \E t \in Threads : ~Alive(t) /\ h = t /\ at' = [at EXCEPT ![t] = "start"]

CannotCreate == \A t \in Threads : Alive(t)

Goto(t, label) == at' = [at EXCEPT ![t] = label]

\* thread_join(h) returns.
Joined(h) == h \notin Lingering
=============================================================================
