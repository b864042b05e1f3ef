------------------------------ MODULE Lifecycle ------------------------------
(***************************************************************************)
(* The lifecycle manager (src/lifecycle_manager.c) on top of the storage   *)
(* manager: on_storage_event runs in whichever task changed the state, and *)
(* lifecycle_init runs it for the state it finds at boot.                  *)
(*                                                                         *)
(* load_and_run_app is not in the repository.  As its callers need it, it  *)
(* loads the app, sets g_current_app_ctx, starts the app in a task of its  *)
(* own and returns (a callback that waited for the app would keep the      *)
(* monitor from ever seeing the card ejected).                             *)
(***************************************************************************)
EXTENDS Storage, FiniteSets

CONSTANTS Contexts,  \* app contexts that fit in memory at once
          NULL

ASSUME ContextAssumption == NULL \notin Contexts

VARIABLES
  ctx,      \* g_current_app_ctx
  loaded,   \* contexts whose memory is allocated
  running,  \* contexts whose app has a task that is running
  step,     \* step[p]: where p is in on_storage_event
  mine,     \* mine[p]: the context p is unloading or has loaded
  heard,    \* the state that was handled last
  raced     \* did two tasks ever handle state changes at the same time?

lvars == <<ctx, loaded, running, step, mine, heard>>
vars  == <<svars, lvars, raced>>

Init ==
  /\ StorageInit
  /\ ctx = NULL /\ loaded = {} /\ running = {}
  /\ step = [p \in Procs |-> "out"]
  /\ mine = [p \in Procs |-> NULL]
  /\ heard = "none" /\ raced = FALSE

-----------------------------------------------------------------------------
\* p has changed the state, or is about to read it at boot, and the handler
\* has not finished with it.
Handling(p) == pc[p] \in {"notify", "callback", "initial"}

Races(p) == raced' = (raced \/ \E q \in Procs \ {p} : Handling(q))

At(p, s, where) == pc[p] = "callback" /\ to[p] = s /\ step[p] = where

\* p is through with the handler for the state it was told.
Handled(p) ==
  /\ step' = [step EXCEPT ![p] = "handled"]
  /\ heard' = to[p]

\* Overlays, dialogs and the progress bar: the states without an effect on
\* apps, and those in which there is nothing to do.
ShowOnly(p) ==
  /\ pc[p] = "callback" /\ step[p] = "out"
  /\ \/ to[p] \in {"UNFORMATTED", "PROVISIONING", "ERROR"}
     \/ to[p] = "EJECTED" /\ ctx = NULL
     \/ to[p] = "READY" /\ p # "boot" /\ ctx # NULL
  /\ Handled(p)
  /\ UNCHANGED <<svars, ctx, loaded, running, mine, raced>>

\* EJECTED with an app: app_loader_unload(g_current_app_ctx) frees its memory.
\* Nothing stops the app's task.
ForceUnload(p) ==
  /\ At(p, "EJECTED", "out") /\ ctx # NULL
  /\ loaded' = loaded \ {ctx}
  /\ step' = [step EXCEPT ![p] = "clear"]
  /\ UNCHANGED <<svars, ctx, running, mine, heard, raced>>

\* Variant with a bug: the pointer to the unloaded app is kept.
Cleared_Kept == ctx

Cleared == NULL

ClearCurrent(p) ==
  /\ At(p, "EJECTED", "clear")
  /\ ctx' = Cleared
  /\ Handled(p)
  /\ UNCHANGED <<svars, loaded, running, mine, raced>>

\* Variant with a bug: the launcher is loaded over the app that is there.
MayLoad_Always(p) == TRUE

\* At boot the clock is loaded without asking for a current app.
MayLoad(p) == p = "boot" \/ ctx = NULL

\* load_and_run_app: the app is read from the card into a free context, ...
LoadApp(p) ==
  /\ At(p, "READY", "out") /\ MayLoad(p)
  /\ vfs = "live" /\ card = "provisioned"
  /\ \E c \in Contexts \ loaded :
       /\ loaded' = loaded \cup {c}
       /\ running' = running \cup {c}
       /\ mine' = [mine EXCEPT ![p] = c]
  /\ step' = [step EXCEPT ![p] = "current"]
  /\ UNCHANGED <<svars, ctx, heard, raced>>

\* ... or the card, the file or the memory is not there.
LoadFailed(p) ==
  /\ At(p, "READY", "out") /\ MayLoad(p)
  /\ Handled(p)
  /\ UNCHANGED <<svars, ctx, loaded, running, mine, raced>>

SetCurrent(p) ==
  /\ At(p, "READY", "current")
  /\ ctx' = mine[p]
  /\ mine' = [mine EXCEPT ![p] = NULL]
  /\ Handled(p)
  /\ UNCHANGED <<svars, loaded, running, raced>>

HandlerReturns(p) ==
  /\ step[p] = "handled"
  /\ CallbackReturns(p)
  /\ step' = [step EXCEPT ![p] = "out"]
  /\ UNCHANGED <<ctx, loaded, running, mine, heard, raced>>

on_storage_event(p) ==
  \/ ShowOnly(p) \/ ForceUnload(p) \/ ClearCurrent(p)
  \/ LoadApp(p) \/ LoadFailed(p) \/ SetCurrent(p) \/ HandlerReturns(p)

lifecycle_init ==
  \/ svc_storage_on_event /\ Races("boot") /\ UNCHANGED lvars
  \/ svc_storage_get_state /\ UNCHANGED <<lvars, raced>>

ChangeState(p) == SetState(p) /\ Races(p) /\ UNCHANGED lvars

Quietly(p) ==
  /\ StorageStep(p) \/ NotifyNobody(p) \/ Notify(p)
  /\ UNCHANGED <<lvars, raced>>

-----------------------------------------------------------------------------

Step(p) ==
  \/ on_storage_event(p) \/ ChangeState(p) \/ Quietly(p)
  \/ p = "boot" /\ lifecycle_init

Next ==
  \/ \E p \in Procs : Step(p)
  \/ (UserCalls \/ CardMoves) /\ UNCHANGED <<lvars, raced>>

Spec == Init /\ [][Next]_vars

\* The bound of the run: what follows a race is not explored, as the
\* properties below say nothing of it.
Unraced == ~raced

-----------------------------------------------------------------------------
(* Properties *)

\* As long as no two tasks handled state changes at once, every loaded app is
\* the current one or about to be, and the current one is loaded unless its
\* unloading is under way: no app leaks and none is unloaded twice, over any
\* number of ejections and insertions.
ContextsCounted ==
  ~raced =>
    /\ loaded = ({ctx} \cup {mine[p] : p \in Procs})
                  \ ({NULL} \cup {c \in {ctx} : \E p \in Procs : step[p] = "clear"})
    /\ ctx # NULL => ctx \in loaded \/ \E p \in Procs : step[p] = "clear"

\* As long as no two tasks handled state changes at once, the handler's last
\* word is the current state whenever nobody is on the way to it: no change is
\* lost between svc_storage_init, the registration and the boot state.
LastHeardIsState ==
  ~raced /\ pc["boot"] = "done" /\ (\A p \in Procs : ~Handling(p)) => heard = state

\* An app that runs has its code and data in allocated memory.
RunningIsLoaded == running \subseteq loaded
=============================================================================
