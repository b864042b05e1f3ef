-------------------------- MODULE LifecycleProofs --------------------------
(***************************************************************************)
(* The storage manager and the lifecycle manager on top of it, for any     *)
(* number of provisioning tasks, cards and app contexts: a mount flag that *)
(* is set tells of a mount, the lifecycle manager does nothing the storage *)
(* manager does not allow, and until two handlers overlap no app leaks and *)
(* the last state heard is the current one.                                *)
(***************************************************************************)
EXTENDS Lifecycle, TLAPS

Labels ==
  {"off", "init", "mount", "mounted", "stat", "spawn", "register", "initial", "poll",
   "debounce", "health", "unmount", "unflag", "unhandle", "set", "notify", "callback", "idle",
   "format", "create", "download", "done"}

\* Where a task goes on when it has told the callback.
Resumes == {"off", "health", "poll", "download", "done"}

StorageType ==
  /\ pc \in [Procs -> Labels] /\ then \in [Procs -> Resumes]
  /\ vfs \in {"none", "live", "stale"} /\ fs_mounted \in BOOLEAN
  /\ event_cb \in BOOLEAN

States == {"EJECTED", "UNFORMATTED", "PROVISIONING", "READY", "ERROR"}

StateType == state \in States /\ to \in [Procs -> States]

\* Between the driver's mount and the flag's: there is one task at most, the
\* mount exists, and the flag is either down or about to be cleared by the
\* monitor, which has asked the driver to unmount the card before.
MountInv ==
  /\ \A p \in Procs : pc[p] \in {"unmount", "unflag", "unhandle"} => p = "monitor"
  /\ \A p \in Procs : pc[p] = "mounted" =>
       vfs # "none" /\ (fs_mounted => pc["monitor"] = "unflag")
  /\ \A p, q \in Procs : pc[p] = "mounted" /\ pc[q] = "mounted" => p = q

\* No handler runs before lifecycle_init has registered one, which is boot's
\* last step but for the state it finds.
BootInv ==
  /\ pc["boot"] \in {"init", "mount", "mounted", "stat", "spawn", "register", "initial",
                     "callback", "done"}
  /\ event_cb <=> pc["boot"] \in {"initial", "callback", "done"}
  /\ pc["boot"] \in {"init", "mount", "mounted", "stat", "spawn"} => pc["monitor"] = "off"
  /\ pc["boot"] = "callback" => then["boot"] = "done"
  /\ \A p \in Procs : pc[p] = "callback" => event_cb

SInv == StorageType /\ FlagIsMounted /\ MountInv /\ BootInv

\* The handlers of state changes, until two of them race: there is one at a
\* time, and it has been told the current state.
HandlerInv ==
  ~raced =>
    /\ \A p, q \in Procs : Handling(p) /\ Handling(q) => p = q
    /\ \A p \in Procs : event_cb /\ pc[p] \in {"notify", "callback"} =>
         to[p] = state /\ (step[p] = "handled" => heard = state)
    /\ pc["boot"] = "done" /\ (\A p \in Procs : ~Handling(p)) => heard = state

\* A handler that does not hold an app: it has not begun or is through.
AtRest(p) == step[p] \in {"out", "handled"} /\ mine[p] = NULL

\* The apps, until two handlers race: with no handler at work the current app
\* is the only one loaded; a handler that is unloading it has freed it; and
\* one that is loading an app found none.
AppInv ==
  ~raced =>
    /\ \A p \in Procs : ~AtRest(p) => pc[p] = "callback"
    /\ ~event_cb \/ pc["boot"] = "initial" \/ (pc["boot"] = "callback" /\ step["boot"] = "out")
         => ctx = NULL
    /\ (\A p \in Procs : AtRest(p)) => loaded = {ctx} \ {NULL}
    /\ \A p \in Procs : ~AtRest(p) =>
         \/ step[p] = "clear" /\ mine[p] = NULL /\ ctx # NULL /\ loaded = {}
         \/ step[p] = "current" /\ mine[p] # NULL /\ ctx = NULL /\ loaded = {mine[p]}

HandlerType ==
  /\ step \in [Procs -> {"out", "clear", "current", "handled"}]
  /\ mine \in [Procs -> Contexts \cup {NULL}] /\ ctx \in Contexts \cup {NULL}
  /\ raced \in BOOLEAN
  /\ \A p \in Procs : step[p] # "out" => pc[p] = "callback"

IInv == SInv /\ StateType /\ HandlerType /\ HandlerInv /\ AppInv

-----------------------------------------------------------------------------
LEMMA TasksDiffer ==
  /\ "boot" \in Procs /\ "monitor" \in Procs /\ "user" \in Procs
  /\ Provisioners \subseteq Procs
  /\ \A p \in Provisioners : p # "boot" /\ p # "monitor" /\ p # "user"
  BY StorageAssumption DEF Procs

LEMMA StorageStarts == StorageInit => SInv
<1> SUFFICES ASSUME StorageInit PROVE SInv
  OBVIOUS
<1>1. \A p \in Procs : pc[p] \in {"init", "idle", "off"} /\ then[p] = "off"
  BY DEF StorageInit
<1>2. pc["boot"] = "init" /\ pc["monitor"] = "off"
  BY TasksDiffer DEF StorageInit
<1>3. pc \in [Procs -> Labels] /\ then \in [Procs -> Resumes]
  BY DEF StorageInit, Labels, Resumes
<1>4. vfs = "none" /\ fs_mounted = FALSE /\ event_cb = FALSE
  BY DEF StorageInit
<1> QED BY <1>1, <1>2, <1>3, <1>4 DEF SInv, StorageType, FlagIsMounted, MountInv, BootInv

\* A step of a task that changes nothing but where it is.
LEMMA QuietStep ==
  ASSUME SInv, NEW p \in Procs, p # "boot", NEW l \in Labels \ {"mounted", "unflag", "unhandle"},
         pc' = [pc EXCEPT ![p] = l], pc[p] \notin {"off", "unflag"},
         then' \in [Procs -> Resumes], then'["boot"] = then["boot"],
         UNCHANGED <<vfs, fs_mounted, event_cb>>,
         l = "unmount" => p = "monitor", l = "callback" => event_cb
  PROVE  SInv'
<1> USE TasksDiffer DEF SInv
<1>1. pc \in [Procs -> Labels]
  BY DEF StorageType
<1>2. StorageType'
  BY <1>1 DEF StorageType
<1>3. pc["monitor"] = "unflag" => pc'["monitor"] = "unflag"
  BY <1>1
<1>4. FlagIsMounted'
  BY <1>3 DEF FlagIsMounted
<1>5. MountInv'
  BY <1>1, <1>3 DEF MountInv
<1>6. BootInv'
  BY <1>1 DEF BootInv
<1> QED BY <1>2, <1>4, <1>5, <1>6

LEMMA BootStep ==
  ASSUME SInv,
         \/ MountUnreadable("boot") \/ MountFailed("boot") \/ StatFlag("boot")
         \/ BootLooks \/ SpawnMonitor \/ svc_storage_on_event \/ svc_storage_get_state
         \/ CallbackReturns("boot")
  PROVE  SInv'
<1> USE TasksDiffer DEF SInv
<1>1. pc \in [Procs -> Labels] /\ then \in [Procs -> Resumes]
  BY DEF StorageType
<1>2. UNCHANGED <<vfs, fs_mounted>>
  BY DEF MountUnreadable, MountFailed, StatFlag, BootLooks, SpawnMonitor,
     svc_storage_on_event, svc_storage_get_state, CallbackReturns
<1>3. /\ pc'["boot"] \in {"mount", "spawn", "register", "initial", "callback", "done"}
      /\ pc["boot"] \in {"init", "mount", "stat", "spawn", "register", "initial", "callback"}
      /\ event_cb' <=> pc'["boot"] \in {"initial", "callback", "done"}
      /\ event_cb => event_cb'
      /\ pc'["boot"] = "callback" => then'["boot"] = "done"
      /\ then' \in [Procs -> Resumes] /\ event_cb' \in BOOLEAN
  <2>1. CASE MountUnreadable("boot") \/ MountFailed("boot") \/ StatFlag("boot")
    BY <2>1, <1>1 DEF MountUnreadable, MountFailed, StatFlag, Concludes, Goto, BootInv, StorageType
  <2>2. CASE BootLooks \/ SpawnMonitor
    BY <2>2, <1>1 DEF BootLooks, SpawnMonitor, Goto, BootInv, StorageType
  <2>3. CASE svc_storage_on_event \/ svc_storage_get_state
    BY <2>3, <1>1 DEF svc_storage_on_event, svc_storage_get_state, Initial, GoSet, Goto,
       BootInv, StorageType, Resumes
  <2>4. CASE CallbackReturns("boot")
    BY <2>4, <1>1 DEF CallbackReturns, Continue, Goto, BootInv, StorageType, Resumes
  <2> QED BY <2>1, <2>2, <2>3, <2>4
<1>4. /\ \A q \in Procs \ {"boot", "monitor"} : pc'[q] = pc[q]
      /\ pc'["monitor"] = pc["monitor"] \/ (pc'["monitor"] = "init" /\ SpawnMonitor)
      /\ pc' \in [Procs -> Labels]
  <2>1. CASE MountUnreadable("boot") \/ MountFailed("boot") \/ StatFlag("boot")
    BY <2>1, <1>1 DEF MountUnreadable, MountFailed, StatFlag, Concludes, Goto, Labels
  <2>2. CASE BootLooks \/ SpawnMonitor
    BY <2>2, <1>1 DEF BootLooks, SpawnMonitor, Goto, Labels
  <2>3. CASE svc_storage_on_event \/ svc_storage_get_state
    BY <2>3, <1>1 DEF svc_storage_on_event, svc_storage_get_state, Initial, GoSet, Goto, Labels
  <2>4. CASE CallbackReturns("boot")
    BY <2>4, <1>1 DEF CallbackReturns, Continue, Goto, BootInv, Labels
  <2> QED BY <2>1, <2>2, <2>3, <2>4
<1>5. FlagIsMounted'
  BY <1>2, <1>3, <1>4, <1>1 DEF FlagIsMounted, BootInv, SpawnMonitor
<1>6. MountInv'
  BY <1>2, <1>3, <1>4, <1>1 DEF MountInv, BootInv, SpawnMonitor
<1>7. BootInv'
  <2>1. \A q \in Procs : pc'[q] = "callback" => event_cb'
    BY <1>3, <1>4 DEF BootInv
  <2>2. pc'["boot"] \in {"mount", "spawn"} => pc'["monitor"] = "off"
    <3>1. CASE MountUnreadable("boot") \/ MountFailed("boot") \/ StatFlag("boot") \/ BootLooks
      <4>1. pc["boot"] \in {"init", "mount", "mounted", "stat", "spawn"}
        BY <3>1 DEF MountUnreadable, MountFailed, StatFlag, BootLooks
      <4>2. pc'["monitor"] = pc["monitor"]
        BY <3>1, <1>1 DEF MountUnreadable, MountFailed, StatFlag, BootLooks, Concludes, Goto
      <4> QED BY <4>1, <4>2 DEF BootInv
    <3>2. CASE SpawnMonitor \/ svc_storage_on_event \/ svc_storage_get_state
      BY <3>2, <1>1 DEF SpawnMonitor, svc_storage_on_event, svc_storage_get_state, Initial, GoSet, Goto
    <3>3. CASE CallbackReturns("boot")
      BY <3>3, <1>1 DEF CallbackReturns, Continue, Goto, BootInv
    <3> QED BY <3>1, <3>2, <3>3
  <2> QED BY <2>1, <2>2, <1>3 DEF BootInv
<1> QED BY <1>2, <1>3, <1>4, <1>5, <1>6, <1>7 DEF StorageType

\* The steps around the driver's mount and the flag.
LEMMA MountStep ==
  ASSUME SInv, NEW p \in Procs,
         MountDone(p) \/ SetMounted(p) \/ (p = "user" /\ FormatCard)
  PROVE  SInv'
<1> USE TasksDiffer DEF SInv
<1>1. pc \in [Procs -> Labels] /\ UNCHANGED <<event_cb, then>>
  BY DEF StorageType, MountDone, SetMounted, FormatCard
<1>2. CASE MountDone(p) \/ (p = "user" /\ FormatCard)
  <2>1. /\ pc[p] \in {"mount", "format"} /\ pc' = [pc EXCEPT ![p] = "mounted"]
        /\ vfs = "none" /\ vfs' = "live" /\ fs_mounted' = fs_mounted
        /\ p = "boot" => pc[p] = "mount"
    BY <1>2 DEF MountDone, FormatCard, Goto
  <2>2. StorageType' /\ FlagIsMounted'
    BY <2>1, <1>1 DEF StorageType, FlagIsMounted, Labels
  <2>3. MountInv'
    BY <2>1, <1>1 DEF MountInv, FlagIsMounted
  <2>4. BootInv'
    BY <2>1, <1>1 DEF BootInv
  <2> QED BY <2>2, <2>3, <2>4
<1>3. CASE SetMounted(p)
  <2>1. PICK l \in {"create", "stat"} :
          /\ pc[p] = "mounted" /\ pc' = [pc EXCEPT ![p] = l] /\ (p = "boot" => l = "stat")
          /\ vfs' = vfs /\ fs_mounted' = TRUE
    BY <1>3 DEF SetMounted, Goto
  <2>2. StorageType' /\ FlagIsMounted'
    BY <2>1, <1>1 DEF StorageType, FlagIsMounted, MountInv, Labels
  <2>3. MountInv'
    BY <2>1, <1>1 DEF MountInv
  <2>4. BootInv'
    BY <2>1, <1>1 DEF BootInv
  <2> QED BY <2>2, <2>3, <2>4
<1> QED BY <1>2, <1>3

LEMMA UnmountStep ==
  ASSUME SInv, NEW p \in Procs, UnmountSafe(p) \/ ClearMounted(p) \/ ClearHandle(p)
  PROVE  SInv'
<1> USE TasksDiffer DEF SInv
<1>1. /\ pc \in [Procs -> Labels] /\ UNCHANGED <<event_cb, then>>
      /\ p = "monitor" /\ p # "boot"
  BY DEF StorageType, MountInv, UnmountSafe, ClearMounted, ClearHandle
<1>2. CASE UnmountSafe(p)
  <2>1. /\ pc[p] = "unmount" /\ fs_mounted' = fs_mounted
        /\ vfs' = IF fs_mounted /\ handle THEN "none" ELSE vfs
        /\ pc' = [pc EXCEPT ![p] = IF fs_mounted THEN "unflag" ELSE "set"]
    BY <1>2 DEF UnmountSafe, Goto
  <2>2. StorageType' /\ FlagIsMounted'
    BY <2>1, <1>1 DEF StorageType, FlagIsMounted, Labels
  <2>3. MountInv'
    BY <2>1, <1>1 DEF MountInv
  <2>4. BootInv'
    BY <2>1, <1>1 DEF BootInv
  <2> QED BY <2>2, <2>3, <2>4
<1>3. CASE ClearMounted(p)
  <2>1. /\ pc[p] = "unflag" /\ fs_mounted' = FALSE /\ vfs' = vfs
        /\ pc' = [pc EXCEPT ![p] = "unhandle"]
    BY <1>3 DEF ClearMounted, Unflagged, Goto
  <2>2. StorageType' /\ FlagIsMounted'
    BY <2>1, <1>1 DEF StorageType, FlagIsMounted, Labels
  <2>3. MountInv'
    BY <2>1, <1>1 DEF MountInv
  <2>4. BootInv'
    BY <2>1, <1>1 DEF BootInv
  <2> QED BY <2>2, <2>3, <2>4
<1>4. CASE ClearHandle(p)
  <2>1. /\ pc[p] = "unhandle" /\ UNCHANGED <<vfs, fs_mounted>>
        /\ pc' = [pc EXCEPT ![p] = "set"]
    BY <1>4 DEF ClearHandle, Goto
  <2>2. StorageType' /\ FlagIsMounted'
    BY <2>1, <1>1 DEF StorageType, FlagIsMounted, Labels
  <2>3. MountInv'
    BY <2>1, <1>1 DEF MountInv
  <2>4. BootInv'
    BY <2>1, <1>1 DEF BootInv
  <2> QED BY <2>2, <2>3, <2>4
<1> QED BY <1>2, <1>3, <1>4

LEMMA CreateStep == SInv /\ CreateProvisioner => SInv'
<1> SUFFICES ASSUME SInv, CreateProvisioner PROVE SInv'
  OBVIOUS
<1>1. CASE Goto("user", "idle") /\ UNCHANGED <<to, then>>
  BY <1>1, TasksDiffer, QuietStep DEF CreateProvisioner, Goto, SInv, StorageType, Labels
<1>2. ASSUME NEW p \in Provisioners, pc[p] = "off",
             pc' = [pc EXCEPT ![p] = "set", !["user"] = "idle"],
             then' = [then EXCEPT ![p] = "download"]
      PROVE  SInv'
  <2> USE TasksDiffer DEF SInv
  <2>1. /\ pc \in [Procs -> Labels] /\ UNCHANGED <<vfs, fs_mounted, event_cb>>
        /\ p \in Procs /\ p # "boot" /\ p # "monitor"
    BY DEF StorageType, CreateProvisioner
  <2>2. /\ pc' \in [Procs -> Labels] /\ pc'["boot"] = pc["boot"] /\ pc'["monitor"] = pc["monitor"]
        /\ \A q \in Procs : pc'[q] = pc[q] \/ pc'[q] \in {"set", "idle"}
    BY <1>2, <2>1 DEF Labels
  <2>3. then' \in [Procs -> Resumes] /\ then'["boot"] = then["boot"]
    BY <1>2, <2>1 DEF StorageType, Resumes
  <2>4. StorageType' /\ FlagIsMounted'
    BY <2>1, <2>2, <2>3 DEF StorageType, FlagIsMounted
  <2>5. MountInv'
    BY <2>1, <2>2 DEF MountInv
  <2>6. BootInv'
    BY <2>1, <2>2, <2>3 DEF BootInv
  <2> QED BY <2>4, <2>5, <2>6
<1> QED BY <1>1, <1>2 DEF CreateProvisioner

\* The steps of a task other than boot that are neither of these.
LEMMA OtherStep ==
  ASSUME SInv, NEW p \in Procs, p # "boot",
         \/ MountUnreadable(p) \/ MountFailed(p) \/ StatFlag(p)
         \/ SetState(p) \/ NotifyNobody(p) \/ Notify(p) \/ CallbackReturns(p)
         \/ p = "monitor" /\ (MonitorStarts \/ PollSteady \/ PollEjected \/ PollInserted
                              \/ Debounced \/ HealthNotDue \/ HealthCheck)
         \/ p = "user" /\ (FormatFailed \/ svc_storage_start_provisioning)
         \/ Provisioned(p)
  PROVE  SInv'
<1>1. UNCHANGED <<vfs, fs_mounted, event_cb>>
  BY DEF MountUnreadable, MountFailed, StatFlag, SetState, NotifyNobody, Notify,
     CallbackReturns, MonitorStarts, PollSteady, PollEjected, PollInserted, Debounced,
     HealthNotDue, HealthCheck, HealthGood, HealthBad, FormatFailed,
     svc_storage_start_provisioning, Provisioned
<1>2. pc \in [Procs -> Labels] /\ then \in [Procs -> Resumes] /\ then[p] \in Resumes
  BY DEF SInv, StorageType
<1> USE DEF Goto, GoSet, Continue, Concludes, Labels, Resumes
<1>3. PICK l \in Labels \ {"mounted", "unflag", "unhandle"} :
        /\ pc' = [pc EXCEPT ![p] = l] /\ pc[p] \notin {"off", "unflag"}
        /\ l = "unmount" => p = "monitor"
        /\ l = "callback" => event_cb
  <2>1. CASE MountUnreadable(p) \/ MountFailed(p) \/ StatFlag(p)
    BY <2>1 DEF MountUnreadable, MountFailed, StatFlag
  <2>2. CASE SetState(p)
    BY <2>2, <1>2 DEF SetState
  <2>3. CASE NotifyNobody(p) \/ Notify(p) \/ CallbackReturns(p)
    BY <2>3, <1>2 DEF NotifyNobody, Notify, CallbackReturns
  <2>4. CASE p = "monitor" /\ (MonitorStarts \/ PollSteady \/ PollEjected \/ PollInserted
                               \/ Debounced)
    BY <2>4 DEF MonitorStarts, PollSteady, PollEjected, PollInserted, Debounced
  <2>5. CASE p = "monitor" /\ (HealthNotDue \/ HealthCheck)
    BY <2>5 DEF HealthNotDue, HealthCheck, HealthGood, HealthBad, HealthExit
  <2>6. CASE p = "user" /\ (FormatFailed \/ svc_storage_start_provisioning)
    BY <2>6 DEF FormatFailed, svc_storage_start_provisioning
  <2>7. CASE Provisioned(p)
    BY <2>7 DEF Provisioned, GivesUp
  <2> QED BY <2>1, <2>2, <2>3, <2>4, <2>5, <2>6, <2>7
<1>4. then' = then \/ \E r \in Resumes : then' = [then EXCEPT ![p] = r]
  <2>1. CASE MountUnreadable(p) \/ MountFailed(p) \/ StatFlag(p)
    BY <2>1 DEF MountUnreadable, MountFailed, StatFlag
  <2>2. CASE SetState(p) \/ NotifyNobody(p) \/ Notify(p) \/ CallbackReturns(p)
    BY <2>2 DEF SetState, NotifyNobody, Notify, CallbackReturns
  <2>4. CASE p = "monitor" /\ (MonitorStarts \/ PollSteady \/ PollEjected \/ PollInserted
                               \/ Debounced \/ HealthNotDue \/ HealthCheck)
    BY <2>4 DEF MonitorStarts, PollSteady, PollEjected, PollInserted, Debounced,
       HealthNotDue, HealthCheck, HealthGood, HealthBad
  <2>6. CASE p = "user" /\ (FormatFailed \/ svc_storage_start_provisioning)
    BY <2>6 DEF FormatFailed, svc_storage_start_provisioning
  <2>7. CASE Provisioned(p)
    BY <2>7 DEF Provisioned
  <2> QED BY <2>1, <2>2, <2>4, <2>6, <2>7
<1>5. then' \in [Procs -> Resumes] /\ then'["boot"] = then["boot"]
  BY <1>2, <1>4, TasksDiffer
<1> HIDE DEF Labels, Resumes
<1> QED BY <1>1, <1>3, <1>5, QuietStep

LEMMA BootIsPlaced ==
  ASSUME SInv
  PROVE  pc["boot"] \in {"init", "mount", "mounted", "stat", "spawn", "register", "initial",
                         "callback", "done"}
  BY DEF SInv, BootInv

\* Every step of a task, be it of the storage manager or a handler's.
LEMMA TaskStepKeeps ==
  ASSUME SInv, NEW p \in Procs, TaskStep(p)
  PROVE  SInv'
<1>1. CASE MountDone(p) \/ SetMounted(p) \/ (p = "user" /\ FormatCard)
  BY <1>1, MountStep
<1>2. CASE UnmountSafe(p) \/ ClearMounted(p) \/ ClearHandle(p)
  BY <1>2, UnmountStep
<1>3. CASE p = "user" /\ CreateProvisioner
  BY <1>3, CreateStep
<1>4. CASE p = "boot" /\ (MountUnreadable(p) \/ MountFailed(p) \/ StatFlag(p)
            \/ BootLooks \/ SpawnMonitor \/ svc_storage_on_event \/ svc_storage_get_state
            \/ CallbackReturns(p))
  BY <1>4, BootStep
<1>5. ~(p = "boot" /\ (SetState(p) \/ NotifyNobody(p) \/ Notify(p)))
  BY BootIsPlaced DEF SetState, NotifyNobody, Notify
<1>6. CASE p # "boot" /\
            (\/ MountUnreadable(p) \/ MountFailed(p) \/ StatFlag(p)
             \/ SetState(p) \/ NotifyNobody(p) \/ Notify(p) \/ CallbackReturns(p)
             \/ p = "monitor" /\ (MonitorStarts \/ PollSteady \/ PollEjected \/ PollInserted
                                  \/ Debounced \/ HealthNotDue \/ HealthCheck)
             \/ p = "user" /\ FormatFailed
             \/ Provisioned(p))
  BY <1>6, OtherStep
<1> QED BY <1>1, <1>2, <1>3, <1>4, <1>5, <1>6, TasksDiffer DEF TaskStep, StorageStep

LEMMA StorageKeeps == SInv /\ [StorageNext]_svars => SInv'
<1> SUFFICES ASSUME SInv, [StorageNext]_svars PROVE SInv'
  OBVIOUS
<1>1. CASE UNCHANGED svars \/ ProvisioningRefused
  <2>1. UNCHANGED <<vfs, fs_mounted, event_cb, pc, then>>
    BY <1>1 DEF ProvisioningRefused, svars
  <2> QED BY <2>1 DEF SInv, StorageType, FlagIsMounted, MountInv, BootInv
<1>2. CASE CardMoves
  <2>1. /\ UNCHANGED <<fs_mounted, event_cb, pc, then>>
        /\ vfs' = vfs \/ (vfs = "live" /\ vfs' = "stale")
    BY <1>2 DEF CardMoves, RemoveCard, InsertCard
  <2> QED BY <2>1 DEF SInv, StorageType, FlagIsMounted, MountInv, BootInv
<1>3. CASE svc_storage_start_provisioning
  BY <1>3, OtherStep, TasksDiffer
<1>4. ASSUME NEW p \in Procs, TaskStep(p) PROVE SInv'
  BY <1>4, TaskStepKeeps
<1> QED BY <1>1, <1>2, <1>3, <1>4 DEF StorageNext, UserCalls

LEMMA StorageInvariant == StorageInit /\ [][StorageNext]_svars => []SInv
  BY StorageStarts, StorageKeeps, PTL

\* fs_mounted is set only while the driver has a mount, or the monitor is
\* about to clear it, for any number of provisioning tasks.  (That a mount is
\* always flagged is not so: lines 85 and 86 may clear the flag of a new one.)
THEOREM SetFlagMeansMounted == StorageSpec => []FlagIsMounted
<1>1. SInv => FlagIsMounted
  BY DEF SInv
<1> QED BY <1>1, StorageInvariant, PTL DEF StorageSpec

-----------------------------------------------------------------------------
(* The lifecycle manager *)

\* A step of the lifecycle manager is one of the storage manager's, with the
\* callback's work beside it.
LEMMA StepsAreStorageSteps == [Next]_vars => [StorageNext]_svars
<1> SUFFICES ASSUME [Next]_vars PROVE [StorageNext]_svars
  OBVIOUS
<1>1. CASE UNCHANGED vars
  BY <1>1 DEF vars
<1>2. CASE (UserCalls \/ CardMoves) /\ UNCHANGED <<lvars, raced>>
  BY <1>2 DEF StorageNext
<1>3. ASSUME NEW p \in Procs, Step(p) PROVE [StorageNext]_svars
  <2>1. CASE UNCHANGED svars
    BY <2>1
  <2>2. CASE TaskStep(p)
    BY <2>2 DEF StorageNext
  <2>3. TaskStep(p) \/ UNCHANGED svars
    BY <1>3 DEF Step, on_storage_event, ShowOnly, ForceUnload, ClearCurrent, LoadApp,
       LoadFailed, SetCurrent, HandlerReturns, lifecycle_init, ChangeState, Quietly, TaskStep
  <2> QED BY <2>1, <2>2, <2>3
<1> QED BY <1>1, <1>2, <1>3 DEF Next

\* The composed system does nothing to the card, the mount and the state that
\* the storage manager by itself does not allow.
THEOREM LifecycleImplementsStorage == Spec => StorageInit /\ [][StorageNext]_svars
<1>1. Init => StorageInit
  BY DEF Init
<1> QED BY <1>1, StepsAreStorageSteps, PTL DEF Spec

LEMMA StatesAreTyped ==
  ASSUME StateType, NEW p \in Procs, TaskStep(p)
  PROVE  StateType'
<1>1. state \in States /\ to \in [Procs -> States] /\ to[p] \in States
  BY DEF StateType
<1>2. state' \in States
  BY <1>1 DEF States, TaskStep, StorageStep, MountDone, MountUnreadable, MountFailed, MountError,
     SetMounted, StatFlag, UnmountSafe, ClearMounted, ClearHandle, BootLooks, SpawnMonitor,
     MonitorStarts,
     PollSteady, PollEjected, PollInserted, Debounced, HealthNotDue, HealthCheck,
     HealthGood, HealthBad, FormatCard, FormatFailed, CreateProvisioner, Provisioned,
     SetState, NotifyNobody, Notify, CallbackReturns, svc_storage_on_event,
     svc_storage_get_state, Concludes
<1>3. to' = to \/ \E q \in Procs, s \in States : to' = [to EXCEPT ![q] = s]
  <2> USE TasksDiffer DEF States, GoSet, Continue, Concludes
  <2>1. CASE MountDone(p) \/ MountUnreadable(p) \/ MountFailed(p) \/ SetMounted(p) \/ StatFlag(p)
             \/ UnmountSafe(p) \/ ClearMounted(p) \/ ClearHandle(p) \/ BootLooks \/ SpawnMonitor
    BY <2>1 DEF MountDone, MountUnreadable, MountFailed, MountError, SetMounted, StatFlag,
       UnmountSafe, ClearMounted, ClearHandle, BootLooks, SpawnMonitor
  <2>2. CASE p = "monitor" /\ (MonitorStarts \/ PollSteady \/ PollEjected \/ PollInserted
                               \/ Debounced \/ HealthNotDue \/ HealthCheck)
    BY <2>2 DEF MonitorStarts, PollSteady, PollEjected, PollInserted, Debounced,
       HealthNotDue, HealthCheck, HealthGood, HealthBad
  <2>3. CASE FormatCard \/ FormatFailed \/ CreateProvisioner \/ Provisioned(p)
    BY <2>3 DEF FormatCard, FormatFailed, CreateProvisioner, Provisioned
  <2>4. CASE SetState(p) \/ NotifyNobody(p) \/ Notify(p) \/ CallbackReturns(p)
             \/ svc_storage_on_event
    BY <2>4 DEF SetState, NotifyNobody, Notify, CallbackReturns, svc_storage_on_event
  <2>5. CASE svc_storage_get_state
    BY <2>5, <1>1 DEF svc_storage_get_state
  <2> QED BY <2>1, <2>2, <2>3, <2>4, <2>5 DEF TaskStep, StorageStep
<1> QED BY <1>1, <1>2, <1>3 DEF StateType

LEMMA LifecycleStarts == Init => IInv
<1> SUFFICES ASSUME Init PROVE IInv
  OBVIOUS
<1>1. SInv
  BY StorageStarts DEF Init
<1>2. /\ \A p \in Procs : pc[p] \in {"init", "idle", "off"}
      /\ pc["boot"] = "init"
  BY TasksDiffer DEF Init, StorageInit
<1>3. HandlerType
  BY DEF Init, HandlerType
<1>4. HandlerInv
  BY <1>2 DEF HandlerInv, Handling
<1>5. \A p \in Procs : AtRest(p)
  BY DEF Init, AtRest
<1>6. AppInv
  BY <1>5 DEF AppInv, Init
<1>7. StateType
  BY DEF Init, StorageInit, StateType, States
<1> QED BY <1>1, <1>3, <1>4, <1>6, <1>7 DEF IInv

\* A handler is in its place as long as its task is; one that has not begun
\* holds nothing.
LEMMA HandlersAtRest ==
  ASSUME IInv, ~raced
  PROVE  /\ \A p, q \in Procs : Handling(p) /\ Handling(q) => p = q
         /\ \A p \in Procs : ~AtRest(p) => Handling(p)
         /\ \A p \in Procs : step[p] \in {"out", "handled"} => mine[p] = NULL
  BY DEF IInv, HandlerInv, AppInv, AtRest, Handling

\* A step that leaves the handlers where they are, or lets one begin.
LEMMA HandlersKept ==
  ASSUME IInv, SInv', StateType', UNCHANGED <<lvars, raced, event_cb>>,
         event_cb => state' = state,
         \A q \in Procs : event_cb => Handling(q)' = Handling(q),
         \A q \in Procs : Handling(q)' => Handling(q) /\ to'[q] = to[q],
         \A q \in Procs : pc[q] \in {"callback", "initial"} => pc'[q] = pc[q],
         pc'["boot"] \in {"initial", "callback", "done"} => pc'["boot"] = pc["boot"]
  PROVE  IInv'
<1>1. UNCHANGED <<ctx, loaded, running, step, mine, heard, raced, event_cb>>
  BY DEF lvars
<1>2. HandlerType'
  BY <1>1 DEF IInv, HandlerType
<1>3. HandlerInv'
  <2> SUFFICES ASSUME ~raced PROVE HandlerInv'
    BY <1>1 DEF HandlerInv
  <2>1. \A p, q \in Procs : Handling(p)' /\ Handling(q)' => p = q
    BY HandlersAtRest
  <2>2. ASSUME NEW p \in Procs, event_cb', pc'[p] \in {"notify", "callback"}
        PROVE  to'[p] = state' /\ (step'[p] = "handled" => heard' = state')
    <3>1. Handling(p) /\ to'[p] = to[p] /\ state' = state
      BY <2>2, <1>1 DEF Handling
    <3>2. CASE pc[p] \in {"notify", "callback"}
      BY <3>1, <3>2, <1>1, <2>2 DEF IInv, HandlerInv
    <3>3. pc[p] # "initial"
      BY <2>2
    <3> QED BY <3>1, <3>2, <3>3 DEF Handling
  <2>3. pc'["boot"] = "done" /\ (\A p \in Procs : ~Handling(p)') => heard' = state'
    BY <1>1 DEF IInv, HandlerInv, SInv, BootInv
  <2> QED BY <2>1, <2>2, <2>3 DEF HandlerInv
<1>4. AppInv'
  <2>1. \A p \in Procs : AtRest(p)' = AtRest(p)
    BY <1>1 DEF AtRest
  <2> QED BY <2>1, <1>1 DEF IInv, AppInv
<1> QED BY <1>2, <1>3, <1>4 DEF IInv

\* Storage steps, and the first half of telling the callback.
LEMMA QuietlyKeeps ==
  ASSUME IInv, NEW p \in Procs, Quietly(p) PROVE IInv'
<1> USE TasksDiffer
<1>1. /\ UNCHANGED <<lvars, raced, event_cb>>
      /\ TaskStep(p) /\ SInv /\ SInv' /\ StateType'
      /\ to \in [Procs -> States]
  <2>1. TaskStep(p) /\ UNCHANGED <<lvars, raced>>
    BY DEF Quietly, TaskStep
  <2>2. SInv /\ SInv' /\ StateType' /\ to \in [Procs -> States]
    BY <2>1, TaskStepKeeps, StatesAreTyped DEF IInv, StateType
  <2>3. UNCHANGED event_cb
    BY DEF Quietly, StorageStep, MountDone, MountUnreadable, MountFailed, SetMounted,
       StatFlag, UnmountSafe, ClearMounted, ClearHandle, BootLooks, SpawnMonitor,
     MonitorStarts,
       PollSteady, PollEjected, PollInserted, Debounced, HealthNotDue, HealthCheck,
       HealthGood, HealthBad, FormatCard, FormatFailed, CreateProvisioner, Provisioned,
       NotifyNobody, Notify
  <2> QED BY <2>1, <2>2, <2>3
<1>2. pc \in [Procs -> Labels] /\ then \in [Procs -> Resumes]
  BY <1>1 DEF SInv, StorageType
<1>3. CASE SpawnMonitor
  <2>1. /\ pc' = [pc EXCEPT !["boot"] = "register", !["monitor"] = "init"]
        /\ UNCHANGED <<state, to>> /\ pc["boot"] = "spawn" /\ pc["monitor"] = "off"
    BY <1>3, <1>1 DEF SpawnMonitor, SInv, BootInv
  <2> QED BY <1>1, <1>2, <2>1, HandlersKept DEF Handling
<1>4. CASE CreateProvisioner
  <2>1. /\ UNCHANGED state /\ pc["user"] = "create"
        /\ \A q \in Procs : q # "user" => pc'[q] = pc[q] \/ (pc[q] = "off" /\ pc'[q] = "set")
        /\ pc'["user"] = "idle"
        /\ \A q \in Procs : to'[q] = to[q] \/ pc'[q] = "set"
    <3>1. CASE Goto("user", "idle") /\ UNCHANGED <<to, then>>
      BY <3>1, <1>2, <1>4 DEF CreateProvisioner, Goto
    <3>2. ASSUME NEW q \in Provisioners, pc[q] = "off",
                 pc' = [pc EXCEPT ![q] = "set", !["user"] = "idle"],
                 to' = [to EXCEPT ![q] = "PROVISIONING"]
          PROVE  /\ pc'["user"] = "idle" /\ pc'[q] = "set"
                 /\ \A r \in Procs \ {q, "user"} : pc'[r] = pc[r]
                 /\ \A r \in Procs \ {q} : to'[r] = to[r]
      BY <3>2, <1>2
    <3>3. UNCHANGED state /\ pc["user"] = "create"
      BY <1>4 DEF CreateProvisioner
    <3> QED BY <3>1, <3>2, <3>3, <1>4 DEF CreateProvisioner
  <2> QED BY <1>1, <1>2, <2>1, HandlersKept DEF Handling
<1>5. CASE Notify(p) \/ NotifyNobody(p)
  <2>1. PICK l \in Labels :
          /\ pc[p] = "notify" /\ pc' = [pc EXCEPT ![p] = l] /\ UNCHANGED state
          /\ \/ l = "callback" /\ UNCHANGED to
             \/ ~event_cb /\ l \in Resumes /\ \A q \in Procs \ {p} : to'[q] = to[q]
    BY <1>5, <1>1, <1>2 DEF Notify, NotifyNobody, Goto, Continue, Labels, Resumes
  <2>2. l # "notify" /\ l # "initial" /\ (l \in Resumes => l # "callback")
    BY <2>1 DEF Resumes
  <2>3. p # "boot"
    BY <2>1, <1>1, BootIsPlaced
  <2> QED BY <1>1, <1>2, <2>1, <2>2, <2>3, HandlersKept DEF Handling
<1>6. CASE p = "boot" /\ (MountUnreadable(p) \/ MountFailed(p) \/ StatFlag(p))
  <2>1. /\ pc[p] \in {"mount", "stat"} /\ pc' = [pc EXCEPT ![p] = "spawn"] /\ UNCHANGED to
    BY <1>6 DEF MountUnreadable, MountFailed, StatFlag, Concludes, Goto
  <2>2. ~event_cb
    BY <2>1, <1>1, <1>6 DEF SInv, BootInv
  <2> QED BY <1>1, <1>2, <1>6, <2>1, <2>2, HandlersKept DEF Handling
<1>7. CASE \/ MountDone(p) \/ SetMounted(p) \/ UnmountSafe(p) \/ ClearMounted(p) \/ ClearHandle(p)
           \/ p # "boot" /\ (MountUnreadable(p) \/ MountFailed(p) \/ StatFlag(p))
           \/ p = "boot" /\ BootLooks
           \/ p = "monitor" /\ (MonitorStarts \/ PollSteady \/ PollEjected \/ PollInserted
                                \/ Debounced \/ HealthNotDue \/ HealthCheck)
           \/ p = "user" /\ (FormatCard \/ FormatFailed)
           \/ Provisioned(p)
  <2> DEFINE Busy == {"notify", "callback", "initial", "done"}
  <2>1. UNCHANGED state /\ \A q \in Procs \ {p} : to'[q] = to[q]
    BY <1>1, <1>7 DEF MountDone, MountUnreadable, MountFailed, SetMounted,
       StatFlag, UnmountSafe, ClearMounted, ClearHandle, BootLooks, MonitorStarts,
       PollSteady, PollEjected, PollInserted, Debounced, HealthNotDue, HealthCheck,
       HealthGood, HealthBad, FormatCard, FormatFailed, Provisioned, Concludes, GoSet
  <2>2. PICK l : l \notin Busy /\ pc[p] \notin Busy /\ pc' = [pc EXCEPT ![p] = l]
    <3>1. CASE MountDone(p) \/ SetMounted(p) \/ UnmountSafe(p) \/ ClearMounted(p) \/ ClearHandle(p)
      BY <3>1 DEF MountDone, SetMounted, UnmountSafe, ClearMounted, ClearHandle, Goto
    <3>2. CASE p # "boot" /\ (MountUnreadable(p) \/ MountFailed(p) \/ StatFlag(p))
      BY <3>2 DEF MountUnreadable, MountFailed, StatFlag, Concludes, GoSet, Goto
    <3>3. CASE p = "boot" /\ BootLooks
      BY <3>3 DEF BootLooks, Goto
    <3>4. CASE p = "monitor" /\ (MonitorStarts \/ PollSteady \/ PollEjected \/ PollInserted
                                 \/ Debounced \/ HealthNotDue \/ HealthCheck)
      BY <3>4 DEF MonitorStarts, PollSteady, PollEjected, PollInserted, Debounced,
         HealthNotDue, HealthCheck, HealthGood, HealthBad, HealthExit, GoSet, Goto
    <3>5. CASE p = "user" /\ (FormatCard \/ FormatFailed)
      BY <3>5 DEF FormatCard, FormatFailed, Goto
    <3>6. CASE Provisioned(p)
      BY <3>6 DEF Provisioned, GivesUp, GoSet, Goto
    <3> QED BY <1>7, <3>1, <3>2, <3>3, <3>4, <3>5, <3>6
  <2>3. \A q \in Procs : pc'[q] \in Busy \/ pc[q] \in Busy => pc'[q] = pc[q] /\ q # p
    BY <2>2, <1>2
  <2> QED BY <1>1, <2>1, <2>3, HandlersKept DEF Handling
<1> QED BY <1>3, <1>4, <1>5, <1>6, <1>7 DEF Quietly, StorageStep

\* set_state, by a task whose change meets no other handler or makes a race.
LEMMA ChangeStateKeeps ==
  ASSUME IInv, NEW p \in Procs, ChangeState(p) PROVE IInv'
<1> USE TasksDiffer
<1>1. /\ SetState(p) /\ raced' = (raced \/ \E q \in Procs \ {p} : Handling(q))
      /\ UNCHANGED <<ctx, loaded, running, step, mine, heard, event_cb>>
      /\ pc[p] = "set" /\ state' = to[p] /\ p # "boot"
  BY BootIsPlaced DEF ChangeState, Races, SetState, lvars, IInv
<1>2. SInv' /\ StateType' /\ pc \in [Procs -> Labels] /\ then \in [Procs -> Resumes]
  BY <1>1, TaskStepKeeps, StatesAreTyped DEF IInv, SInv, StorageType, TaskStep
<1>3. PICK l \in {"notify"} \cup Resumes :
        /\ pc' = [pc EXCEPT ![p] = l]
        /\ l = "notify" => UNCHANGED to
        /\ l # "notify" => state' = state
  BY <1>1, <1>2 DEF SetState, Continue, Goto, Resumes
<1>4. \A q \in Procs : pc[q] = "callback" => pc'[q] = "callback"
  BY <1>1, <1>2, <1>3
<1>5. HandlerType'
  BY <1>1, <1>4 DEF IInv, HandlerType
<1>6. CASE raced'
  BY <1>6, <1>2, <1>5 DEF IInv, HandlerInv, AppInv
<1>7. CASE ~raced'
  <2>1. ~raced /\ \A q \in Procs : ~Handling(q)
    BY <1>7, <1>1 DEF Handling
  <2>2. \A q \in Procs : AtRest(q) /\ AtRest(q)'
    BY <2>1, <1>1, HandlersAtRest DEF AtRest
  <2>3. \A q \in Procs : Handling(q)' => q = p /\ l = "notify"
    BY <2>1, <1>1, <1>2, <1>3 DEF Handling, Resumes
  <2>4. step[p] = "out"
    BY <1>1 DEF IInv, HandlerType
  <2>5. pc'["boot"] = pc["boot"] /\ pc["boot"] \notin {"initial", "callback"}
    BY <1>1, <1>2, <1>3, <2>1 DEF Handling
  <2>6. HandlerInv'
    <3>1. ASSUME pc'["boot"] = "done", \A q \in Procs : ~Handling(q)' PROVE heard' = state'
      <4>1. l # "notify"
        BY <3>1, <1>2, <1>3 DEF Handling
      <4> QED BY <4>1, <3>1, <2>1, <2>5, <1>1, <1>3 DEF IInv, HandlerInv
    <3>2. ASSUME NEW q \in Procs, pc'[q] \in {"notify", "callback"}
          PROVE  to'[q] = state' /\ step'[q] = "out"
      BY <3>2, <2>3, <2>4, <1>1, <1>3 DEF Handling
    <3> QED BY <3>1, <3>2, <2>3 DEF HandlerInv
  <2>7. AppInv'
    BY <2>1, <2>2, <2>5, <1>1 DEF IInv, AppInv
  <2> QED BY <2>6, <2>7, <1>2, <1>5 DEF IInv
<1> QED BY <1>6, <1>7

\* The registration of the callback, and the state found at boot.
LEMMA LifecycleInitKeeps ==
  ASSUME IInv, lifecycle_init PROVE IInv'
<1> USE TasksDiffer
<1>1. SInv' /\ StateType' /\ pc \in [Procs -> Labels] /\ SInv /\ to \in [Procs -> States]
  BY TaskStepKeeps, StatesAreTyped DEF lifecycle_init, TaskStep, IInv, SInv, StorageType, StateType
<1>2. CASE svc_storage_on_event /\ Races("boot") /\ UNCHANGED lvars
  <2>1. /\ raced' = (raced \/ \E q \in Procs \ {"boot"} : Handling(q))
        /\ UNCHANGED <<ctx, loaded, running, step, mine, heard, state, to>>
        /\ pc["boot"] = "register" /\ pc' = [pc EXCEPT !["boot"] = "initial"]
    BY <1>2 DEF svc_storage_on_event, Races, lvars, Goto
  <2>2. HandlerType'
    BY <2>1, <1>1 DEF IInv, HandlerType
  <2>3. CASE raced'
    BY <2>2, <2>3, <1>1 DEF IInv, HandlerInv, AppInv
  <2>4. CASE ~raced'
    <3>1. ~raced /\ \A q \in Procs : ~Handling(q)
      BY <2>4, <2>1 DEF Handling
    <3>2. \A q \in Procs : Handling(q)' => q = "boot"
      BY <3>1, <2>1, <1>1 DEF Handling
    <3>3. HandlerInv'
      BY <3>2, <2>1, <1>1 DEF HandlerInv, Handling
    <3>4. \A q \in Procs : AtRest(q) /\ AtRest(q)'
      BY <3>1, <2>1, HandlersAtRest DEF AtRest
    <3>5. ~event_cb
      BY <2>1, <1>1 DEF SInv, BootInv
    <3>6. AppInv'
      BY <3>1, <3>4, <3>5, <2>1 DEF IInv, AppInv
    <3> QED BY <3>3, <3>6, <2>2, <1>1 DEF IInv
  <2> QED BY <2>3, <2>4
<1>3. CASE svc_storage_get_state /\ UNCHANGED <<lvars, raced>>
  <2>1. /\ UNCHANGED <<ctx, loaded, running, step, mine, heard, raced, state, event_cb>>
        /\ pc["boot"] = "initial" /\ pc' = [pc EXCEPT !["boot"] = "callback"]
        /\ to' = [to EXCEPT !["boot"] = state]
    BY <1>3 DEF svc_storage_get_state, lvars, Initial, GoSet, Goto
  <2>2. HandlerType' /\ step["boot"] = "out"
    BY <2>1, <1>1 DEF IInv, HandlerType
  <2>3. \A q \in Procs : Handling(q)' = Handling(q) /\ AtRest(q)' = AtRest(q)
    BY <2>1, <1>1 DEF Handling, AtRest
  <2>4. HandlerInv'
    <3> SUFFICES ASSUME ~raced PROVE HandlerInv'
      BY <2>1 DEF HandlerInv
    <3>1. \A p, q \in Procs : Handling(p)' /\ Handling(q)' => p = q
      BY <2>3, HandlersAtRest
    <3>2. Handling("boot")' /\ Handling("boot")
      BY <2>1, <1>1 DEF Handling
    <3>3. \A q \in Procs : pc'[q] \in {"notify", "callback"} => q = "boot"
      BY <3>1, <3>2 DEF Handling
    <3>4. to'["boot"] = state' /\ step'["boot"] = "out"
      BY <2>1, <2>2, <1>1
    <3> QED BY <3>1, <3>2, <3>3, <3>4 DEF HandlerInv
  <2>5. AppInv'
    BY <2>1, <2>3, <1>1 DEF IInv, AppInv
  <2> QED BY <2>2, <2>4, <2>5, <1>1 DEF IInv
<1> QED BY <1>2, <1>3 DEF lifecycle_init

\* A step of a handler that stays in the callback.
LEMMA HandlerStepKeeps ==
  ASSUME IInv, NEW p \in Procs, pc[p] = "callback", UNCHANGED <<svars, raced>>,
         HandlerType', \A q \in Procs \ {p} : step'[q] = step[q] /\ mine'[q] = mine[q],
         step'[p] # "out",
         step'[p] # "handled" => heard' = heard /\ step[p] # "handled",
         step'[p] = "handled" => heard' = to[p],
         ~raced /\ AtRest(p)' => loaded' = {ctx'} \ {NULL},
         ~raced /\ ~AtRest(p)' =>
           \/ step'[p] = "clear" /\ mine'[p] = NULL /\ ctx' # NULL /\ loaded' = {}
           \/ step'[p] = "current" /\ mine'[p] # NULL /\ ctx' = NULL /\ loaded' = {mine'[p]}
  PROVE  IInv'
<1> USE TasksDiffer
<1>1. UNCHANGED <<pc, to, then, state, event_cb, vfs, fs_mounted, raced>>
  BY DEF svars
<1>2. SInv' /\ StateType'
  BY <1>1 DEF IInv, SInv, StorageType, FlagIsMounted, MountInv, BootInv, StateType
<1>3. event_cb /\ Handling(p)
  BY DEF IInv, SInv, BootInv, Handling
<1>4. CASE raced
  BY <1>1, <1>2, <1>4 DEF IInv, HandlerInv, AppInv
<1>5. CASE ~raced
  <2>1. \A q \in Procs : Handling(q) => q = p
    BY <1>3, <1>5, HandlersAtRest
  <2>2. HandlerInv'
    <3>1. \A q \in Procs : pc[q] \in {"notify", "callback"} => q = p /\ to[q] = state
      BY <2>1, <1>3, <1>5 DEF Handling, IInv, HandlerInv
    <3>2. \A q, r \in Procs : Handling(q)' /\ Handling(r)' => q = r
      BY <2>1, <1>1 DEF Handling
    <3>3. Handling(p)'
      BY <1>1, <1>3 DEF Handling
    <3> QED BY <3>1, <3>2, <3>3, <1>1 DEF HandlerInv
  <2>3. \A q \in Procs \ {p} : AtRest(q) /\ AtRest(q)'
    BY <2>1, <1>5, HandlersAtRest DEF AtRest
  <2>4. ~(pc["boot"] = "initial") /\ (pc["boot"] = "callback" => p = "boot")
    BY <2>1 DEF Handling
  <2>5. AppInv'
    BY <2>3, <2>4, <1>1, <1>3, <1>5 DEF AppInv
  <2> QED BY <2>2, <2>5, <1>2 DEF IInv
<1> QED BY <1>4, <1>5

LEMMA HandlerKeeps ==
  ASSUME IInv, NEW p \in Procs, on_storage_event(p) PROVE IInv'
<1> USE TasksDiffer DEF At
<1>1. HandlerType
  BY DEF IInv
<1>2. ~raced /\ pc[p] = "callback" => \A q \in Procs \ {p} : AtRest(q)
  BY HandlersAtRest DEF Handling
<1>3. ~raced /\ pc[p] = "callback" /\ AtRest(p) => loaded = {ctx} \ {NULL}
  BY <1>2 DEF IInv, AppInv
<1>4. CASE ShowOnly(p) \/ LoadFailed(p)
  <2>1. /\ pc[p] = "callback" /\ step[p] = "out"
        /\ UNCHANGED <<svars, raced, ctx, loaded, running, mine>>
        /\ step' = [step EXCEPT ![p] = "handled"] /\ heard' = to[p]
    BY <1>4 DEF ShowOnly, LoadFailed, Handled
  <2>2. HandlerType'
    BY <2>1, <1>1 DEF HandlerType, svars
  <2>3. ~raced => AtRest(p) /\ AtRest(p)'
    BY <2>1, <1>1, HandlersAtRest DEF AtRest, HandlerType
  <2>4. step'[p] = "handled" /\ \A q \in Procs \ {p} : step'[q] = step[q] /\ mine'[q] = mine[q]
    BY <2>1, <1>1 DEF HandlerType
  <2> QED BY <2>1, <2>2, <2>3, <2>4, <1>3, HandlerStepKeeps
<1>5. CASE ForceUnload(p)
  <2>1. /\ pc[p] = "callback" /\ step[p] = "out" /\ ctx # NULL /\ loaded' = loaded \ {ctx}
        /\ UNCHANGED <<svars, raced, ctx, mine, heard>>
        /\ step' = [step EXCEPT ![p] = "clear"]
    BY <1>5 DEF ForceUnload
  <2>2. HandlerType'
    BY <2>1, <1>1 DEF HandlerType, svars
  <2>3. ~raced => AtRest(p) /\ ~AtRest(p)' /\ mine'[p] = NULL
    BY <2>1, <1>1, HandlersAtRest DEF AtRest, HandlerType
  <2>4. step'[p] = "clear" /\ \A q \in Procs \ {p} : step'[q] = step[q] /\ mine'[q] = mine[q]
    BY <2>1, <1>1 DEF HandlerType
  <2> QED BY <2>1, <2>2, <2>3, <2>4, <1>3, HandlerStepKeeps
<1>6. CASE ClearCurrent(p)
  <2>1. /\ pc[p] = "callback" /\ step[p] = "clear" /\ ctx' = NULL
        /\ UNCHANGED <<svars, raced, loaded, mine>>
        /\ step' = [step EXCEPT ![p] = "handled"] /\ heard' = to[p]
    BY <1>6 DEF ClearCurrent, Handled, Cleared
  <2>2. HandlerType'
    BY <2>1, <1>1 DEF HandlerType, svars
  <2>3. ~raced => loaded = {} /\ mine[p] = NULL
    BY <2>1 DEF IInv, AppInv, AtRest
  <2>4. step'[p] = "handled" /\ \A q \in Procs \ {p} : step'[q] = step[q] /\ mine'[q] = mine[q]
    BY <2>1, <1>1 DEF HandlerType
  <2>5. ~raced => AtRest(p)' /\ loaded' = {ctx'} \ {NULL}
    BY <2>1, <2>3, <2>4 DEF AtRest
  <2> QED BY <2>1, <2>2, <2>4, <2>5, HandlerStepKeeps
<1>7. CASE LoadApp(p)
  <2>1. PICK c \in Contexts \ loaded :
          /\ pc[p] = "callback" /\ step[p] = "out" /\ MayLoad(p)
          /\ loaded' = loaded \cup {c} /\ mine' = [mine EXCEPT ![p] = c]
          /\ UNCHANGED <<svars, raced, ctx, heard>>
          /\ step' = [step EXCEPT ![p] = "current"]
    BY <1>7 DEF LoadApp
  <2>2. HandlerType'
    BY <2>1, <1>1 DEF HandlerType, svars
  <2>3. ~raced => AtRest(p) /\ ctx = NULL
    <3> SUFFICES ASSUME ~raced PROVE AtRest(p) /\ ctx = NULL
      OBVIOUS
    <3>1. AtRest(p)
      BY <2>1, <1>1, HandlersAtRest DEF AtRest, HandlerType
    <3>2. p = "boot" => ctx = NULL
      BY <2>1 DEF IInv, AppInv
    <3> QED BY <3>1, <3>2, <2>1 DEF MayLoad
  <2>4. /\ step'[p] = "current" /\ mine'[p] = c
        /\ \A q \in Procs \ {p} : step'[q] = step[q] /\ mine'[q] = mine[q]
    BY <2>1, <1>1 DEF HandlerType
  <2>5. c # NULL /\ ~AtRest(p)'
    BY <2>4, ContextAssumption DEF AtRest
  <2>6. ~raced => ctx' = NULL /\ loaded' = {mine'[p]}
    BY <2>1, <2>3, <2>4, <1>3
  <2> QED BY <2>1, <2>2, <2>4, <2>5, <2>6, HandlerStepKeeps
<1>8. CASE SetCurrent(p)
  <2>1. /\ pc[p] = "callback" /\ step[p] = "current" /\ ctx' = mine[p]
        /\ mine' = [mine EXCEPT ![p] = NULL] /\ UNCHANGED <<svars, raced, loaded>>
        /\ step' = [step EXCEPT ![p] = "handled"] /\ heard' = to[p]
    BY <1>8 DEF SetCurrent, Handled
  <2>2. HandlerType'
    BY <2>1, <1>1 DEF HandlerType, svars
  <2>3. ~raced => mine[p] # NULL /\ loaded = {mine[p]}
    BY <2>1 DEF IInv, AppInv, AtRest
  <2>4. /\ step'[p] = "handled" /\ mine'[p] = NULL
        /\ \A q \in Procs \ {p} : step'[q] = step[q] /\ mine'[q] = mine[q]
    BY <2>1, <1>1 DEF HandlerType
  <2>5. ~raced => AtRest(p)' /\ loaded' = {ctx'} \ {NULL}
    BY <2>1, <2>3, <2>4 DEF AtRest
  <2> QED BY <2>1, <2>2, <2>4, <2>5, HandlerStepKeeps
<1>9. CASE HandlerReturns(p)
  <2>1. /\ step[p] = "handled" /\ step' = [step EXCEPT ![p] = "out"] /\ CallbackReturns(p)
        /\ UNCHANGED <<ctx, loaded, mine, heard, raced, state, event_cb>>
        /\ pc[p] = "callback" /\ pc' = [pc EXCEPT ![p] = then[p]]
    BY <1>9 DEF HandlerReturns, CallbackReturns, Continue, Goto
  <2>2. /\ SInv' /\ StateType' /\ pc \in [Procs -> Labels] /\ then[p] \in Resumes
        /\ then[p] \notin {"notify", "callback", "initial"}
    BY <2>1, TaskStepKeeps, StatesAreTyped DEF IInv, SInv, StorageType, TaskStep, Resumes
  <2>3. HandlerType'
    BY <2>1, <2>2, <1>1 DEF HandlerType
  <2>4. CASE raced
    BY <2>1, <2>2, <2>3, <2>4 DEF IInv, HandlerInv, AppInv
  <2>5. CASE ~raced
    <3>1. \A q \in Procs : Handling(q) => q = p
      BY <2>1, <2>5, HandlersAtRest DEF Handling
    <3>2. \A q \in Procs : ~Handling(q)'
      BY <3>1, <2>1, <2>2 DEF Handling
    <3>3. heard = state
      BY <2>1, <2>2, <2>5 DEF IInv, HandlerInv, SInv, BootInv
    <3>4. HandlerInv'
      BY <3>2, <3>3, <2>1 DEF HandlerInv, Handling
    <3>5. \A q \in Procs : AtRest(q) /\ AtRest(q)'
      BY <2>1, <2>5, <1>1, <1>2, HandlersAtRest DEF AtRest, HandlerType
    <3>6. pc'["boot"] \notin {"initial", "callback"} /\ event_cb
      BY <3>2, <2>1 DEF Handling, IInv, SInv, BootInv
    <3>7. AppInv'
      BY <3>5, <3>6, <2>1, <1>3 DEF AppInv
    <3> QED BY <3>4, <3>7, <2>2, <2>3 DEF IInv
  <2> QED BY <2>4, <2>5
<1> QED BY <1>4, <1>5, <1>6, <1>7, <1>8, <1>9 DEF on_storage_event

LEMMA LifecycleKeeps == IInv /\ [Next]_vars => IInv'
<1> SUFFICES ASSUME IInv, [Next]_vars PROVE IInv'
  OBVIOUS
<1>1. CASE UNCHANGED vars \/ ((UserCalls \/ CardMoves) /\ UNCHANGED <<lvars, raced>>)
  <2>1. SInv'
    BY StepsAreStorageSteps, StorageKeeps DEF IInv
  <2>2. /\ UNCHANGED <<lvars, raced, event_cb, state, to>>
        /\ \/ UNCHANGED pc
           \/ /\ pc["user"] = "idle" /\ event_cb
              /\ \E l \in {"format", "create"} : pc' = [pc EXCEPT !["user"] = l]
    BY <1>1 DEF vars, svars, UserCalls, CardMoves, ProvisioningRefused,
       svc_storage_start_provisioning, RemoveCard, InsertCard, Goto
  <2>3. pc \in [Procs -> Labels] /\ StateType'
    BY <2>2 DEF IInv, SInv, StorageType, StateType
  <2>4. \A q \in Procs : pc'[q] = pc[q] \/ (q = "user" /\ pc[q] = "idle" /\ pc'[q] \in {"format", "create"})
    BY <2>2, <2>3
  <2> QED BY <2>1, <2>2, <2>3, <2>4, TasksDiffer, HandlersKept DEF Handling
<1>2. ASSUME NEW p \in Procs, Step(p) PROVE IInv'
  BY <1>2, HandlerKeeps, ChangeStateKeeps, QuietlyKeeps, LifecycleInitKeeps DEF Step
<1> QED BY <1>1, <1>2 DEF Next

LEMMA LifecycleInvariant == Spec => []IInv
  BY LifecycleStarts, LifecycleKeeps, PTL DEF Spec

\* Until two handlers race no app leaks and none is unloaded twice.
THEOREM NoAppLeaks == Spec => []ContextsCounted
<1>1. ASSUME IInv, ~raced
      PROVE  /\ loaded = ({ctx} \cup {mine[p] : p \in Procs})
                  \ ({NULL} \cup {c \in {ctx} : \E p \in Procs : step[p] = "clear"})
             /\ ctx # NULL => ctx \in loaded \/ \E p \in Procs : step[p] = "clear"
  <2>1. CASE \A p \in Procs : AtRest(p)
    <3>1. loaded = {ctx} \ {NULL}
      BY <2>1, <1>1 DEF IInv, AppInv
    <3>2. \A p \in Procs : mine[p] = NULL /\ step[p] # "clear"
      BY <2>1 DEF AtRest
    <3> QED BY <3>1, <3>2
  <2>2. ASSUME NEW p \in Procs, ~AtRest(p)
        PROVE  /\ loaded = ({ctx} \cup {mine[q] : q \in Procs})
                  \ ({NULL} \cup {c \in {ctx} : \E q \in Procs : step[q] = "clear"})
               /\ ctx # NULL => ctx \in loaded \/ \E q \in Procs : step[q] = "clear"
    <3>1. \A q \in Procs \ {p} : mine[q] = NULL /\ step[q] # "clear"
      BY <2>2, <1>1, HandlersAtRest DEF AtRest
    <3>2. \/ step[p] = "clear" /\ mine[p] = NULL /\ ctx # NULL /\ loaded = {}
          \/ step[p] = "current" /\ mine[p] # NULL /\ ctx = NULL /\ loaded = {mine[p]}
      BY <2>2, <1>1 DEF IInv, AppInv
    <3> QED BY <3>1, <3>2
  <2> QED BY <2>1, <2>2
<1>2. IInv => ContextsCounted
  BY <1>1 DEF ContextsCounted
<1> QED BY <1>2, LifecycleInvariant, PTL

\* As long as no two handlers have overlapped, and none is at work, the last
\* state a handler heard is the current one.
THEOREM LastChangeHeardUnraced == Spec => []LastHeardIsState
<1>1. IInv => LastHeardIsState
  BY DEF IInv, HandlerInv, LastHeardIsState
<1> QED BY <1>1, LifecycleInvariant, PTL
=============================================================================
