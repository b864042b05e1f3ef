------------------------------- MODULE Storage -------------------------------
(***************************************************************************)
(* The storage manager (src/svc_storage.c): a five-state machine for the   *)
(* SD card that several tasks step without a common lock.                  *)
(*   "boot"        app_main: svc_storage_init, then lifecycle_init         *)
(*   "monitor"     storage_monitor_task, polling the card-detect pin       *)
(*   "user"        the caller of svc_storage_start_provisioning            *)
(*   Provisioners  the background tasks that call starts                   *)
(* state_mutex covers the assignment of the state only: the driver's mount,*)
(* the fs_mounted flag and the event callback happen outside of it.        *)
(***************************************************************************)
EXTENDS Naturals

CONSTANTS
  Provisioners,  \* background provisioning tasks that may exist at once
  MaxInserts,    \* how often a card is inserted after power-up
  Inserted       \* the kinds of cards in the slot at power-up or inserted later

VARIABLES
  card,        \* what is in the slot: none, no file system, one without the
               \* .provisioned file, one with it
  inserts,     \* insertions so far
  vfs,         \* the driver's mount at /sdcard: none, of the card in the slot,
               \* or of a card that has been taken out since
  fs_mounted,  \* s_storage.fs_mounted
  handle,      \* is s_storage.card, the driver's handle of the mount, set?
  state,       \* s_storage.state
  event_cb,    \* is s_storage.event_cb set?
  prev_cd,     \* prev_cd of the monitor
  pc,          \* where each task is
  to,          \* to[p]: the state p sets, and then tells the callback
  then         \* then[p]: where p goes on after that

Cards == {"none", "blank", "fresh", "provisioned"}

ASSUME StorageAssumption ==
  /\ MaxInserts \in Nat /\ Inserted \subseteq Cards \ {"none"}
  /\ Provisioners \cap {"boot", "monitor", "user"} = {}

svars == <<card, inserts, vfs, fs_mounted, handle, state, event_cb, prev_cd, pc, to, then>>

Procs   == {"boot", "monitor", "user"} \cup Provisioners

-----------------------------------------------------------------------------
\* gpio_get_level(SD_DETECT_GPIO) == 0
CardDetect == card # "none"

Goto(p, label) == pc' = [pc EXCEPT ![p] = label]

\* p goes to set the state s, tells the callback and then continues at label.
GoSet(p, first, s, label) ==
  /\ Goto(p, first)
  /\ to' = [to EXCEPT ![p] = s]
  /\ then' = [then EXCEPT ![p] = label]

\* p is through with it.
Continue(p) ==
  /\ Goto(p, then[p])
  /\ to' = [to EXCEPT ![p] = "EJECTED"]
  /\ then' = [then EXCEPT ![p] = "off"]

StorageInit ==
  /\ card \in Inserted \cup {"none"} /\ inserts = 0
  /\ vfs = "none" /\ fs_mounted = FALSE /\ handle = FALSE
  /\ state = "EJECTED" /\ event_cb = FALSE /\ prev_cd = FALSE
  /\ pc = [p \in Procs |-> CASE p = "boot" -> "init" [] p = "user" -> "idle" [] OTHER -> "off"]
  /\ to = [p \in Procs |-> "EJECTED"]
  /\ then = [p \in Procs |-> "off"]

-----------------------------------------------------------------------------
(* The card *)

InsertCard(c) ==
  /\ card = "none" /\ inserts < MaxInserts
  /\ card' = c /\ inserts' = inserts + 1
  /\ UNCHANGED <<vfs, fs_mounted, handle, state, event_cb, prev_cd, pc, to, then>>

RemoveCard ==
  /\ card # "none" /\ card' = "none"
  /\ vfs' = IF vfs = "live" THEN "stale" ELSE vfs
  /\ UNCHANGED <<inserts, fs_mounted, handle, state, event_cb, prev_cd, pc, to, then>>

-----------------------------------------------------------------------------
(* try_mount, unmount_safe and set_state, as steps of the tasks calling them *)

\* What became of the mount: boot assigns the state without set_state, and
\* keeps EJECTED where the monitor says ERROR.
Concludes(p, s) ==
  \/ /\ p = "boot"
     /\ state' = IF s = "ERROR" THEN state ELSE s
     /\ Goto(p, "spawn")
     /\ UNCHANGED <<to, then>>
  \/ /\ p = "monitor"
     /\ GoSet(p, "set", s, "health")
     /\ UNCHANGED state

\* ESP_OK of esp_vfs_fat_sdmmc_mount.  It refuses to mount over a mount.
MountDone(p) ==
  /\ pc[p] = "mount"
  /\ vfs = "none" /\ card \in {"fresh", "provisioned"}
  /\ vfs' = "live" /\ handle' = TRUE
  /\ Goto(p, "mounted")
  /\ UNCHANGED <<card, inserts, fs_mounted, state, event_cb, prev_cd, to, then>>

\* ESP_FAIL: a card without a file system, or one that could not be read.
MountUnreadable(p) ==
  /\ pc[p] = "mount" /\ vfs = "none" /\ card # "none"
  /\ Concludes(p, "UNFORMATTED")
  /\ UNCHANGED <<card, inserts, vfs, fs_mounted, handle, event_cb, prev_cd>>

MountError == "ERROR"

\* Any other error: no card, no answer of the card, or mounted already.
MountFailed(p) ==
  /\ pc[p] = "mount"
  /\ Concludes(p, MountError)
  /\ UNCHANGED <<card, inserts, vfs, fs_mounted, handle, event_cb, prev_cd>>

SetMounted(p) ==
  /\ pc[p] = "mounted"
  /\ fs_mounted' = TRUE
  /\ Goto(p, IF p = "user" THEN "create" ELSE "stat")
  /\ UNCHANGED <<card, inserts, vfs, handle, state, event_cb, prev_cd, to, then>>

\* stat(PROVISION_FLAG_FILE) may fail for lack of the file or of a contact.
StatFlag(p) ==
  /\ pc[p] = "stat"
  /\ \/ vfs # "none" /\ card = "provisioned" /\ Concludes(p, "READY")
     \/ Concludes(p, "UNFORMATTED")
  /\ UNCHANGED <<card, inserts, vfs, fs_mounted, handle, event_cb, prev_cd>>

\* Variant with a bug: the driver is asked to unmount and the flag stays.
Unflagged_Kept == fs_mounted

Unflagged == FALSE

\* The driver unmounts the card whose handle it is given.  (What it makes of
\* NULL is not specified: here it unmounts nothing.)
UnmountSafe(p) ==
  /\ pc[p] = "unmount"
  /\ vfs' = IF fs_mounted /\ handle THEN "none" ELSE vfs
  /\ Goto(p, IF fs_mounted THEN "unflag" ELSE "set")
  /\ UNCHANGED <<card, inserts, fs_mounted, handle, state, event_cb, prev_cd, to, then>>

ClearMounted(p) ==
  /\ pc[p] = "unflag"
  /\ fs_mounted' = Unflagged
  /\ Goto(p, "unhandle")
  /\ UNCHANGED <<card, inserts, vfs, handle, state, event_cb, prev_cd, to, then>>

ClearHandle(p) ==
  /\ pc[p] = "unhandle"
  /\ handle' = FALSE
  /\ Goto(p, "set")
  /\ UNCHANGED <<card, inserts, vfs, fs_mounted, state, event_cb, prev_cd, to, then>>

\* set_state: the assignment under state_mutex, ...
SetState(p) ==
  /\ pc[p] = "set"
  /\ state' = to[p]
  /\ \/ state # to[p] /\ Goto(p, "notify") /\ UNCHANGED <<to, then>>
     \/ state = to[p] /\ Continue(p)
  /\ UNCHANGED <<card, inserts, vfs, fs_mounted, handle, event_cb, prev_cd>>

\* ... the callback after it, if there is one ...
NotifyNobody(p) ==
  /\ pc[p] = "notify" /\ ~event_cb
  /\ Continue(p)
  /\ UNCHANGED <<card, inserts, vfs, fs_mounted, handle, state, event_cb, prev_cd>>

Notify(p) ==
  /\ pc[p] = "notify" /\ event_cb
  /\ Goto(p, "callback")
  /\ UNCHANGED <<card, inserts, vfs, fs_mounted, handle, state, event_cb, prev_cd, to, then>>

\* ... and back in the caller.
CallbackReturns(p) ==
  /\ pc[p] = "callback"
  /\ Continue(p)
  /\ UNCHANGED <<card, inserts, vfs, fs_mounted, handle, state, event_cb, prev_cd>>

-----------------------------------------------------------------------------
(* svc_storage_init, and the calls of lifecycle_init *)

BootLooks ==
  /\ pc["boot"] = "init"
  /\ Goto("boot", IF CardDetect THEN "mount" ELSE "spawn")
  /\ UNCHANGED <<card, inserts, vfs, fs_mounted, handle, state, event_cb, prev_cd, to, then>>

SpawnMonitor ==
  /\ pc["boot"] = "spawn"
  /\ pc' = [pc EXCEPT !["boot"] = "register", !["monitor"] = "init"]
  /\ UNCHANGED <<card, inserts, vfs, fs_mounted, handle, state, event_cb, prev_cd, to, then>>

svc_storage_on_event ==
  /\ pc["boot"] = "register"
  /\ event_cb' = TRUE
  /\ Goto("boot", "initial")
  /\ UNCHANGED <<card, inserts, vfs, fs_mounted, handle, state, prev_cd, to, then>>

\* Variant with a bug: lifecycle_init trusts that events will tell.
Initial_Skipped == "done"

Initial == "callback"

svc_storage_get_state ==
  /\ pc["boot"] = "initial"
  /\ GoSet("boot", Initial, state, "done")
  /\ UNCHANGED <<card, inserts, vfs, fs_mounted, handle, state, event_cb, prev_cd>>

-----------------------------------------------------------------------------
(* storage_monitor_task *)

MonitorStarts ==
  /\ pc["monitor"] = "init"
  /\ prev_cd' = CardDetect
  /\ Goto("monitor", "poll")
  /\ UNCHANGED <<card, inserts, vfs, fs_mounted, handle, state, event_cb, to, then>>

PollSteady ==
  /\ pc["monitor"] = "poll" /\ CardDetect = prev_cd
  /\ Goto("monitor", "health")
  /\ UNCHANGED <<card, inserts, vfs, fs_mounted, handle, state, event_cb, prev_cd, to, then>>

PollEjected ==
  /\ pc["monitor"] = "poll" /\ prev_cd /\ ~CardDetect
  /\ prev_cd' = FALSE
  /\ GoSet("monitor", "unmount", "EJECTED", "health")
  /\ UNCHANGED <<card, inserts, vfs, fs_mounted, handle, state, event_cb>>

PollInserted ==
  /\ pc["monitor"] = "poll" /\ ~prev_cd /\ CardDetect
  /\ prev_cd' = TRUE
  /\ Goto("monitor", "debounce")
  /\ UNCHANGED <<card, inserts, vfs, fs_mounted, handle, state, event_cb, to, then>>

Debounced ==
  /\ pc["monitor"] = "debounce"
  /\ Goto("monitor", IF CardDetect THEN "mount" ELSE "health")
  /\ UNCHANGED <<card, inserts, vfs, fs_mounted, handle, state, event_cb, prev_cd, to, then>>

\* Five seconds have not passed yet, or nothing is mounted.
HealthNotDue ==
  /\ pc["monitor"] = "health"
  /\ Goto("monitor", "poll")
  /\ UNCHANGED <<card, inserts, vfs, fs_mounted, handle, state, event_cb, prev_cd, to, then>>

HealthGood ==
  /\ pc["monitor"] = "health" /\ fs_mounted
  /\ vfs # "none" /\ card # "none"
  /\ Goto("monitor", "poll")
  /\ UNCHANGED <<card, inserts, vfs, fs_mounted, handle, state, event_cb, prev_cd, to, then>>

\* Variant with a bug: the failure is reported and the mount kept.
HealthExit_NoUnmount == "set"

HealthExit == "unmount"

HealthBad ==
  /\ pc["monitor"] = "health" /\ fs_mounted
  /\ GoSet("monitor", HealthExit, "ERROR", "poll")
  /\ UNCHANGED <<card, inserts, vfs, fs_mounted, handle, state, event_cb, prev_cd>>

HealthCheck == HealthGood \/ HealthBad

-----------------------------------------------------------------------------
(* svc_storage_start_provisioning *)

ProvisioningRefused ==
  /\ pc["user"] = "idle" /\ event_cb
  /\ state \notin {"UNFORMATTED", "EJECTED"}
  /\ UNCHANGED svars

svc_storage_start_provisioning ==
  /\ pc["user"] = "idle" /\ event_cb
  /\ state \in {"UNFORMATTED", "EJECTED"}
  /\ Goto("user", IF state = "UNFORMATTED" THEN "format" ELSE "create")
  /\ UNCHANGED <<card, inserts, vfs, fs_mounted, handle, state, event_cb, prev_cd, to, then>>

\* The driver formats only what has no file system (format_if_mount_failed).
Formatted == IF card = "blank" THEN "fresh" ELSE card

FormatCard ==
  /\ pc["user"] = "format"
  /\ vfs = "none" /\ card # "none"
  /\ card' = Formatted /\ vfs' = "live" /\ handle' = TRUE
  /\ Goto("user", "mounted")
  /\ UNCHANGED <<inserts, fs_mounted, state, event_cb, prev_cd, to, then>>

\* K_ERR_IO: no card, an I/O error, or the card is mounted already.
FormatFailed ==
  /\ pc["user"] = "format"
  /\ Goto("user", "idle")
  /\ UNCHANGED <<card, inserts, vfs, fs_mounted, handle, state, event_cb, prev_cd, to, then>>

\* The result of xTaskCreatePinnedToCore is not looked at.
CreateProvisioner ==
  /\ pc["user"] = "create"
  /\ \/ \E p \in Provisioners :
          /\ pc[p] = "off"
          /\ pc' = [pc EXCEPT ![p] = "set", !["user"] = "idle"]
          /\ to' = [to EXCEPT ![p] = "PROVISIONING"]
          /\ then' = [then EXCEPT ![p] = "download"]
     \/ Goto("user", "idle") /\ UNCHANGED <<to, then>>
  /\ UNCHANGED <<card, inserts, vfs, fs_mounted, handle, state, event_cb, prev_cd>>

\* Variant with a bug: a provisioner that cannot write the file gives up.
GivesUp_Silently == "off"

GivesUp == "set"

\* provision_from_server writes .provisioned if it can, and the task reports
\* success either way.
Provisioned(p) ==
  /\ pc[p] = "download"
  /\ \/ /\ vfs # "none" /\ card \in {"fresh", "provisioned"}
        /\ card' = "provisioned"
        /\ GoSet(p, "set", "READY", "off")
     \/ /\ GoSet(p, GivesUp, "READY", "off")
        /\ UNCHANGED card
  /\ UNCHANGED <<inserts, vfs, fs_mounted, handle, state, event_cb, prev_cd>>

-----------------------------------------------------------------------------
\* Every step of a task but those of the callback and of lifecycle_init.
StorageStep(p) ==
  \/ MountDone(p) \/ MountUnreadable(p) \/ MountFailed(p)
  \/ SetMounted(p) \/ StatFlag(p)
  \/ UnmountSafe(p) \/ ClearMounted(p) \/ ClearHandle(p)
  \/ p = "boot" /\ (BootLooks \/ SpawnMonitor)
  \/ /\ p = "monitor"
     /\ \/ MonitorStarts \/ PollSteady \/ PollEjected \/ PollInserted
        \/ Debounced \/ HealthNotDue \/ HealthCheck
  \/ p = "user" /\ (FormatCard \/ FormatFailed \/ CreateProvisioner)
  \/ p \in Provisioners /\ Provisioned(p)

UserCalls == ProvisioningRefused \/ svc_storage_start_provisioning

CardMoves == RemoveCard \/ \E c \in Inserted : InsertCard(c)

\* A task's steps, the callback doing nothing of interest.
TaskStep(p) ==
  \/ StorageStep(p) \/ SetState(p) \/ NotifyNobody(p) \/ Notify(p) \/ CallbackReturns(p)
  \/ p = "boot" /\ (svc_storage_on_event \/ svc_storage_get_state)

StorageNext ==
  \/ \E p \in Procs : TaskStep(p)
  \/ UserCalls \/ CardMoves

\* Every task runs on, and the five seconds to the next health check pass
\* again and again while something is mounted.  Nobody has to touch the card.
StorageFairness ==
  /\ \A p \in Procs : WF_svars(TaskStep(p))
  /\ SF_svars(HealthCheck)

StorageSpec == StorageInit /\ [][StorageNext]_svars /\ StorageFairness

-----------------------------------------------------------------------------
(* Properties *)

\* fs_mounted never claims a mount the driver does not have, in whatever order
\* the monitor unmounts and the user's format_card mounts; unmount_safe and the
\* health check act on that flag alone.
FlagIsMounted == fs_mounted => vfs # "none" \/ pc["monitor"] = "unflag"

\* A mount made after the monitor has unmounted and before it has cleared the
\* flag and the handle: it clears those of the new mount.
MountCrossed == pc["monitor"] \in {"unflag", "unhandle"} /\ vfs # "none"

\* A card that is out for good ends up unmounted, by the driver and by the
\* flag, even if the monitor missed the edge because it happened during boot,
\* or a format finished after it; unless a mount ever crossed an unmount.
GoneIsUnmounted ==
  <>[](card = "none") => <>[](vfs = "none" /\ ~fs_mounted) \/ <>MountCrossed

\* A provisioning that began ends, with or without the card.
ProvisioningEnds == state = "PROVISIONING" ~> state # "PROVISIONING"
=============================================================================
