------------------------------ MODULE AppStore ------------------------------
(***************************************************************************)
(* The launcher (src/app_launcher.c) and the settings app that updates the *)
(* apps over the network (src/apps/appstore/app_settings.c), on a card     *)
(* that keeps what is written when the power fails.  The steps of an       *)
(* update are those that touch the card.  The kernel's loop that loads the *)
(* requested app and falls back to the launcher is not in the source; it   *)
(* is taken from src/src/apps/CORE_APPS.md:181-208.                        *)
(*                                                                         *)
(* An image is the number of its build if it is complete and signed, Bad   *)
(* if it is not.                                                           *)
(***************************************************************************)
EXTENDS Integers, FiniteSets

CONSTANTS
  Apps, Launcher, Settings,
  MaxBuild,   \* builds the server has published
  Manifest,   \* the build each app's manifest on the card states, 0 without one
  MaxApps     \* MAX_APPS

ASSUME StoreAssumption ==
  /\ {Launcher, Settings} \subseteq Apps
  /\ MaxBuild \in Nat \ {0} /\ Manifest \in [Apps -> Int] /\ MaxApps \in Nat

None == -1
Bad == 0
Builds == 1 .. MaxBuild
Good(image) == image \in Builds

VARIABLES
  apps,    \* the image in /apps/<name>.espapp, None without one
  cache,   \* the image in /cache/<name>.espapp.tmp
  pc,      \* "off", "load", "app", or the step of run_ota_update
  front,   \* the app that is loaded, or to be loaded
  listed,  \* g_app_names of the launcher
  local,   \* g_local_apps of the settings app: builds by name, -1 without
  offer,   \* the builds of g_remote_apps that need an update and are still to
           \* come, by name, -1 for the others
  cur      \* the app being updated

card == <<apps, cache>>
update == <<local, offer, cur>>
vars == <<card, pc, front, listed, update>>

NoApps == [a \in Apps |-> -1]

Volatile ==
  /\ listed = {} /\ local = NoApps /\ offer = NoApps /\ cur = Launcher

Init ==
  /\ apps = [a \in Apps |-> 1] /\ cache = [a \in Apps |-> None]
  /\ pc = "off" /\ front = Launcher
  /\ Volatile

-----------------------------------------------------------------------------
(* Kernel *)

PowerOn ==
  /\ pc = "off"
  /\ pc' = "load" /\ front' = Launcher
  /\ UNCHANGED <<card, listed, update>>

\* What a scan of /apps takes in: the first MaxApps manifests that it can open,
\* nothing if it cannot open the directory.
WithManifest == {a \in Apps : Manifest[a] # 0}
Scans == {L \in SUBSET WithManifest : Cardinality(L) <= MaxApps}

\* scan_and_render: a button for each manifest, whether or not there is an app.
scan_and_render == listed' \in Scans

\* scan_local_apps: the builds the manifests state.
scan_local_apps ==
  \E L \in Scans : local' = [a \in Apps |-> IF a \in L THEN Manifest[a] ELSE -1]

Loads(a) == pc = "load" /\ front = a /\ Good(apps[a]) /\ pc' = "app"

LoadLauncher ==
  /\ Loads(Launcher) /\ scan_and_render
  /\ UNCHANGED <<card, front, update>>

LoadSettings ==
  /\ Loads(Settings) /\ scan_local_apps
  /\ UNCHANGED <<card, front, listed, offer, cur>>

LoadOther ==
  /\ \E a \in Apps \ {Launcher, Settings} : Loads(a)
  /\ UNCHANGED <<card, front, listed, update>>

\* The file is missing or its signature is refused.
LoadFails ==
  /\ pc = "load" /\ ~Good(apps[front])
  /\ front' = Launcher
  /\ UNCHANGED <<card, pc, listed, update>>

\* on_app_clicked.
ClickApp(a) ==
  /\ pc = "app" /\ front = Launcher /\ a \in listed
  /\ pc' = "load" /\ front' = a /\ listed' = {}
  /\ UNCHANGED <<card, update>>

\* on_go_home, or any other app that exits.
GoHome ==
  /\ pc = "app" /\ front # Launcher
  /\ pc' = "load" /\ front' = Launcher
  /\ local' = NoApps /\ offer' = NoApps /\ cur' = Launcher
  /\ UNCHANGED <<card, listed>>

-----------------------------------------------------------------------------
(* run_ota_update *)

Fetch ==
  /\ pc = "app" /\ front = Settings
  /\ pc' = "fetch"
  /\ UNCHANGED <<card, front, listed, update>>

\* No answer within the timeout.
NetworkError ==
  /\ pc = "fetch" /\ pc' = "app"
  /\ UNCHANGED <<card, front, listed, update>>

\* The manifest is parsed and compared with what is on the card.
Compare ==
  /\ pc = "fetch" /\ pc' = "next"
  /\ \E o \in [Apps -> {-1} \cup Builds] :
       offer' = [a \in Apps |-> IF o[a] > local[a] THEN o[a] ELSE -1]
  /\ UNCHANGED <<card, front, listed, local, cur>>

UpdateDone ==
  /\ pc = "next" /\ offer = NoApps /\ pc' = "app"
  /\ UNCHANGED <<card, front, listed, update>>

\* The file in the cache is created, or emptied if it is there already.
OpenTmp ==
  /\ pc = "next"
  /\ \E a \in Apps :
       /\ offer[a] # -1 /\ cur' = a
       /\ cache' = [cache EXCEPT ![a] = Bad]
  /\ pc' = "stream"
  /\ UNCHANGED <<apps, front, listed, local, offer>>

\* Variant with a bug: an app that cannot be downloaded is tried again at once.
Rest_Retries == offer

Rest == [offer EXCEPT ![cur] = -1]

\* The file cannot be opened: next app.
OpenFails ==
  /\ pc = "next"
  /\ \E a \in Apps : offer[a] # -1 /\ offer' = [offer EXCEPT ![a] = -1]
  /\ UNCHANGED <<card, pc, front, listed, local, cur>>

\* The stream ends: complete, with a file the signature does not match, ...
Streamed ==
  /\ pc = "stream"
  /\ \E image \in {offer[cur], Bad} : cache' = [cache EXCEPT ![cur] = image]
  /\ pc' = "verify"
  /\ UNCHANGED <<apps, front, listed, update>>

\* ... or with an error of the network or of the card; the file is removed.
StreamFails ==
  /\ pc = "stream" /\ pc' = "next"
  /\ cache' = [cache EXCEPT ![cur] = None] /\ offer' = Rest
  /\ UNCHANGED <<apps, front, listed, local, cur>>

\* Variant with a bug: what was downloaded completely is not verified.
Verified_Always(image) == TRUE

\* sys.verify_app_file accepts the file.
Verified(image) == Good(image)

VerifyOk ==
  /\ pc = "verify" /\ Verified(cache[cur]) /\ pc' = "remove"
  /\ UNCHANGED <<card, front, listed, update>>

\* It accepts no bad file, and refuses a good one that it cannot read.
VerifyFails ==
  /\ pc = "verify" /\ pc' = "next"
  /\ cache' = [cache EXCEPT ![cur] = None] /\ offer' = Rest
  /\ UNCHANGED <<apps, front, listed, local, cur>>

\* The results of remove and rename are not looked at.  rename does not replace
\* a file that is still there.
RemoveOld ==
  /\ pc = "remove" /\ pc' = "rename"
  /\ apps' = [apps EXCEPT ![cur] = None] \/ UNCHANGED apps
  /\ UNCHANGED <<cache, front, listed, update>>

Rename ==
  /\ pc = "rename" /\ apps[cur] = None /\ pc' = "next"
  /\ apps' = [apps EXCEPT ![cur] = cache[cur]]
  /\ cache' = [cache EXCEPT ![cur] = None] /\ offer' = Rest
  /\ UNCHANGED <<front, listed, local, cur>>

\* Variant with a bug: the file in the cache is removed whatever rename did.
TmpLeft_Removed == [cache EXCEPT ![cur] = None]

TmpLeft == cache

RenameFails ==
  /\ pc = "rename" /\ pc' = "next" /\ offer' = Rest
  /\ cache' = TmpLeft
  /\ UNCHANGED <<apps, front, listed, local, cur>>

\* The power fails: only the card remains.  (A file being written is Bad.)
PowerLoss ==
  /\ pc # "off" /\ pc' = "off" /\ front' = Launcher
  /\ listed' = {} /\ local' = NoApps /\ offer' = NoApps /\ cur' = Launcher
  /\ UNCHANGED card

UpdateStep ==
  \/ NetworkError \/ Compare \/ UpdateDone \/ OpenTmp \/ OpenFails
  \/ Streamed \/ StreamFails \/ VerifyOk \/ VerifyFails
  \/ RemoveOld \/ Rename \/ RenameFails

Next ==
  \/ PowerOn \/ PowerLoss \/ LoadLauncher \/ LoadSettings \/ LoadOther \/ LoadFails
  \/ GoHome \/ Fetch \/ UpdateStep
  \/ \E a \in Apps : ClickApp(a)

\* The network calls have timeouts, so an update goes on.
Spec == Init /\ [][Next]_vars /\ WF_vars(UpdateStep)

-----------------------------------------------------------------------------
(* Properties *)

\* What is in /apps is complete and verified, whenever the power failed and
\* whatever the server sent: no step installs a part of a file, also not one
\* that an earlier, interrupted update left in the cache.
OnlyVerifiedInstalled == \A a \in Apps : apps[a] # None => Good(apps[a])

\* An app is taken out of /apps only when the file that replaces it lies
\* verified in /cache, and this file outlives a rename that fails and a loss of
\* power.  What takes it is a later update, which empties it before it has
\* anything better, or cannot read it again when it verifies what it wrote.
\* Until an update succeeds the app cannot be started, as nothing looks into
\* /cache: if it is the launcher, not even that update can be.
Copy(a) == Good(apps[a]) \/ Good(cache[a])
CopyUntilReplaced ==
  [][\A a \in Apps :
       /\ Good(apps[a]) /\ ~Good(apps'[a]) => Good(cache'[a])
       /\ Copy(a) /\ ~Copy(a)' => apps[a] = None /\ pc \in {"next", "verify"}]_vars

\* An update comes to its end, and the button can be used again, or the power fails.
Updating == pc \notin {"off", "load", "app"}
UpdateEnds == Updating ~> ~Updating
=============================================================================
