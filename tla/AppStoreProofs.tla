--------------------------- MODULE AppStoreProofs ---------------------------
(***************************************************************************)
(* What is installed is verified, and an app is given up only for a        *)
(* verified file that stays on the card until a later update, for any      *)
(* number of apps and builds, whatever the manifests say.                  *)
(***************************************************************************)
EXTENDS AppStore, TLAPS

Images == {None, Bad} \cup Builds

Steps == {"off", "load", "app", "fetch", "next", "stream", "verify", "remove", "rename"}

TypeOK ==
  /\ apps \in [Apps -> Images] /\ cache \in [Apps -> Images]
  /\ pc \in Steps
  /\ front \in Apps /\ cur \in Apps /\ listed \subseteq Apps
  /\ offer \in [Apps -> {-1} \cup Builds]

\* What the steps of an update rely on.  The file in the cache is worth
\* nothing while it is written, so that giving it up loses nothing, and is the
\* verified one from the verification on, so that the old app can go.
CacheInv ==
  /\ pc = "stream" => cache[cur] = Bad
  /\ pc \in {"remove", "rename"} => Good(cache[cur])

IInv == TypeOK /\ OnlyVerifiedInstalled /\ CacheInv

-----------------------------------------------------------------------------
LEMMA BuildsAreImages ==
  ASSUME NEW b \in Builds
  PROVE  b \in Nat \ {0} /\ b # None /\ b # Bad /\ Good(b)
  BY StoreAssumption DEF Builds, None, Bad, Good

LEMMA StoreInit == Init => IInv
<1> SUFFICES ASSUME Init PROVE IInv
  OBVIOUS
<1>1. 1 \in Builds /\ None \in Images
  BY StoreAssumption DEF Builds, Images
<1>2. TypeOK
  BY <1>1, StoreAssumption DEF Init, Volatile, NoApps, TypeOK, Images, Steps
<1>3. OnlyVerifiedInstalled /\ CacheInv
  BY <1>1 DEF Init, OnlyVerifiedInstalled, CacheInv, Good
<1> QED BY <1>2, <1>3 DEF IInv

\* Steps that do not touch the card.
LEMMA CardKept ==
  ASSUME IInv, UNCHANGED card, TypeOK',
         pc' \notin {"stream", "remove", "rename"}
  PROVE  IInv'
  BY DEF IInv, card, OnlyVerifiedInstalled, CacheInv, Good

LEMMA KernelStep ==
  ASSUME IInv,
         \/ PowerOn \/ PowerLoss \/ LoadLauncher \/ LoadSettings \/ LoadOther \/ LoadFails
         \/ GoHome \/ \E a \in Apps : ClickApp(a)
  PROVE  IInv' /\ UNCHANGED card
<1> USE StoreAssumption DEF IInv, TypeOK, Steps
<1>1. CASE PowerOn
  <2>1. TypeOK' /\ UNCHANGED card /\ pc' = "load"
    BY <1>1 DEF PowerOn, card, update
  <2> QED BY <2>1, CardKept
<1>2. CASE PowerLoss
  <2>1. TypeOK' /\ UNCHANGED card /\ pc' = "off"
    BY <1>2 DEF PowerLoss, card, NoApps
  <2> QED BY <2>1, CardKept
<1>3. CASE LoadLauncher
  <2>1. TypeOK' /\ UNCHANGED card /\ pc' = "app"
    BY <1>3 DEF LoadLauncher, Loads, scan_and_render, Scans, WithManifest, card, update
  <2> QED BY <2>1, CardKept
<1>4. CASE LoadSettings
  <2>1. TypeOK' /\ UNCHANGED card /\ pc' = "app"
    BY <1>4 DEF LoadSettings, Loads, card
  <2> QED BY <2>1, CardKept
<1>5. CASE LoadOther
  <2>1. TypeOK' /\ UNCHANGED card /\ pc' = "app"
    BY <1>5 DEF LoadOther, Loads, card, update
  <2> QED BY <2>1, CardKept
<1>6. CASE LoadFails
  <2>1. TypeOK' /\ UNCHANGED card /\ pc' = "load"
    BY <1>6 DEF LoadFails, card, update
  <2> QED BY <2>1, CardKept
<1>7. CASE GoHome
  <2>1. TypeOK' /\ UNCHANGED card /\ pc' = "load"
    BY <1>7 DEF GoHome, card, NoApps
  <2> QED BY <2>1, CardKept
<1>8. CASE \E a \in Apps : ClickApp(a)
  <2>1. TypeOK' /\ UNCHANGED card /\ pc' = "load"
    BY <1>8 DEF ClickApp, card, update
  <2> QED BY <2>1, CardKept
<1> QED BY <1>1, <1>2, <1>3, <1>4, <1>5, <1>6, <1>7, <1>8

\* The steps of an update that do not touch the card, but for the verification.
LEMMA QuietUpdate ==
  ASSUME IInv, Fetch \/ NetworkError \/ Compare \/ UpdateDone \/ OpenFails
  PROVE  IInv' /\ UNCHANGED card
<1> USE StoreAssumption DEF IInv, TypeOK, Steps
<1>1. CASE Fetch
  <2>1. TypeOK' /\ UNCHANGED card /\ pc' = "fetch"
    BY <1>1 DEF Fetch, card, update
  <2> QED BY <2>1, CardKept
<1>2. CASE NetworkError
  <2>1. TypeOK' /\ UNCHANGED card /\ pc' = "app"
    BY <1>2 DEF NetworkError, card, update
  <2> QED BY <2>1, CardKept
<1>3. CASE Compare
  <2>1. PICK o \in [Apps -> {-1} \cup Builds] :
          offer' = [a \in Apps |-> IF o[a] > local[a] THEN o[a] ELSE -1]
    BY <1>3 DEF Compare
  <2>2. \A a \in Apps : (IF o[a] > local[a] THEN o[a] ELSE -1) \in {-1} \cup Builds
    OBVIOUS
  <2>3. TypeOK' /\ UNCHANGED card /\ pc' = "next"
    BY <1>3, <2>1, <2>2 DEF Compare, card
  <2> QED BY <2>3, CardKept
<1>4. CASE UpdateDone
  <2>1. TypeOK' /\ UNCHANGED card /\ pc' = "app"
    BY <1>4 DEF UpdateDone, card, update
  <2> QED BY <2>1, CardKept
<1>5. CASE OpenFails
  <2>1. TypeOK' /\ UNCHANGED card /\ pc' = "next"
    BY <1>5 DEF OpenFails, card
  <2> QED BY <2>1, CardKept
<1> QED BY <1>1, <1>2, <1>3, <1>4, <1>5

\* The steps that write the card, and the verification.
LEMMA UpdateKeeps ==
  ASSUME IInv,
         \/ OpenTmp \/ Streamed \/ StreamFails \/ VerifyOk \/ VerifyFails
         \/ RemoveOld \/ Rename \/ RenameFails
  PROVE  IInv'
<1> USE StoreAssumption DEF IInv, TypeOK, OnlyVerifiedInstalled, CacheInv, Steps, Images
<1>1. CASE OpenTmp
  BY <1>1 DEF OpenTmp
<1>2. CASE Streamed
  BY <1>2 DEF Streamed, update, None
<1>3. CASE StreamFails
  BY <1>3 DEF StreamFails, Rest
<1>4. CASE VerifyOk
  BY <1>4 DEF VerifyOk, Verified, card, update
<1>5. CASE VerifyFails
  BY <1>5 DEF VerifyFails, Rest
<1>6. CASE RemoveOld
  BY <1>6 DEF RemoveOld, update
<1>7. CASE Rename
  BY <1>7 DEF Rename, Rest
<1>8. CASE RenameFails
  BY <1>8 DEF RenameFails, Rest, TmpLeft
<1> QED BY <1>1, <1>2, <1>3, <1>4, <1>5, <1>6, <1>7, <1>8

LEMMA StoreNext == IInv /\ [Next]_vars => IInv'
<1> SUFFICES ASSUME IInv, [Next]_vars PROVE IInv'
  OBVIOUS
<1>1. CASE UNCHANGED vars
  BY <1>1 DEF IInv, TypeOK, OnlyVerifiedInstalled, CacheInv, Good, vars, card, update
<1>2. CASE Next
  BY <1>2, KernelStep, QuietUpdate, UpdateKeeps DEF Next, UpdateStep
<1> QED BY <1>1, <1>2

-----------------------------------------------------------------------------
\* Every state satisfies IInv: the steps of an update find the file in the
\* cache as the step before has left it, over any number of power failures.
THEOREM StoreInvariant == Spec => []IInv
<1>1. Init => IInv
  BY StoreInit
<1>2. IInv /\ [Next]_vars => IInv'
  BY StoreNext
<1> QED BY <1>1, <1>2, PTL DEF Spec

\* What is in /apps is complete and verified.
THEOREM StoreVerified == Spec => []OnlyVerifiedInstalled
<1>1. IInv => OnlyVerifiedInstalled
  BY DEF IInv
<1> QED BY <1>1, StoreInvariant, PTL

\* An app's last good copy is lost only while it is not installed, where an
\* update empties or removes the file in the cache.
LEMMA CopyKept ==
  ASSUME IInv, [Next]_vars, NEW a \in Apps, Copy(a), ~Copy(a)'
  PROVE  apps[a] = None /\ pc \in {"next", "verify"}
<1> USE DEF Copy, IInv, TypeOK, OnlyVerifiedInstalled, CacheInv
<1>1. ~UNCHANGED card
  BY DEF card, Good
<1>2. \/ OpenTmp \/ Streamed \/ StreamFails \/ VerifyFails
      \/ RemoveOld \/ Rename \/ RenameFails
  BY <1>1, KernelStep, QuietUpdate DEF Next, UpdateStep, vars, VerifyOk
<1>3. CASE OpenTmp
  BY <1>3 DEF OpenTmp, Good
<1>4. ~Streamed
  BY DEF Streamed, Good, Builds, Bad
<1>5. ~StreamFails
  BY DEF StreamFails, Good, Builds, Bad
<1>6. CASE VerifyFails
  BY <1>6 DEF VerifyFails, Good
<1>7. ~RemoveOld
  BY DEF RemoveOld, Good
<1>8. ~Rename
  BY DEF Rename, Good
<1>9. ~RenameFails
  BY DEF RenameFails, TmpLeft, Good
<1> QED BY <1>2, <1>3, <1>4, <1>5, <1>6, <1>7, <1>8, <1>9

\* An installed app goes only when its replacement is in the cache.
LEMMA GoneForVerified ==
  ASSUME IInv, [Next]_vars, NEW a \in Apps, Good(apps[a]), ~Good(apps'[a])
  PROVE  Good(cache'[a])
<1> USE DEF IInv, TypeOK, OnlyVerifiedInstalled, CacheInv
<1>1. apps' # apps
  BY DEF Good
<1>2. RemoveOld \/ Rename
  BY <1>1, KernelStep, QuietUpdate DEF Next, UpdateStep, vars, card, update, OpenTmp,
     Streamed, StreamFails, VerifyOk, VerifyFails, RenameFails
<1>3. CASE RemoveOld
  BY <1>3 DEF RemoveOld, Good
<1>4. ~Rename
  BY DEF Rename, Good
<1> QED BY <1>2, <1>3, <1>4

\* An app is given up only for a verified file, which is given up by a later
\* update only.
THEOREM StoreCopyUntilReplaced == Spec => CopyUntilReplaced
<1>1. IInv /\ [Next]_vars =>
        [\A a \in Apps :
           /\ Good(apps[a]) /\ ~Good(apps'[a]) => Good(cache'[a])
           /\ Copy(a) /\ ~Copy(a)' => apps[a] = None /\ pc \in {"next", "verify"}]_vars
  BY CopyKept, GoneForVerified
<1> QED BY <1>1, StoreInvariant, PTL DEF Spec, CopyUntilReplaced
=============================================================================
