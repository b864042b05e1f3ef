----------------------------- MODULE PowerProofs -----------------------------
(***************************************************************************)
(* The power manager's locks for any number of apps, any length of the     *)
(* array and any set of kinds: no lock stays without a holder, and a pass  *)
(* of the monitor that nobody runs into respects those that are held.      *)
(***************************************************************************)
EXTENDS Power, FiniteSetTheorems, WellFoundedInduction, TLAPS

States == {"ACTIVE", "DIMMED", "DISPLAY_OFF", "LIGHT_SLEEP", "DEEP_SLEEP"}

\* Where an app, and where any task may be.
AppLabels == {"out", "count", "fill", "stamp", "refill"}
Labels == AppLabels \cup {"awake?", "set", "now", "subtract", "scan", "apply", "assign"}

TypeOK ==
  /\ active_locks \in [Slots -> Kinds \cup {"NONE"}]
  /\ lock_count \in 0 .. MaxLocks
  /\ holds \in [Apps -> Kinds \cup {"NONE"}]
  /\ slot \in [Apps -> Nat]
  /\ pc \in [Procs -> Labels]
  /\ \A a \in Apps : pc[a] \in AppLabels
  /\ idle \in 0 .. DEEP /\ age \in 0 .. DEEP
  /\ highest \in Kinds \cup {"NONE"} /\ i \in Nat \ {0}
  /\ target \in States /\ current_state \in States
  /\ dropped \in BOOLEAN /\ overtaken \in BOOLEAN

\* The app that is inside acquire or release has the mutex.
MutexInv == \A a \in Apps : pc[a] # "out" <=> mutex = {a}

\* The slots of S with a lock of this kind, and the apps of A that hold one.
With(locked, S, kind)   == {k \in S : locked[k] = kind}
Holders(held, A, kind)  == {a \in A : held[a] = kind}

\* The slots of S have as many locks of each kind as the apps of A hold, and
\* fewer only if an acquire was ignored.
Matches(locked, S, held, A, lost) ==
  \A kind \in Kinds :
    /\ Cardinality(With(locked, S, kind)) <= Cardinality(Holders(held, A, kind))
    /\ ~lost => Cardinality(With(locked, S, kind)) = Cardinality(Holders(held, A, kind))

Match(S, A) == Matches(active_locks, S, holds, A, dropped)

\* The counted slots match the apps, and so they do, without the slot and the
\* app an acquire or release is about, while it is under way.
CountInv ==
  /\ mutex = {} => Match(1 .. lock_count, Apps)
  /\ \A a \in Apps :
       /\ pc[a] = "count" =>
            /\ lock_count < MaxLocks /\ active_locks[lock_count + 1] = holds[a]
            /\ Match(1 .. lock_count, Apps \ {a})
       /\ pc[a] = "fill"  => lock_count > 0 /\ Match(1 .. lock_count - 1, Apps \ {a})
       /\ pc[a] = "stamp" => dropped /\ Match(1 .. lock_count, Apps \ {a})
       /\ pc[a] = "refill" /\ slot[a] = 0 => Match(1 .. lock_count, Apps \ {a})
       /\ pc[a] = "refill" /\ slot[a] # 0 =>
            /\ lock_count < MaxLocks /\ slot[a] \in 1 .. lock_count + 1
            /\ Match((1 .. lock_count + 1) \ {slot[a]}, Apps \ {a})
       /\ pc[a] # "refill" => slot[a] = 0

\* A pass that nobody has run into yet: nobody is changing the locks, and
\* highest is the highest of the locks read so far, and still in the array.
PassInv ==
  /\ pc["monitor"] # "now" /\ ~overtaken => mutex = {}
  /\ pc["monitor"] # "scan" => i = 1 /\ highest = "NONE"
  /\ pc["monitor"] = "scan" /\ ~overtaken =>
       /\ i <= lock_count + 1
       /\ \A k \in 1 .. i - 1 : Rank[active_locks[k]] <= Rank[highest]
       /\ highest = "NONE" \/ \E k \in 1 .. lock_count : active_locks[k] = highest

IInv == TypeOK /\ MutexInv /\ CountInv /\ PassInv /\ TargetRespectsLocks

-----------------------------------------------------------------------------
(* Counting locks and their holders *)

LEMMA KindsNamed ==
  /\ "NONE" \notin Kinds
  /\ Kinds \cup {"NONE"} \subseteq Locks
  /\ \A lock \in Locks : Rank[lock] \in 0 .. 3
  BY PowerAssumption DEF Locks, Rank

\* A set of slots has a first one.
LEMMA LeastOfThem ==
  ASSUME NEW S \in SUBSET Nat, S # {}
  PROVE  \E m \in S : \A k \in S : m <= k
<1>1. \E m \in S : \A k \in S : ~(<<k, m>> \in OpToRel(<, Nat))
  BY WFMin, NatLessThanWellFounded
<1>2. PICK m \in S : \A k \in S : ~(<<k, m>> \in OpToRel(<, Nat))
  BY <1>1
<1>3. ASSUME NEW k \in S PROVE m <= k
  <2>1. k \in Nat /\ m \in Nat /\ <<k, m>> \in Nat \X Nat
    OBVIOUS
  <2>2. ~(k < m)
    BY <1>2, <2>1, <1>3, Zenon DEF OpToRel
  <2> QED BY <2>1, <2>2
<1> QED BY <1>3

LEMMA Finite ==
  ASSUME NEW locked, NEW held, NEW kind,
         NEW S, IsFiniteSet(S), NEW A \in SUBSET Apps
  PROVE  /\ IsFiniteSet(With(locked, S, kind)) /\ Cardinality(With(locked, S, kind)) \in Nat
         /\ IsFiniteSet(Holders(held, A, kind)) /\ Cardinality(Holders(held, A, kind)) \in Nat
<1>1. With(locked, S, kind) \in SUBSET S /\ Holders(held, A, kind) \in SUBSET Apps
  BY DEF With, Holders
<1>2. IsFiniteSet(With(locked, S, kind)) /\ IsFiniteSet(Holders(held, A, kind))
  BY <1>1, FS_Subset, PowerAssumption
<1> QED BY <1>2, FS_CardinalityType

\* A lock and its holder are added.
LEMMA MatchesMore ==
  ASSUME NEW locked, NEW held, NEW lost, NEW S, IsFiniteSet(S), NEW A \in SUBSET Apps,
         NEW k, k \notin S, NEW a \in Apps \ A, locked[k] = held[a],
         Matches(locked, S, held, A, lost)
  PROVE  Matches(locked, S \cup {k}, held, A \cup {a}, lost)
<1> SUFFICES ASSUME NEW kind \in Kinds
             PROVE  LET W == Cardinality(With(locked, S \cup {k}, kind))
                        H == Cardinality(Holders(held, A \cup {a}, kind))
                    IN  W <= H /\ (~lost => W = H)
  BY DEF Matches
<1> DEFINE W == With(locked, S, kind)
           H == Holders(held, A, kind)
<1>1. /\ IsFiniteSet(W) /\ Cardinality(W) \in Nat
      /\ IsFiniteSet(H) /\ Cardinality(H) \in Nat
  BY Finite
<1>2. Cardinality(W) <= Cardinality(H) /\ (~lost => Cardinality(W) = Cardinality(H))
  BY DEF Matches
<1>3. CASE locked[k] = kind
  <2>1. /\ With(locked, S \cup {k}, kind) = W \cup {k} /\ k \notin W
        /\ Holders(held, A \cup {a}, kind) = H \cup {a} /\ a \notin H
    BY <1>3 DEF With, Holders
  <2>2. /\ Cardinality(With(locked, S \cup {k}, kind)) = Cardinality(W) + 1
        /\ Cardinality(Holders(held, A \cup {a}, kind)) = Cardinality(H) + 1
    BY <1>1, <2>1, FS_AddElement
  <2> HIDE DEF W, H
  <2> QED BY <1>1, <1>2, <2>2
<1>4. CASE locked[k] # kind
  <2>1. With(locked, S \cup {k}, kind) = W /\ Holders(held, A \cup {a}, kind) = H
    BY <1>4 DEF With, Holders
  <2> QED BY <1>2, <2>1
<1> QED BY <1>3, <1>4

\* A lock and its holder are taken away.
LEMMA MatchesLess ==
  ASSUME NEW locked, NEW held, NEW lost, NEW S, IsFiniteSet(S), NEW A \in SUBSET Apps,
         NEW k \in S, NEW a \in A, locked[k] = held[a],
         Matches(locked, S, held, A, lost)
  PROVE  Matches(locked, S \ {k}, held, A \ {a}, lost)
<1> SUFFICES ASSUME NEW kind \in Kinds
             PROVE  LET W == Cardinality(With(locked, S \ {k}, kind))
                        H == Cardinality(Holders(held, A \ {a}, kind))
                    IN  W <= H /\ (~lost => W = H)
  BY DEF Matches
<1> DEFINE W == With(locked, S, kind)
           H == Holders(held, A, kind)
<1>1. /\ IsFiniteSet(W) /\ Cardinality(W) \in Nat
      /\ IsFiniteSet(H) /\ Cardinality(H) \in Nat
  BY Finite
<1>2. Cardinality(W) <= Cardinality(H) /\ (~lost => Cardinality(W) = Cardinality(H))
  BY DEF Matches
<1>3. CASE locked[k] = kind
  <2>1. /\ With(locked, S \ {k}, kind) = W \ {k} /\ k \in W
        /\ Holders(held, A \ {a}, kind) = H \ {a} /\ a \in H
    BY <1>3 DEF With, Holders
  <2>2. /\ Cardinality(W \ {k}) = Cardinality(W) - 1
        /\ Cardinality(H \ {a}) = Cardinality(H) - 1
    <3> HIDE DEF W, H
    <3>1. Cardinality(W \ {k}) = Cardinality(W) - 1
      BY <1>1, <2>1, FS_RemoveElement
    <3>2. Cardinality(H \ {a}) = Cardinality(H) - 1
      BY <1>1, <2>1, FS_RemoveElement
    <3> QED BY <3>1, <3>2
  <2> HIDE DEF W, H
  <2>3. /\ Cardinality(With(locked, S \ {k}, kind)) = Cardinality(W) - 1
        /\ Cardinality(Holders(held, A \ {a}, kind)) = Cardinality(H) - 1
    BY <2>1, <2>2
  <2> QED BY <1>1, <1>2, <2>3
<1>4. CASE locked[k] # kind
  <2>1. With(locked, S \ {k}, kind) = W /\ Holders(held, A \ {a}, kind) = H
    BY <1>4 DEF With, Holders
  <2> QED BY <1>2, <2>1
<1> QED BY <1>3, <1>4

\* The app whose lock was dropped comes or goes: the array has fewer locks.
LEMMA MatchesHolder ==
  ASSUME NEW locked, NEW held, NEW S, IsFiniteSet(S), NEW A \in SUBSET Apps,
         NEW a \in Apps, Matches(locked, S, held, A, TRUE)
  PROVE  Matches(locked, S, held, A \cup {a}, TRUE)
<1> SUFFICES ASSUME NEW kind \in Kinds
             PROVE  Cardinality(With(locked, S, kind)) <= Cardinality(Holders(held, A \cup {a}, kind))
  BY DEF Matches
<1>1. Cardinality(With(locked, S, kind)) <= Cardinality(Holders(held, A, kind))
  BY DEF Matches
<1>2. /\ Cardinality(With(locked, S, kind)) \in Nat /\ Cardinality(Holders(held, A, kind)) \in Nat
      /\ IsFiniteSet(Holders(held, A \cup {a}, kind)) /\ Cardinality(Holders(held, A \cup {a}, kind)) \in Nat
  BY Finite
<1>3. Holders(held, A, kind) \in SUBSET Holders(held, A \cup {a}, kind)
  BY DEF Holders
<1>4. Cardinality(Holders(held, A, kind)) <= Cardinality(Holders(held, A \cup {a}, kind))
  BY <1>2, <1>3, FS_Subset
<1> QED BY <1>1, <1>2, <1>4

\* No slot has the lock that a releases: then an acquire was dropped.
LEMMA MatchesNotFound ==
  ASSUME NEW locked, NEW held, NEW lost \in BOOLEAN, NEW S, IsFiniteSet(S), NEW A \in SUBSET Apps,
         NEW a \in A, held[a] \in Kinds, \A k \in S : locked[k] # held[a],
         Matches(locked, S, held, A, lost)
  PROVE  lost /\ Matches(locked, S, held, A \ {a}, lost)
<1>1. With(locked, S, held[a]) = {} /\ Cardinality(With(locked, S, held[a])) = 0
  BY FS_EmptySet DEF With
<1>2. lost
  <2>1. SUFFICES ASSUME ~lost PROVE FALSE
    OBVIOUS
  <2>2. Cardinality(Holders(held, A, held[a])) = 0
    BY <1>1, <2>1 DEF Matches
  <2>3. Holders(held, A, held[a]) = {}
    BY <2>2, Finite, FS_EmptySet
  <2> QED BY <2>3 DEF Holders
<1>3. SUFFICES ASSUME NEW kind \in Kinds
             PROVE  Cardinality(With(locked, S, kind)) <= Cardinality(Holders(held, A \ {a}, kind))
  BY <1>2 DEF Matches
<1>4. CASE kind = held[a]
  <2>1. A \ {a} \in SUBSET Apps
    OBVIOUS
  <2>2. Cardinality(Holders(held, A \ {a}, kind)) \in Nat
    BY <2>1, Finite
  <2> QED BY <1>1, <1>4, <2>2
<1>5. CASE kind # held[a]
  <2>1. Holders(held, A \ {a}, kind) = Holders(held, A, kind)
    BY <1>5 DEF Holders
  <2> QED BY <2>1 DEF Matches
<1> QED BY <1>4, <1>5

\* The last lock moves into the gap that a release has left.
LEMMA MatchesRefilled ==
  ASSUME NEW n \in Nat, NEW locked \in [Slots -> Kinds \cup {"NONE"}], n < MaxLocks, NEW k \in 1 .. n + 1,
         NEW held, NEW lost, NEW A,
         Matches(locked, (1 .. n + 1) \ {k}, held, A, lost)
  PROVE  Matches([locked EXCEPT ![k] = locked[n + 1]], 1 .. n, held, A, lost)
<1> DEFINE S == (1 .. n + 1) \ {k}
           moved == [locked EXCEPT ![k] = locked[n + 1]]
<1>1. /\ k \in Slots /\ n + 1 \in Slots /\ IsFiniteSet(S) /\ 1 .. n \subseteq Slots /\ MaxLocks \in Nat
      /\ \A j \in Slots : moved[j] = IF j = k THEN locked[n + 1] ELSE locked[j]
  <2>1. k \in Slots /\ n + 1 \in Slots /\ 1 .. n \subseteq Slots /\ MaxLocks \in Nat
    BY PowerAssumption DEF Slots
  <2>2. IsFiniteSet(1 .. n + 1)
    BY FS_Interval
  <2> QED BY <2>1, <2>2, FS_RemoveElement
<1>2. ASSUME NEW kind \in Kinds
      PROVE  Cardinality(With(moved, 1 .. n, kind)) = Cardinality(With(locked, S, kind))
  <2>1. CASE k = n + 1
    <3>1. With(moved, 1 .. n, kind) = With(locked, S, kind)
      BY <2>1, <1>1 DEF With
    <3> QED BY <3>1
  <2>2. CASE k # n + 1 /\ locked[n + 1] # kind
    <3>1. With(moved, 1 .. n, kind) = With(locked, S, kind)
      BY <2>2, <1>1 DEF With
    <3> QED BY <3>1
  <2>3. CASE k # n + 1 /\ locked[n + 1] = kind
    <3> DEFINE W == With(locked, S, kind)
    <3>1. {} \in SUBSET Apps
      OBVIOUS
    <3>2. IsFiniteSet(W) /\ IsFiniteSet(W \ {n + 1}) /\ Cardinality(W) \in Nat
      BY <1>1, <3>1, Finite, FS_RemoveElement
    <3>3. n + 1 \in W /\ k \notin W \ {n + 1} /\ With(moved, 1 .. n, kind) = (W \ {n + 1}) \cup {k}
      BY <2>3, <1>1 DEF With
    <3>4. Cardinality(W \ {n + 1}) = Cardinality(W) - 1
      BY <3>2, <3>3, FS_RemoveElement
    <3>5. Cardinality((W \ {n + 1}) \cup {k}) = Cardinality(W \ {n + 1}) + 1
      BY <3>2, <3>3, FS_AddElement
    <3> HIDE DEF W, moved
    <3>6. Cardinality((W \ {n + 1}) \cup {k}) = Cardinality(W)
      BY <3>2, <3>4, <3>5
    <3>7. Cardinality(With(moved, 1 .. n, kind)) = Cardinality(W)
      BY <3>3, <3>6
    <3> QED BY <3>7 DEF W
  <2> QED BY <2>1, <2>2, <2>3
<1> QED BY <1>2 DEF Matches

\* What is matched depends on the locks in S and what the apps of A hold.
LEMMA MatchesSame ==
  ASSUME NEW locked, NEW locked2, NEW held, NEW held2, NEW lost, NEW S, NEW A,
         \A k \in S : locked2[k] = locked[k],
         \A a \in A : held2[a] = held[a],
         Matches(locked, S, held, A, lost)
  PROVE  Matches(locked2, S, held2, A, lost)
<1>1. \A kind : /\ With(locked2, S, kind) = With(locked, S, kind)
               /\ Holders(held2, A, kind) = Holders(held, A, kind)
  BY DEF With, Holders
<1> QED BY <1>1 DEF Matches

\* Nobody has dropped anything if nobody will: the weaker claim follows.
LEMMA MatchesLost ==
  ASSUME NEW locked, NEW held, NEW lost, NEW S, NEW A, Matches(locked, S, held, A, lost)
  PROVE  Matches(locked, S, held, A, TRUE)
  BY DEF Matches

-----------------------------------------------------------------------------
(* Steps that leave the locks alone *)

LEMMA Constants ==
  /\ MaxLocks \in Nat \ {0} /\ IsFiniteSet(Apps)
  /\ \A a \in Apps : a \in Procs /\ a # "monitor" /\ a # "waker"
  /\ "monitor" \in Procs /\ "waker" \in Procs
  BY PowerAssumption DEF Procs

LEMMA LockTypes ==
  ASSUME IInv
  PROVE  /\ lock_count \in 0 .. MaxLocks /\ MaxLocks \in Nat \ {0} /\ dropped \in BOOLEAN
         /\ active_locks \in [Slots -> Kinds \cup {"NONE"}]
         /\ holds \in [Apps -> Kinds \cup {"NONE"}] /\ slot \in [Apps -> Nat]
         /\ IsFiniteSet(1 .. lock_count) /\ IsFiniteSet(1 .. lock_count - 1)
<1>1. /\ lock_count \in 0 .. MaxLocks /\ MaxLocks \in Nat \ {0} /\ dropped \in BOOLEAN
      /\ active_locks \in [Slots -> Kinds \cup {"NONE"}]
      /\ holds \in [Apps -> Kinds \cup {"NONE"}] /\ slot \in [Apps -> Nat]
  BY Constants DEF IInv, TypeOK
<1>2. IsFiniteSet(1 .. lock_count) /\ IsFiniteSet(1 .. lock_count - 1)
  BY <1>1, FS_Interval
<1> QED BY <1>1, <1>2

LEMMA LocksKept ==
  ASSUME MutexInv, CountInv, UNCHANGED locks, \A a \in Apps : pc'[a] = pc[a]
  PROVE  MutexInv' /\ CountInv'
<1>1. UNCHANGED <<active_locks, lock_count, mutex, holds, slot, dropped>>
  BY DEF locks
<1>2. MutexInv'
  BY <1>1 DEF MutexInv
<1>3. \A S, A : Match(S, A)' <=> Match(S, A)
  BY <1>1 DEF Match
<1>4. CountInv'
  BY <1>1, <1>3 DEF CountInv
<1> QED BY <1>2, <1>4

LEMMA TickStep == IInv /\ Tick => IInv'
<1> SUFFICES ASSUME IInv, Tick PROVE IInv'
  OBVIOUS
<1> USE DEF IInv
<1>1. TypeOK'
  BY DEF TypeOK, Tick, locks, pass, DEEP
<1>2. MutexInv' /\ CountInv'
  BY LocksKept DEF Tick
<1>3. PassInv' /\ TargetRespectsLocks'
  BY DEF Tick, PassInv, TargetRespectsLocks, locks, pass
<1> QED BY <1>1, <1>2, <1>3

LEMMA WakerStep == IInv /\ Waker => IInv'
<1> SUFFICES ASSUME IInv, Waker PROVE IInv'
  OBVIOUS
<1> USE DEF IInv
<1>1. UNCHANGED <<locks, highest, i, target, overtaken>> /\ idle' \in 0 .. DEEP /\ age' \in 0 .. DEEP
  BY DEF Waker, WakeStamps, WakeLooks, WakeSets, pass, Activity, TypeOK, DEEP
<1>2. PICK label \in {"out", "awake?", "set"} : pc' = [pc EXCEPT !["waker"] = label]
  BY DEF Waker, WakeStamps, WakeLooks, WakeSets, Goto
<1>3. current_state' \in States
  BY DEF Waker, WakeStamps, WakeLooks, WakeSets, TypeOK, States
<1>4. pc'["monitor"] = pc["monitor"] /\ \A a \in Apps : pc'[a] = pc[a]
  BY <1>2, Constants DEF TypeOK
<1>5. pc' \in [Procs -> Labels]
  BY <1>2 DEF TypeOK, Labels, AppLabels
<1>6. TypeOK'
  BY <1>1, <1>3, <1>4, <1>5 DEF TypeOK, locks
<1>7. MutexInv' /\ CountInv'
  BY <1>1, <1>4, LocksKept
<1>8. PassInv' /\ TargetRespectsLocks'
  BY <1>1, <1>4 DEF PassInv, TargetRespectsLocks, Held, locks
<1> QED BY <1>6, <1>7, <1>8

-----------------------------------------------------------------------------
(* A pass of the monitor *)

LEMMA MonitorTypes == IInv /\ Monitor => TypeOK' /\ MutexInv' /\ CountInv'
<1> SUFFICES ASSUME IInv, Monitor PROVE TypeOK' /\ MutexInv' /\ CountInv'
  OBVIOUS
<1> USE DEF IInv
<1>1. UNCHANGED <<locks, age>>
  BY DEF Monitor, ReadNow, Subtract, ScanLock, Decide, Apply, Assign
<1>2. \/ pc' = pc
      \/ \E label \in {"now", "subtract", "scan", "apply", "assign"} : pc' = [pc EXCEPT !["monitor"] = label]
  BY DEF Monitor, ReadNow, Subtract, ScanLock, Decide, Apply, Assign, Goto
<1>3. \A a \in Apps : pc'[a] = pc[a]
  BY <1>2, Constants DEF TypeOK
<1>4. pc' \in [Procs -> Labels]
  <2>1. CASE pc' = pc
    BY <2>1 DEF TypeOK
  <2>2. CASE pc' # pc
    BY <1>2, <2>2 DEF TypeOK, Labels, AppLabels
  <2> QED BY <2>1, <2>2
<1>5. idle' \in 0 .. DEEP /\ current_state' \in States /\ overtaken' \in BOOLEAN
  <2>1. idle' \in 0 .. DEEP
    BY DEF Monitor, ReadNow, Subtract, ScanLock, Decide, Apply, Assign, Forget, pass, TypeOK, DEEP
  <2>2. current_state' \in States
    BY DEF Monitor, ReadNow, Subtract, ScanLock, Decide, Apply, Assign, TypeOK
  <2>3. overtaken' \in BOOLEAN
    BY DEF Monitor, ReadNow, Subtract, ScanLock, Decide, Apply, Assign, TypeOK
  <2> QED BY <2>1, <2>2, <2>3
<1>6. highest' \in Kinds \cup {"NONE"} /\ i' \in Nat \ {0}
  <2>1. CASE ScanLock
    <3>1. i \in Slots /\ i' = i + 1
      BY <2>1, Constants DEF ScanLock, Scanned, Slots, TypeOK
    <3>2. active_locks[i] \in Kinds \cup {"NONE"} /\ highest \in Kinds \cup {"NONE"}
      BY <3>1 DEF TypeOK
    <3> QED BY <2>1, <3>1, <3>2 DEF ScanLock, TypeOK
  <2> QED BY <2>1 DEF Monitor, ReadNow, Subtract, Decide, Apply, Assign, Forget, pass, TypeOK
<1>7. target' \in States
  <2>1. CASE Decide
    <3>1. ByLock \in States
      <4>1. idle \in {0, 1, 2, 3, 4}
        BY DEF TypeOK, DEEP
      <4>2. highest \in {"DISPLAY_ON", "CPU_AWAKE", "FULL_AWAKE", "NONE"}
        BY PowerAssumption DEF TypeOK
      <4>3. ByIdle \in States
        BY <4>1 DEF ByIdle, States
      <4> QED BY <4>2, <4>3 DEF ByLock, States
    <3> QED BY <2>1, <3>1 DEF Decide, TypeOK
  <2> QED BY <2>1 DEF Monitor, ReadNow, Subtract, ScanLock, Apply, Assign, pass, TypeOK, States
<1>8. TypeOK'
  BY <1>1, <1>3, <1>4, <1>5, <1>6, <1>7 DEF TypeOK, locks
<1>9. MutexInv' /\ CountInv'
  BY <1>1, <1>3, LocksKept
<1> QED BY <1>8, <1>9

\* While nobody changes the locks and none was dropped, a kind is in the array
\* exactly if it is held.
LEMMA HeldIsLocked ==
  ASSUME TypeOK, CountInv, mutex = {}, ~dropped, NEW kind \in Kinds
  PROVE  Held(kind) <=> \E k \in 1 .. lock_count : active_locks[k] = kind
<1>1. /\ Cardinality(With(active_locks, 1 .. lock_count, kind)) = Cardinality(Holders(holds, Apps, kind))
  BY DEF CountInv, Match, Matches
<1>2. IsFiniteSet(1 .. lock_count)
  BY FS_Interval DEF TypeOK
<1>3. /\ IsFiniteSet(With(active_locks, 1 .. lock_count, kind))
      /\ IsFiniteSet(Holders(holds, Apps, kind))
  BY <1>2, Finite
<1>4. With(active_locks, 1 .. lock_count, kind) = {} <=> Holders(holds, Apps, kind) = {}
  BY <1>1, <1>3, FS_EmptySet
<1>5. Held(kind) <=> Holders(holds, Apps, kind) # {}
  BY DEF Held, Holders
<1>6. (\E k \in 1 .. lock_count : active_locks[k] = kind) <=> With(active_locks, 1 .. lock_count, kind) # {}
  BY DEF With
<1> QED BY <1>4, <1>5, <1>6

LEMMA ScanStep == IInv /\ ScanLock => PassInv'
<1> SUFFICES ASSUME IInv, ScanLock PROVE PassInv'
  OBVIOUS
<1> USE DEF IInv
<1>1. /\ UNCHANGED <<active_locks, lock_count, mutex, pc, overtaken>>
      /\ pc["monitor"] = "scan" /\ i <= lock_count /\ i' = i + 1
      /\ lock_count \in Nat /\ i \in Nat \ {0} /\ i \in Slots
  BY Constants DEF ScanLock, Scanned, locks, TypeOK, Slots
<1>2. /\ active_locks[i] \in Locks /\ highest \in Locks
      /\ highest' = IF Rank[active_locks[i]] > Rank[highest] THEN active_locks[i] ELSE highest
  BY <1>1, KindsNamed DEF ScanLock, TypeOK
<1>3. SUFFICES ASSUME ~overtaken
      PROVE  /\ i' <= lock_count' + 1
             /\ \A k \in 1 .. i' - 1 : Rank[active_locks'[k]] <= Rank[highest']
             /\ highest' = "NONE" \/ \E k \in 1 .. lock_count' : active_locks'[k] = highest'
  BY <1>1 DEF PassInv
<1>4. /\ \A k \in 1 .. i - 1 : Rank[active_locks[k]] <= Rank[highest]
      /\ highest = "NONE" \/ \E k \in 1 .. lock_count : active_locks[k] = highest
  BY <1>1, <1>3 DEF PassInv
<1>5. ASSUME NEW k \in 1 .. i' - 1 PROVE Rank[active_locks'[k]] <= Rank[highest']
  <2>1. k \in 1 .. i - 1 \/ k = i
    BY <1>1
  <2>2. k \in Slots
    BY <1>1, <2>1, Constants DEF Slots
  <2>3. active_locks[k] \in Locks
    BY <2>2, KindsNamed DEF TypeOK
  <2>4. Rank[active_locks[k]] \in 0 .. 3 /\ Rank[active_locks[i]] \in 0 .. 3 /\ Rank[highest] \in 0 .. 3
    BY <1>2, <2>3, KindsNamed
  <2>5. CASE k = i
    BY <2>4, <2>5, <1>1, <1>2
  <2>6. CASE k \in 1 .. i - 1
    <3>1. Rank[active_locks[k]] <= Rank[highest]
      BY <2>6, <1>4
    <3> QED BY <2>4, <3>1, <1>1, <1>2
  <2> QED BY <2>1, <2>5, <2>6
<1>6. highest' = "NONE" \/ \E k \in 1 .. lock_count' : active_locks'[k] = highest'
  BY <1>1, <1>2, <1>4
<1> QED BY <1>1, <1>5, <1>6

LEMMA DecideStep == IInv /\ Decide => TargetRespectsLocks'
<1> SUFFICES ASSUME IInv, Decide, pc'["monitor"] = "apply", ~overtaken', ~dropped'
             PROVE  /\ Held("FULL_AWAKE") => target' = "ACTIVE"
                    /\ Held("CPU_AWAKE") => target' \in {"ACTIVE", "DISPLAY_OFF"}
                    /\ Held("DISPLAY_ON") /\ ~Held("CPU_AWAKE") => target' = "ACTIVE"
  <2>1. Decide => UNCHANGED holds
    BY DEF Decide, locks
  <2> QED BY <2>1 DEF TargetRespectsLocks, Held
<1> USE DEF IInv
<1>1. pc["monitor"] = "scan" /\ ~Scanned /\ target' = ByLock /\ ~overtaken /\ ~dropped
  BY Constants DEF Decide, Goto, TypeOK, locks
<1>2. mutex = {} /\ lock_count \in Nat /\ i = lock_count + 1
  BY <1>1 DEF PassInv, TypeOK, Scanned
<1>3. /\ \A k \in 1 .. lock_count : Rank[active_locks[k]] <= Rank[highest]
      /\ highest = "NONE" \/ \E k \in 1 .. lock_count : active_locks[k] = highest
  BY <1>1, <1>2 DEF PassInv
<1>4. ASSUME NEW kind, Held(kind), kind # "NONE"
      PROVE  kind \in Kinds /\ Rank[kind] <= Rank[highest]
  <2>1. kind \in Kinds
    BY <1>4 DEF Held, TypeOK
  <2>2. PICK k \in 1 .. lock_count : active_locks[k] = kind
    BY <1>1, <1>2, <1>4, <2>1, HeldIsLocked
  <2> QED BY <2>1, <2>2, <1>3
<1>5. highest # "NONE" => Held(highest)
  BY <1>1, <1>2, <1>3, HeldIsLocked DEF TypeOK
<1>6. highest \in {"NONE", "DISPLAY_ON", "CPU_AWAKE", "FULL_AWAKE"}
  BY PowerAssumption DEF TypeOK
<1>7. /\ Rank["NONE"] = 0 /\ Rank["DISPLAY_ON"] = 1 /\ Rank["CPU_AWAKE"] = 2 /\ Rank["FULL_AWAKE"] = 3
  BY DEF Rank
<1>8. ASSUME Held("FULL_AWAKE") PROVE target' = "ACTIVE"
  <2>1. highest = "FULL_AWAKE"
    BY <1>4, <1>6, <1>7, <1>8
  <2> QED BY <1>1, <2>1 DEF ByLock
<1>9. ASSUME Held("CPU_AWAKE") PROVE target' \in {"ACTIVE", "DISPLAY_OFF"}
  <2>1. highest \in {"CPU_AWAKE", "FULL_AWAKE"}
    BY <1>4, <1>6, <1>7, <1>9
  <2> QED BY <1>1, <2>1 DEF ByLock
<1>10. ASSUME Held("DISPLAY_ON"), ~Held("CPU_AWAKE") PROVE target' = "ACTIVE"
  <2>1. highest \in {"DISPLAY_ON", "FULL_AWAKE"}
    BY <1>4, <1>5, <1>6, <1>7, <1>10
  <2> QED BY <1>1, <2>1 DEF ByLock
<1> QED BY <1>8, <1>9, <1>10

LEMMA MonitorStep == IInv /\ Monitor => IInv'
<1> SUFFICES ASSUME IInv, Monitor PROVE IInv'
  OBVIOUS
<1>1. TypeOK' /\ MutexInv' /\ CountInv'
  BY MonitorTypes
<1> USE DEF IInv
<1>2. "monitor" \in DOMAIN pc /\ pc["monitor"] \in Labels
  BY Constants DEF TypeOK
<1>3. PassInv'
  <2>1. CASE ReadNow
    BY <2>1, <1>2 DEF ReadNow, Goto, PassInv, locks
  <2>2. CASE Subtract
    <3>1. i = 1 /\ highest = "NONE" /\ lock_count \in Nat
      BY <2>2 DEF Subtract, PassInv, TypeOK
    <3> QED BY <2>2, <1>2, <3>1 DEF Subtract, Goto, PassInv, locks, pass
  <2>3. CASE ScanLock
    BY <2>3, ScanStep
  <2>4. CASE Decide
    BY <2>4, <1>2 DEF Decide, Goto, Forget, PassInv, locks
  <2>5. CASE Apply
    BY <2>5, <1>2 DEF Apply, Goto, PassInv, locks, pass
  <2>6. CASE Assign
    BY <2>6, <1>2 DEF Assign, Goto, PassInv, locks
  <2> QED BY <2>1, <2>2, <2>3, <2>4, <2>5, <2>6 DEF Monitor
<1>4. TargetRespectsLocks'
  <2>1. CASE Decide
    BY <2>1, DecideStep
  <2>2. CASE ~Decide
    <3>1. pc'["monitor"] # "apply"
      BY <2>2, <1>2 DEF Monitor, ReadNow, Subtract, ScanLock, Apply, Assign, Goto
    <3> QED BY <3>1 DEF TargetRespectsLocks
  <2> QED BY <2>1, <2>2
<1> QED BY <1>1, <1>3, <1>4

-----------------------------------------------------------------------------
(* Acquire and release *)

\* The app has the mutex, or takes it: the others are outside, and the pass
\* under way is marked.
LEMMA AppStep ==
  ASSUME IInv, NEW a \in Apps, App(a)
  PROVE  /\ UNCHANGED <<current_state, target, highest, i>>
         /\ idle' \in 0 .. DEEP /\ age' \in 0 .. DEEP
         /\ overtaken' = (pc["monitor"] # "now")
         /\ \E label \in AppLabels : pc' = [pc EXCEPT ![a] = label]
         /\ mutex = {} <=> pc[a] = "out"
         /\ mutex' = {} <=> pc'[a] = "out"
         /\ mutex' = {} \/ mutex' = {a}
         /\ \A b \in Apps \ {a} : pc[b] = "out" /\ pc'[b] = "out" /\ slot[b] = 0 /\ slot'[b] = 0
<1>1. /\ \A b \in Apps : pc[b] # "out" <=> mutex = {b}
      /\ a \in Procs /\ Apps \subseteq DOMAIN pc
  BY Constants DEF IInv, MutexInv, TypeOK
<1>2. UNCHANGED <<current_state, target, highest, i>> /\ idle' \in 0 .. DEEP /\ age' \in 0 .. DEEP
  BY DEF App, Acquire, Acquired, Release, Released, pass, Activity, IInv, TypeOK, DEEP
<1>3. overtaken' = (pc["monitor"] # "now")
  BY DEF App, Acquire, Acquired, Release, Released, Overtakes
<1>4. \E label \in AppLabels : pc' = [pc EXCEPT ![a] = label]
  BY DEF App, Acquire, Acquired, Release, Released, Goto, AppLabels
<1>5. /\ mutex = {} <=> pc[a] = "out"
      /\ mutex' = {} <=> pc'[a] = "out"
      /\ mutex' = {} \/ mutex' = {a}
  BY <1>1 DEF App, Acquire, Acquired, Release, Released, Goto
<1>6. ASSUME NEW b \in Apps \ {a} PROVE pc[b] = "out" /\ pc'[b] = "out" /\ slot[b] = 0 /\ slot'[b] = 0
  <2>1. pc[b] = "out" /\ pc'[b] = "out"
    BY <1>1, <1>4, <1>5
  <2>2. slot[b] = 0
    BY <2>1 DEF IInv, CountInv
  <2>3. slot'[b] = slot[b]
    BY DEF App, Acquire, Acquired, Release, Released, IInv, TypeOK
  <2> QED BY <2>1, <2>2, <2>3
<1> QED BY <1>2, <1>3, <1>4, <1>5, <1>6

\* What is left to show of an app's step: the types of what it writes, and
\* that the locks still match.
LEMMA AppKeeps ==
  ASSUME IInv, NEW a \in Apps, App(a),
         active_locks' \in [Slots -> Kinds \cup {"NONE"}],
         lock_count' \in 0 .. MaxLocks,
         holds' \in [Apps -> Kinds \cup {"NONE"}],
         slot' \in [Apps -> Nat],
         dropped' \in BOOLEAN,
         CountInv'
  PROVE  IInv'
<1>1. /\ UNCHANGED <<current_state, target, highest, i>>
      /\ idle' \in 0 .. DEEP /\ age' \in 0 .. DEEP
      /\ overtaken' = (pc["monitor"] # "now")
      /\ mutex' = {} <=> pc'[a] = "out"
      /\ mutex' = {} \/ mutex' = {a}
      /\ \A b \in Apps \ {a} : pc'[b] = "out"
  BY AppStep
<1>2. PICK label \in AppLabels : pc' = [pc EXCEPT ![a] = label]
  BY AppStep
<1>3. TypeOK'
  <2>1. pc' \in [Procs -> Labels]
    BY <1>2 DEF IInv, TypeOK, Labels, AppLabels
  <2>2. \A b \in Apps : pc'[b] \in AppLabels
    BY <1>2, Constants DEF IInv, TypeOK
  <2> QED BY <1>1, <2>1, <2>2 DEF IInv, TypeOK
<1>4. pc'["monitor"] = pc["monitor"]
  BY <1>2, Constants DEF IInv, TypeOK
<1>5. MutexInv'
  BY <1>1 DEF MutexInv
<1>6. PassInv' /\ TargetRespectsLocks'
  BY <1>1, <1>4 DEF IInv, PassInv, TargetRespectsLocks
<1> QED BY <1>3, <1>5, <1>6 DEF IInv

LEMMA AcquireStep ==
  ASSUME IInv, NEW a \in Apps, NEW kind \in Kinds, Acquire(a, kind)
  PROVE  IInv'
<1>1. App(a)
  BY DEF App
<1>2. /\ lock_count \in 0 .. MaxLocks /\ MaxLocks \in Nat \ {0} /\ dropped \in BOOLEAN
      /\ active_locks \in [Slots -> Kinds \cup {"NONE"}]
      /\ holds \in [Apps -> Kinds \cup {"NONE"}] /\ slot \in [Apps -> Nat]
      /\ IsFiniteSet(1 .. lock_count) /\ a \in Procs
  BY Constants, LockTypes
<1>3. /\ holds' = [holds EXCEPT ![a] = kind] /\ slot' = slot /\ slot[a] = 0 /\ mutex = {}
      /\ Match(1 .. lock_count, Apps) /\ mutex' = {a}
  BY DEF Acquire, IInv, CountInv
\* a held nothing: without it the other apps match all the same.
<1>4. Match(1 .. lock_count, Apps \ {a})
  <2>1. ASSUME NEW k \in Kinds PROVE Holders(holds, Apps \ {a}, k) = Holders(holds, Apps, k)
    BY KindsNamed DEF Acquire, Holders
  <2> QED BY <1>3, <2>1 DEF Match, Matches
<1>5. \A b \in Apps \ {a} : pc'[b] = "out" /\ slot'[b] = 0
  BY <1>1, AppStep
<1>6. pc' = [pc EXCEPT ![a] = pc'[a]] /\ pc'[a] \in {"count", "fill", "stamp"}
  BY <1>2 DEF Acquire, Goto, IInv, TypeOK
<1>7. CASE pc'[a] = "count"
  <2>1. /\ lock_count' = lock_count /\ dropped' = dropped /\ lock_count < MaxLocks
        /\ active_locks' = [active_locks EXCEPT ![lock_count + 1] = kind]
    BY <1>7, <1>2 DEF Acquire, Goto, HasRoom, IInv, TypeOK
  <2>2. lock_count + 1 \in Slots /\ \A k \in 1 .. lock_count : k \in Slots /\ k # lock_count + 1
    BY <1>2, <2>1 DEF Slots
  <2>3. active_locks'[lock_count' + 1] = holds'[a]
    BY <1>2, <1>3, <2>1, <2>2
  <2>4. /\ \A k \in 1 .. lock_count : active_locks'[k] = active_locks[k]
        /\ \A b \in Apps \ {a} : holds'[b] = holds[b]
    BY <1>2, <1>3, <2>1, <2>2
  <2>5. Matches(active_locks', 1 .. lock_count, holds', Apps \ {a}, dropped)
    BY <1>4, <2>4, MatchesSame DEF Match
  <2>6. CountInv'
    BY <1>3, <1>5, <1>7, <2>1, <2>3, <2>5 DEF CountInv, Match
  <2> QED BY <1>1, <1>2, <1>3, <2>1, <2>6, AppKeeps
<1>8. CASE pc'[a] = "fill"
  <2>1. /\ lock_count' = lock_count + 1 /\ dropped' = dropped /\ lock_count < MaxLocks
        /\ active_locks' = active_locks
    BY <1>8, <1>2 DEF Acquire, Goto, HasRoom, IInv, TypeOK
  <2>2. \A b \in Apps \ {a} : holds'[b] = holds[b]
    BY <1>2, <1>3
  <2>3. Matches(active_locks', 1 .. lock_count' - 1, holds', Apps \ {a}, dropped)
    <3>1. lock_count' - 1 = lock_count
      BY <1>2, <2>1
    <3>2. Matches(active_locks, 1 .. lock_count, holds', Apps \ {a}, dropped)
      BY <1>4, <2>2, MatchesSame DEF Match
    <3> QED BY <2>1, <3>1, <3>2
  <2>4. lock_count' \in 0 .. MaxLocks /\ lock_count' > 0
    BY <1>2, <2>1
  <2>5. mutex' # {}
    BY <1>3
  <2>6. CountInv'
    BY <1>3, <1>5, <1>8, <2>1, <2>3, <2>4, <2>5 DEF CountInv, Match
  <2> QED BY <1>1, <1>2, <1>3, <2>1, <2>4, <2>6, AppKeeps
<1>9. CASE pc'[a] = "stamp"
  <2>1. lock_count' = lock_count /\ dropped' = TRUE /\ active_locks' = active_locks
    BY <1>9, <1>2 DEF Acquire, Goto, IInv, TypeOK
  <2>2. \A b \in Apps \ {a} : holds'[b] = holds[b]
    BY <1>2, <1>3
  <2>3. Matches(active_locks, 1 .. lock_count, holds', Apps \ {a}, TRUE)
    <3>1. Matches(active_locks, 1 .. lock_count, holds', Apps \ {a}, dropped)
      BY <1>4, <2>2, MatchesSame DEF Match
    <3> QED BY <3>1, MatchesLost
  <2>4. CountInv'
    BY <1>3, <1>5, <1>9, <2>1, <2>3 DEF CountInv, Match
  <2> QED BY <1>1, <1>2, <1>3, <2>1, <2>4, AppKeeps
<1> QED BY <1>6, <1>7, <1>8, <1>9

LEMMA AcquiredStep ==
  ASSUME IInv, NEW a \in Apps, Acquired(a)
  PROVE  IInv'
<1>1. App(a)
  BY DEF App
<1>2. /\ lock_count \in 0 .. MaxLocks /\ MaxLocks \in Nat \ {0} /\ dropped \in BOOLEAN
      /\ active_locks \in [Slots -> Kinds \cup {"NONE"}]
      /\ holds \in [Apps -> Kinds \cup {"NONE"}] /\ slot \in [Apps -> Nat]
      /\ IsFiniteSet(1 .. lock_count) /\ IsFiniteSet(1 .. lock_count - 1) /\ a \in Procs
  BY Constants, LockTypes
<1>3. /\ UNCHANGED <<holds, slot, dropped>> /\ pc'[a] = "out" /\ slot[a] = 0
      /\ pc[a] \in {"count", "fill", "stamp"}
  BY <1>2 DEF Acquired, Goto, IInv, TypeOK, CountInv
<1>4. mutex' = {} /\ \A b \in Apps : pc'[b] = "out" /\ slot'[b] = 0
  <2>1. mutex' = {} /\ \A b \in Apps \ {a} : pc'[b] = "out" /\ slot'[b] = 0
    BY <1>1, <1>3, AppStep
  <2> QED BY <1>3, <2>1
<1>5. SUFFICES /\ active_locks' \in [Slots -> Kinds \cup {"NONE"}] /\ lock_count' \in 0 .. MaxLocks
               /\ Matches(active_locks', 1 .. lock_count', holds, Apps, dropped)
  <2>1. ASSUME Matches(active_locks', 1 .. lock_count', holds, Apps, dropped)
        PROVE  CountInv'
    BY <1>3, <1>4, <2>1 DEF CountInv, Match
  <2> QED BY <1>1, <1>2, <1>3, <2>1, AppKeeps
<1>6. (Apps \ {a}) \cup {a} = Apps /\ Apps \ {a} \in SUBSET Apps /\ a \in Apps \ (Apps \ {a})
  OBVIOUS
<1>7. CASE pc[a] = "count"
  <2>1. /\ lock_count' = lock_count + 1 /\ active_locks' = active_locks /\ lock_count < MaxLocks
        /\ active_locks[lock_count + 1] = holds[a]
        /\ Matches(active_locks, 1 .. lock_count, holds, Apps \ {a}, dropped)
    BY <1>7 DEF Acquired, IInv, CountInv, Match
  <2>2. lock_count + 1 \notin 1 .. lock_count /\ 1 .. lock_count + 1 = (1 .. lock_count) \cup {lock_count + 1}
    BY <1>2
  <2>3. Matches(active_locks, (1 .. lock_count) \cup {lock_count + 1}, holds, (Apps \ {a}) \cup {a}, dropped)
    BY <1>2, <1>6, <2>1, <2>2, MatchesMore
  <2>4. lock_count' \in 0 .. MaxLocks
    BY <1>2, <2>1
  <2> QED BY <1>2, <1>6, <2>1, <2>2, <2>3, <2>4
<1>8. CASE pc[a] = "fill"
  <2>1. /\ lock_count' = lock_count /\ lock_count > 0
        /\ active_locks' = [active_locks EXCEPT ![lock_count] = holds[a]]
        /\ Matches(active_locks, 1 .. lock_count - 1, holds, Apps \ {a}, dropped)
    BY <1>8 DEF Acquired, IInv, CountInv, Match
  <2>2. /\ lock_count \in Slots /\ lock_count \notin 1 .. lock_count - 1
        /\ 1 .. lock_count = (1 .. lock_count - 1) \cup {lock_count}
        /\ \A k \in 1 .. lock_count - 1 : k \in Slots /\ k # lock_count
    BY <1>2, <2>1 DEF Slots
  <2>3. /\ active_locks' \in [Slots -> Kinds \cup {"NONE"}] /\ active_locks'[lock_count] = holds[a]
        /\ \A k \in 1 .. lock_count - 1 : active_locks'[k] = active_locks[k]
    BY <1>2, <2>1, <2>2
  <2>4. Matches(active_locks', 1 .. lock_count - 1, holds, Apps \ {a}, dropped)
    BY <2>1, <2>3, MatchesSame
  <2>5. Matches(active_locks', (1 .. lock_count - 1) \cup {lock_count}, holds, (Apps \ {a}) \cup {a}, dropped)
    BY <1>2, <1>6, <2>2, <2>3, <2>4, MatchesMore
  <2> QED BY <1>2, <1>6, <2>1, <2>2, <2>3, <2>5
<1>9. CASE pc[a] = "stamp"
  <2>1. /\ lock_count' = lock_count /\ active_locks' = active_locks /\ dropped
        /\ Matches(active_locks, 1 .. lock_count, holds, Apps \ {a}, dropped)
    BY <1>9 DEF Acquired, IInv, CountInv, Match
  <2>2. dropped = TRUE
    BY <1>2, <2>1
  <2>3. Matches(active_locks, 1 .. lock_count, holds, (Apps \ {a}) \cup {a}, dropped)
    BY <1>2, <1>6, <2>1, <2>2, MatchesHolder
  <2> QED BY <1>2, <1>6, <2>1, <2>3
<1> QED BY <1>3, <1>7, <1>8, <1>9

LEMMA ReleaseStep ==
  ASSUME IInv, NEW a \in Apps, Release(a)
  PROVE  IInv'
<1>1. App(a)
  BY DEF App
<1>2. /\ lock_count \in 0 .. MaxLocks /\ MaxLocks \in Nat \ {0} /\ dropped \in BOOLEAN
      /\ active_locks \in [Slots -> Kinds \cup {"NONE"}]
      /\ holds \in [Apps -> Kinds \cup {"NONE"}] /\ slot \in [Apps -> Nat]
      /\ IsFiniteSet(1 .. lock_count) /\ a \in Procs
  BY Constants, LockTypes
<1>3. /\ UNCHANGED <<active_locks, holds, dropped>> /\ pc'[a] = "refill" /\ mutex' = {a}
      /\ holds[a] \in Kinds /\ slot[a] = 0
      /\ Matches(active_locks, 1 .. lock_count, holds, Apps, dropped)
  BY <1>2 DEF Release, Goto, IInv, TypeOK, CountInv, Match
<1>4. \A b \in Apps \ {a} : pc'[b] = "out" /\ slot'[b] = 0
  BY <1>1, AppStep
<1> DEFINE found == {k \in Searched : active_locks[k] = holds[a]}
<1>5. CASE found # {}
  <2>1. found \in SUBSET Nat /\ found \subseteq 1 .. lock_count
    BY DEF Searched
  <2>2. \E k \in found : \A l \in found : k <= l
    BY <1>5, <2>1, LeastOfThem
  <2> DEFINE k == CHOOSE k \in found : \A l \in found : k <= l
  <2>3. k \in 1 .. lock_count /\ active_locks[k] = holds[a]
    BY <2>1, <2>2
  <2>4. slot' = [slot EXCEPT ![a] = k] /\ lock_count' = lock_count - 1
    BY <1>5 DEF Release
  <2> HIDE DEF k
  <2>5. Matches(active_locks, (1 .. lock_count) \ {k}, holds, Apps \ {a}, dropped)
    BY <1>2, <1>3, <2>3, MatchesLess
  <2>6. /\ lock_count' \in 0 .. MaxLocks /\ lock_count' < MaxLocks /\ lock_count' + 1 = lock_count
        /\ slot'[a] = k /\ k # 0 /\ slot' \in [Apps -> Nat]
    BY <1>2, <2>3, <2>4
  <2>7. CountInv'
    BY <1>3, <1>4, <2>3, <2>5, <2>6 DEF CountInv, Match
  <2> QED BY <1>1, <1>2, <1>3, <2>6, <2>7, AppKeeps
<1>6. CASE found = {}
  <2>1. UNCHANGED <<slot, lock_count>>
    BY <1>6 DEF Release
  <2>2. \A k \in 1 .. lock_count : active_locks[k] # holds[a]
    BY <1>6 DEF Searched
  <2>3. Matches(active_locks, 1 .. lock_count, holds, Apps \ {a}, dropped)
    <3>1. Apps \in SUBSET Apps
      OBVIOUS
    <3> QED BY <1>2, <1>3, <2>2, <3>1, MatchesNotFound
  <2>4. CountInv'
    BY <1>3, <1>4, <2>1, <2>3 DEF CountInv, Match
  <2> QED BY <1>1, <1>2, <1>3, <2>1, <2>4, AppKeeps
<1> QED BY <1>5, <1>6

LEMMA ReleasedStep ==
  ASSUME IInv, NEW a \in Apps, Released(a)
  PROVE  IInv'
<1>1. App(a)
  BY DEF App
<1>2. /\ lock_count \in 0 .. MaxLocks /\ MaxLocks \in Nat \ {0} /\ dropped \in BOOLEAN
      /\ active_locks \in [Slots -> Kinds \cup {"NONE"}]
      /\ holds \in [Apps -> Kinds \cup {"NONE"}] /\ slot \in [Apps -> Nat] /\ a \in Procs
  BY Constants, LockTypes
<1>3. /\ UNCHANGED <<lock_count, dropped>> /\ pc'[a] = "out" /\ pc[a] = "refill"
      /\ slot' = [slot EXCEPT ![a] = 0] /\ holds' = [holds EXCEPT ![a] = "NONE"]
      /\ active_locks' = IF slot[a] = 0 THEN active_locks ELSE Refilled(slot[a])
  BY <1>2 DEF Released, Goto, IInv, TypeOK
<1>4. mutex' = {} /\ \A b \in Apps : pc'[b] = "out" /\ slot'[b] = 0
  <2>1. mutex' = {} /\ \A b \in Apps \ {a} : pc'[b] = "out" /\ slot'[b] = 0
    BY <1>1, <1>3, AppStep
  <2> QED BY <1>2, <1>3, <2>1
<1>5. /\ active_locks' \in [Slots -> Kinds \cup {"NONE"}]
      /\ Matches(active_locks', 1 .. lock_count, holds, Apps \ {a}, dropped)
  <2>1. CASE slot[a] = 0
    BY <1>2, <1>3, <2>1 DEF IInv, CountInv, Match
  <2>2. CASE slot[a] # 0
    <3>1. /\ lock_count < MaxLocks /\ slot[a] \in 1 .. lock_count + 1
          /\ Matches(active_locks, (1 .. lock_count + 1) \ {slot[a]}, holds, Apps \ {a}, dropped)
          /\ active_locks' = [active_locks EXCEPT ![slot[a]] = active_locks[lock_count + 1]]
      BY <1>3, <2>2 DEF IInv, CountInv, Match, Refilled
    <3>2. /\ lock_count + 1 \in Slots /\ lock_count \in Nat
          /\ active_locks[lock_count + 1] \in Kinds \cup {"NONE"}
      BY <1>2, <3>1 DEF Slots
    <3>3. active_locks' \in [Slots -> Kinds \cup {"NONE"}]
      BY <1>2, <3>1, <3>2
    <3> QED BY <1>2, <3>1, <3>2, <3>3, MatchesRefilled
  <2> QED BY <2>1, <2>2
\* a holds nothing any more: with it the apps match all the same.
<1>6. Matches(active_locks', 1 .. lock_count, holds', Apps, dropped)
  <2>1. ASSUME NEW k \in Kinds PROVE Holders(holds', Apps, k) = Holders(holds, Apps \ {a}, k)
    BY <1>2, <1>3, KindsNamed DEF Holders
  <2> QED BY <1>5, <2>1 DEF Matches
<1>7. CountInv'
  BY <1>3, <1>4, <1>6 DEF CountInv, Match
<1>8. holds' \in [Apps -> Kinds \cup {"NONE"}] /\ slot' \in [Apps -> Nat]
  BY <1>2, <1>3
<1> QED BY <1>1, <1>2, <1>3, <1>5, <1>7, <1>8, AppKeeps

-----------------------------------------------------------------------------
LEMMA PowerInit == Init => IInv
<1> SUFFICES ASSUME Init PROVE IInv
  OBVIOUS
<1> USE DEF Init
<1>1. TypeOK
  <2>1. pc \in [Procs -> Labels]
    BY DEF Labels, AppLabels
  <2>2. \A a \in Apps : pc[a] = "out"
    BY Constants
  <2>3. active_locks \in [Slots -> Kinds \cup {"NONE"}] /\ lock_count \in 0 .. MaxLocks
    BY Constants
  <2>4. /\ holds \in [Apps -> Kinds \cup {"NONE"}] /\ slot \in [Apps -> Nat]
        /\ idle \in 0 .. DEEP /\ age \in 0 .. DEEP /\ i \in Nat \ {0}
        /\ highest \in Kinds \cup {"NONE"}
    BY DEF DEEP
  <2>5. target \in States /\ current_state \in States /\ dropped \in BOOLEAN /\ overtaken \in BOOLEAN
    BY DEF States
  <2> QED BY <2>1, <2>2, <2>3, <2>4, <2>5 DEF TypeOK, AppLabels
<1>2. \A a \in Apps : pc[a] = "out" /\ slot[a] = 0 /\ holds[a] = "NONE"
  BY Constants
<1>3. Match(1 .. lock_count, Apps)
  <2>1. ASSUME NEW kind \in Kinds
        PROVE  With(active_locks, 1 .. lock_count, kind) = {} /\ Holders(holds, Apps, kind) = {}
    BY <1>2, KindsNamed DEF With, Holders
  <2> QED BY <2>1, FS_EmptySet DEF Match, Matches
<1>4. MutexInv
  BY <1>2 DEF MutexInv
<1>5. CountInv
  BY <1>2, <1>3 DEF CountInv
<1>6. pc["monitor"] = "now"
  BY Constants
<1> QED BY <1>1, <1>4, <1>5, <1>6 DEF IInv, PassInv, TargetRespectsLocks

LEMMA PowerNext == IInv /\ [Next]_vars => IInv'
<1> SUFFICES ASSUME IInv, [Next]_vars PROVE IInv'
  OBVIOUS
<1>1. CASE UNCHANGED vars
  <2>1. UNCHANGED <<current_state, locks, age, backlight, pc, pass, overtaken, asleep>>
    BY <1>1 DEF vars
  <2>2. MutexInv' /\ CountInv'
    BY <2>1, LocksKept DEF IInv
  <2>3. TypeOK' /\ PassInv' /\ TargetRespectsLocks'
    BY <2>1 DEF locks, pass, IInv, TypeOK, PassInv, TargetRespectsLocks, Held
  <2> QED BY <2>2, <2>3 DEF IInv
<1>2. CASE Next
  BY <1>2, TickStep, WakerStep, MonitorStep, AcquireStep, AcquiredStep, ReleaseStep, ReleasedStep
     DEF Next, App
<1> QED BY <1>1, <1>2

LEMMA PowerInvariant == Spec => []IInv
  BY PowerInit, PowerNext, PTL DEF Spec

\* The compaction in svc_power_release and the ignored acquires leave no lock
\* in the array that no app holds, whatever the apps do.
THEOREM NoLockIsLeft == Spec => []LocksBacked
<1>1. IInv => LocksBacked
  BY DEF IInv, CountInv, Match, Matches, With, Holders, LocksBacked
<1> QED BY <1>1, PowerInvariant, PTL

\* power_monitor_task reads the locks without the mutex; the target of a pass
\* that no acquire or release ran into is one the held locks allow, until an
\* acquire was dropped.
THEOREM UnracedTargets == Spec => []TargetRespectsLocks
<1>1. IInv => TargetRespectsLocks
  BY DEF IInv
<1> QED BY <1>1, PowerInvariant, PTL
=============================================================================
