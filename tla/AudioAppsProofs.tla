-------------------------- MODULE AudioAppsProofs --------------------------
(***************************************************************************)
(* The player with a decoder thread and the voice assistant keep the       *)
(* thread their handlers would join in the handle, and leave none behind   *)
(* that app_deinit could have waited for; the stream player feeds a file   *)
(* in its order.  For any number of threads, files and tracks, of any      *)
(* length, and a ring of any size.                                         *)
(***************************************************************************)
EXTENDS AudioApps, TLAPS

Labels ==
  {"off", "start", "check", "probed", "feed", "again", "clear", "close", "show",
   "connect", "capture", "send", "receive", "hang_up", "forget"}

StreamType ==
  sp \in [listed : SUBSET Files, current : Files \cup {None}, playing : BOOLEAN,
          timer : BOOLEAN, out : BOOLEAN, file : Files \cup {None}, pos : Nat,
          pending : Nat, sent : Seq(Nat), resumed : BOOLEAN]

ThreadType ==
  tp \in [listed : SUBSET Tracks, current : Tracks \cup {NULL}, playing : BOOLEAN,
          handle : Threads \cup {NULL}, waits : {"no", "select", "pause", "deinit"},
          chosen : Tracks \cup {NULL},
          run : [Threads -> [track : Tracks \cup {NULL}, pos : Nat]]]

VoiceType ==
  va \in [recording : BOOLEAN, handle : Threads \cup {NULL}, out : BOOLEAN,
          label : {"Hold to Talk", "Listening...", "Processing..."},
          waits : {"no", "release", "deinit"}, loose : SUBSET Threads]

TypeOK ==
  /\ at \in [Threads -> Labels]
  /\ StreamType /\ ThreadType /\ VoiceType
  /\ app \in {"none", "stream", "thread", "voice"}

\* Only the player with a thread and the voice assistant have threads.
IdleInv == app \in {"none", "stream"} => Lingering = {}

\* Of the open file, what the ring has accepted comes before what is pending,
\* and that is the chunk read last.
StreamInv ==
  sp.file # None =>
    /\ sp.pending # 0 => sp.pending = sp.pos
    /\ \A j \in DOMAIN sp.sent :
         sp.sent[j] <= sp.pos /\ (sp.pending # 0 => sp.sent[j] < sp.pending)

\* A decoder that has not given the flag back is the one of the handle, and
\* the flag is set or a handler waits for it.
ThreadInv ==
  app = "thread" =>
    /\ tp.waits # "no" => ~tp.playing
    /\ \A t \in Threads : at[t] \notin Leaving =>
         tp.handle = t /\ (tp.playing \/ tp.waits # "no")

\* So is a streaming thread, unless the server has ended a stream since.
VoiceInv ==
  app = "voice" =>
    /\ va.waits # "no" => ~va.recording
    /\ va.loose \subseteq Lingering
    /\ \A t \in Threads : Alive(t) /\ t \notin va.loose =>
         va.handle = t /\ (va.recording \/ va.waits # "no")

IInv == TypeOK /\ IdleInv /\ StreamInOrder /\ StreamInv /\ ThreadInv /\ VoiceInv

-----------------------------------------------------------------------------
LEMMA TypesKept ==
  /\ StreamType /\ sp' = sp => StreamType'
  /\ ThreadType /\ tp' = tp => ThreadType'
  /\ VoiceType /\ va' = va => VoiceType'
  BY DEF StreamType, ThreadType, VoiceType

-----------------------------------------------------------------------------
(* The stream player *)

\* A step of the stream player leaves everything of the others alone.
LEMMA StreamFrame ==
  ASSUME IInv, app = "stream", UNCHANGED <<at, tp, va, app>>,
         StreamType', StreamInOrder', StreamInv'
  PROVE  IInv'
<1>1. TypeOK'
  BY TypesKept DEF IInv, TypeOK
<1>2. IdleInv'
  BY DEF IInv, IdleInv, Lingering, Alive
<1>3. ThreadInv' /\ VoiceInv'
  BY DEF ThreadInv, VoiceInv
<1> QED BY <1>1, <1>2, <1>3 DEF IInv

LEMMA StreamStepKeeps == IInv /\ Stream => IInv'
<1> SUFFICES ASSUME IInv, Stream PROVE IInv'
  OBVIOUS
<1>1. app = "stream" /\ StreamStep /\ UNCHANGED <<at, tp, va, app>>
  BY DEF Stream
<1>2. StreamType /\ StreamInOrder /\ StreamInv
  BY DEF IInv, TypeOK
<1>e. <<>> \in Seq(Nat)
  OBVIOUS
<1> USE StreamAssumption
<1>4. CASE \E f \in Files : SelectFile(f)
  <2>1. PICK f \in Files : SelectFile(f)
    BY <1>4
  <2>2. StreamType'
    BY <2>1, <1>2, <1>e DEF SelectFile, StreamType
  <2>3. sp'.file = None
    BY <2>1, <1>2 DEF SelectFile, StreamType
  <2> QED BY <2>2, <2>3, <1>1, StreamFrame DEF StreamInOrder, StreamInv
<1>5. CASE Pause
  <2>1. /\ StreamType' /\ sp'.file = sp.file /\ sp'.sent = sp.sent
        /\ sp'.pending = sp.pending /\ sp'.pos = sp.pos /\ sp'.resumed = sp.resumed
    BY <1>5, <1>2 DEF Pause, StreamType
  <2> QED BY <2>1, <1>1, <1>2, StreamFrame DEF StreamInOrder, StreamInv
<1>6. CASE CannotPlay \/ StillFull
  <2>1. UNCHANGED sp
    BY <1>6 DEF CannotPlay, StillFull
  <2> QED BY <2>1, <1>1, <1>2, StreamFrame DEF StreamType, StreamInOrder, StreamInv
<1>7. CASE Play
  <2>1. /\ StreamType' /\ sp'.file # None /\ sp'.sent = <<>>
        /\ sp'.pending = 0 /\ sp'.pos = 0
    BY <1>7, <1>2, <1>e DEF Play, StreamType
  <2>2. StreamInOrder' /\ StreamInv'
    BY <2>1 DEF StreamInOrder, StreamInv
  <2> QED BY <2>1, <2>2, <1>1, StreamFrame
<1>8. CASE Resume
  <2>1. /\ StreamType' /\ sp'.file = sp.file /\ sp'.sent = sp.sent
        /\ sp'.pending = 0 /\ sp'.pos = sp.pos
        /\ sp'.resumed = (sp.resumed \/ sp.pending # 0) /\ sp.file # None
    BY <1>8, <1>2 DEF Resume, StreamType
  <2> QED BY <2>1, <1>1, <1>2, StreamFrame DEF StreamInOrder, StreamInv
<1>9. CASE StreamChunk
  <2> DEFINE n == sp.pos + 1
             room == RingThen < RingChunks
             then == IF room THEN Append(SentThen, n) ELSE SentThen
  <2>1. /\ sp.file # None /\ (sp.pending = 0 \/ ~Full)
        /\ sp.pos \in Nat /\ sp.pending \in Nat /\ sp.sent \in Seq(Nat)
    BY <1>9, <1>2 DEF StreamChunk, Ticks, ReadsOn, Flushed, StreamType
  <2>2. SentThen = IF sp.pending # 0 THEN Append(sp.sent, sp.pending) ELSE sp.sent
    BY <2>1 DEF SentThen
  <2>3. /\ SentThen \in Seq(Nat)
        /\ \A j \in DOMAIN SentThen : SentThen[j] <= sp.pos
        /\ \A j, k \in DOMAIN SentThen : j < k => SentThen[j] < SentThen[k]
        /\ ~sp.resumed => Len(SentThen) = sp.pos
    <3>1. CASE sp.pending = 0
      BY <3>1, <2>1, <2>2, <1>2 DEF StreamInOrder, StreamInv
    <3>2. CASE sp.pending # 0
      <4>1. /\ SentThen = Append(sp.sent, sp.pending) /\ sp.pending = sp.pos
            /\ \A j \in DOMAIN sp.sent : sp.sent[j] < sp.pending
            /\ \A j, k \in DOMAIN sp.sent : j < k => sp.sent[j] < sp.sent[k]
            /\ ~sp.resumed => Len(sp.sent) + 1 = sp.pos
        BY <3>2, <2>1, <2>2, <1>2 DEF StreamInOrder, StreamInv
      <4>2. /\ SentThen \in Seq(Nat) /\ Len(SentThen) = Len(sp.sent) + 1
            /\ \A j \in 1 .. Len(sp.sent) : SentThen[j] = sp.sent[j]
            /\ SentThen[Len(sp.sent) + 1] = sp.pending
            /\ DOMAIN SentThen = 1 .. Len(sp.sent) + 1 /\ DOMAIN sp.sent = 1 .. Len(sp.sent)
            /\ Len(sp.sent) \in Nat /\ \A j \in DOMAIN sp.sent : sp.sent[j] \in Nat
        BY <4>1, <2>1
      <4> QED BY <4>1, <4>2, <2>1
    <3> QED BY <3>1, <3>2
  <2>4. /\ sp' = [sp EXCEPT !.pos = n, !.sent = then, !.pending = IF room THEN 0 ELSE n]
        /\ n \in Nat \ {0} /\ n > sp.pos /\ n = sp.pos + 1
    BY <1>9, <2>1 DEF StreamChunk
  <2>5. then = IF room THEN Append(SentThen, n) ELSE SentThen
    OBVIOUS
  <2> HIDE DEF n, room, then
  <2>6. then \in Seq(Nat)
    BY <2>3, <2>4, <2>5
  <2>7. /\ StreamType' /\ sp'.file = sp.file /\ sp'.resumed = sp.resumed
        /\ sp'.pos = n /\ sp'.sent = then /\ sp'.pending = IF room THEN 0 ELSE n
    BY <2>4, <2>6, <1>2 DEF StreamType
  <2>8. StreamInOrder'
    <3>1. \A j, k \in DOMAIN then : j < k => then[j] < then[k]
      BY <2>1, <2>3, <2>4, <2>5
    <3>2. ~sp.resumed => Len(then) + (IF room THEN 0 ELSE 1) = n
      BY <2>1, <2>3, <2>4, <2>5
    <3> QED BY <3>1, <3>2, <2>4, <2>7 DEF StreamInOrder
  <2>9. StreamInv'
    BY <2>1, <2>3, <2>4, <2>5, <2>6, <2>7 DEF StreamInv
  <2> QED BY <2>1, <2>7, <2>8, <2>9, <1>1, StreamFrame
<1>10. CASE StreamEnds
  <2>1. StreamType' /\ sp'.file = None
    BY <1>10, <1>2, <1>e DEF StreamEnds, StreamType
  <2> QED BY <2>1, <1>1, StreamFrame DEF StreamInOrder, StreamInv
<1> QED BY <1>1, <1>4, <1>5, <1>6, <1>7, <1>8, <1>9, <1>10 DEF StreamStep
-----------------------------------------------------------------------------
(* The player with a decoder thread *)

LEMMA ThreadFrame ==
  ASSUME IInv, app = "thread", UNCHANGED <<sp, va, app>>,
         at' \in [Threads -> Labels], ThreadType', ThreadInv'
  PROVE  IInv'
<1>1. TypeOK'
  BY TypesKept DEF IInv, TypeOK
<1>2. StreamInOrder' /\ StreamInv'
  BY DEF IInv, StreamInOrder, StreamInv
<1>3. IdleInv' /\ VoiceInv'
  BY DEF IdleInv, VoiceInv
<1> QED BY <1>1, <1>2, <1>3 DEF IInv

LEMMA ThreadUiStepKeeps == IInv /\ ThreadUiStep => IInv'
<1> SUFFICES ASSUME IInv, ThreadUiStep PROVE IInv'
  OBVIOUS
<1>1. /\ app = "thread" /\ UNCHANGED <<sp, va, app>>
      /\ ThreadUi \/ ThreadDeinitStops
  BY DEF ThreadUiStep
<1>2. at \in [Threads -> Labels] /\ ThreadType /\ ThreadInv
  BY DEF IInv, TypeOK
<1>3. ASSUME NEW why \in {"select", "pause", "deinit"}, NEW f \in Tracks \cup {NULL},
             StopThread(why, f)
      PROVE  IInv'
  <2>1. /\ ThreadType' /\ UNCHANGED at /\ tp.waits = "no" /\ tp.playing
        /\ tp'.waits = why /\ ~tp'.playing /\ tp'.handle = tp.handle
    BY <1>3, <1>2 DEF StopThread, StopFlag, ThreadType
  <2>2. ThreadInv'
    BY <2>1, <1>1, <1>2 DEF ThreadInv
  <2> QED BY <2>1, <2>2, <1>1, <1>2, ThreadFrame
<1>4. ASSUME NEW f \in Tracks, SelectIdle(f) PROVE IInv'
  <2>1. /\ ThreadType' /\ UNCHANGED at
        /\ tp'.waits = tp.waits /\ tp'.playing = tp.playing /\ tp'.handle = tp.handle
    BY <1>4, <1>2 DEF SelectIdle, ThreadType
  <2>2. ThreadInv'
    BY <2>1, <1>1, <1>2 DEF ThreadInv
  <2> QED BY <2>1, <2>2, <1>1, <1>2, ThreadFrame
<1>5. CASE ThreadJoined
  <2>1. /\ ThreadType' /\ UNCHANGED at /\ tp.handle \notin Lingering
        /\ tp'.waits = "no" /\ tp'.playing = tp.playing
    BY <1>5, <1>2 DEF ThreadJoined, Over, Joined, ThreadType
  <2>2. \A t \in Threads : at[t] \in Leaving
    BY <2>1, <1>1, <1>2 DEF ThreadInv, Lingering, Alive, Leaving
  <2>3. ThreadInv'
    BY <2>1, <2>2, <1>1 DEF ThreadInv
  <2> QED BY <2>1, <2>3, <1>1, <1>2, ThreadFrame
<1>6. CASE StartThread
  <2>1. \A t \in Threads : at[t] \in Leaving
    BY <1>6, <1>1, <1>2 DEF StartThread, ThreadInv
  <2>2. ASSUME NEW h \in Threads, Create(h),
               tp' = [tp EXCEPT !.playing = TRUE, !.handle = h, !.run[h] = Nothing]
        PROVE  IInv'
    <3>1. at' = [at EXCEPT ![h] = "start"]
      BY <2>2 DEF Create
    <3>2. [tp.run EXCEPT ![h] = Nothing] \in
            [Threads -> [track : Tracks \cup {NULL}, pos : Nat]]
      BY <1>2 DEF ThreadType, Nothing
    <3>3. ThreadType' /\ tp'.playing /\ tp'.handle = h /\ tp'.waits = tp.waits
      BY <2>2, <3>2, <1>2 DEF ThreadType
    <3>4. at' \in [Threads -> Labels]
      BY <3>1, <1>2 DEF Labels
    <3>5. ThreadInv'
      BY <3>1, <3>3, <2>1, <1>1, <1>2, <1>6 DEF ThreadInv, StartThread
    <3> QED BY <3>3, <3>4, <3>5, <1>1, ThreadFrame
  <2>3. CASE tp' = [tp EXCEPT !.playing = TRUE] /\ UNCHANGED at
    <3>1. ThreadType' /\ tp'.waits = "no"
      BY <2>3, <1>2, <1>6 DEF StartThread, ThreadType
    <3>2. ThreadInv'
      BY <2>3, <3>1, <2>1 DEF ThreadInv
    <3> QED BY <2>3, <3>1, <3>2, <1>1, <1>2, ThreadFrame
  <2> QED BY <1>6, <2>2, <2>3 DEF StartThread
<1>7. tp.listed \subseteq Tracks
  BY <1>2 DEF ThreadType
<1> QED BY <1>1, <1>3, <1>4, <1>5, <1>6, <1>7 DEF ThreadUi, ThreadDeinitStops

LEMMA DecoderStepKeeps ==
  ASSUME IInv, NEW t \in Threads, app = "thread", playback_thread_fn(t),
         UNCHANGED <<sp, va, app>>
  PROVE  IInv'
<1>1. at \in [Threads -> Labels] /\ ThreadType /\ ThreadInv
  BY DEF IInv, TypeOK
<1>2. /\ tp.playing \in BOOLEAN /\ tp.current \in Tracks \cup {NULL}
      /\ tp.run \in [Threads -> [track : Tracks \cup {NULL}, pos : Nat]]
  BY <1>1 DEF ThreadType
\* A thread that goes on where it has not given the flag back.
<1>3. ASSUME NEW l \in Labels, at' = [at EXCEPT ![t] = l], at[t] \notin Leaving,
             ThreadType', tp'.playing = tp.playing, tp'.handle = tp.handle,
             tp'.waits = tp.waits
      PROVE  IInv'
  <2>1. at' \in [Threads -> Labels]
    BY <1>1, <1>3
  <2>2. ThreadInv'
    BY <1>1, <1>3 DEF ThreadInv
  <2> QED BY <2>1, <2>2, <1>3, ThreadFrame
\* One that goes on after that.
<1>4. ASSUME NEW l \in Leaving, at' = [at EXCEPT ![t] = l], UNCHANGED tp PROVE IInv'
  <2>1. at' \in [Threads -> Labels]
    BY <1>1, <1>4 DEF Labels, Leaving
  <2>2. ThreadInv'
    BY <1>1, <1>4 DEF ThreadInv
  <2> QED BY <2>1, <2>2, <1>1, <1>4, TypesKept, ThreadFrame
<1>5. CASE Opens(t)
  <2> DEFINE r == [track |-> tp.current, pos |-> 0]
             l == IF tp.current \in Unreadable THEN "clear"
                  ELSE IF tp.current \in Mp3 THEN "probed" ELSE "check"
  <2>1. /\ at[t] = "start" /\ at' = [at EXCEPT ![t] = l]
        /\ tp' = [tp EXCEPT !.run = [tp.run EXCEPT ![t] = r]]
    BY <1>5 DEF Opens, Goto
  <2>2. l \in Labels /\ r \in [track : Tracks \cup {NULL}, pos : Nat]
    BY <1>2 DEF Labels
  <2> HIDE DEF l, r
  <2>3. [tp.run EXCEPT ![t] = r] \in [Threads -> [track : Tracks \cup {NULL}, pos : Nat]]
    BY <2>2, <1>2
  <2>4. /\ ThreadType' /\ tp'.playing = tp.playing /\ tp'.handle = tp.handle
        /\ tp'.waits = tp.waits
    BY <2>1, <2>3, <1>1 DEF ThreadType
  <2> QED BY <2>1, <2>2, <2>4, <1>3 DEF Leaving
<1>6. CASE Feeds(t)
  <2> DEFINE n == IF at[t] = "again" THEN 1 ELSE tp.run[t].pos + 1
  <2>1. /\ at[t] \in {"feed", "again"} /\ at' = [at EXCEPT ![t] = "check"]
        /\ \/ tp' = tp
           \/ tp' = [tp EXCEPT !.run = [tp.run EXCEPT ![t] = [tp.run[t] EXCEPT !.pos = n]]]
    BY <1>6 DEF Feeds, Goto
  <2>2. n \in Nat
    BY <1>2
  <2> HIDE DEF n
  <2>3. /\ ThreadType' /\ tp'.playing = tp.playing /\ tp'.handle = tp.handle
        /\ tp'.waits = tp.waits
    <3>1. CASE tp' = tp
      BY <3>1, <1>1, TypesKept
    <3>2. CASE tp' = [tp EXCEPT !.run = [tp.run EXCEPT ![t] = [tp.run[t] EXCEPT !.pos = n]]]
      <4>1. [tp.run[t] EXCEPT !.pos = n] \in [track : Tracks \cup {NULL}, pos : Nat]
        BY <2>2, <1>2
      <4>2. [tp.run EXCEPT ![t] = [tp.run[t] EXCEPT !.pos = n]]
              \in [Threads -> [track : Tracks \cup {NULL}, pos : Nat]]
        BY <4>1, <1>2
      <4> QED BY <3>2, <4>2, <1>1 DEF ThreadType
    <3> QED BY <2>1, <3>1, <3>2
  <2>4. "check" \in Labels
    BY DEF Labels
  <2> QED BY <2>1, <2>3, <2>4, <1>3 DEF Leaving
<1>7. CASE LooksAtFlag(t) \/ EndsTrack(t) \/ GoesRound(t)
  <2>1. PICK l \in {"clear", "again", "feed", "check"} :
          /\ at[t] \in {"check", "probed", "feed"} /\ at' = [at EXCEPT ![t] = l]
          /\ UNCHANGED tp
    BY <1>7 DEF LooksAtFlag, EndsTrack, GoesRound, Goto
  <2>2. l \in Labels
    BY DEF Labels
  <2> QED BY <2>1, <2>2, <1>1, <1>3, TypesKept DEF Leaving
<1>8. CASE ClearsFlag(t)
  <2>1. /\ at[t] = "clear" /\ at' = [at EXCEPT ![t] = "close"]
        /\ ThreadType' /\ ~tp'.playing /\ tp'.waits = tp.waits
    BY <1>8, <1>1 DEF ClearsFlag, Goto, ThreadType
  <2>2. at' \in [Threads -> Labels]
    BY <2>1, <1>1 DEF Labels
  <2>3. \A u \in Threads \ {t} : at[u] \in Leaving
    BY <2>1, <1>1 DEF ThreadInv, Leaving
  <2>4. \A u \in Threads : at'[u] \in Leaving
    BY <2>1, <2>3, <1>1 DEF Leaving
  <2>5. ThreadInv'
    BY <2>1, <2>4 DEF ThreadInv
  <2> QED BY <2>1, <2>2, <2>5, ThreadFrame
<1>9. CASE Closes(t) \/ ShowsStopped(t)
  <2>1. PICK l \in Leaving : at' = [at EXCEPT ![t] = l] /\ UNCHANGED tp
    BY <1>9 DEF Closes, ShowsStopped, Goto, Leaving
  <2> QED BY <2>1, <1>4
<1> QED BY <1>5, <1>6, <1>7, <1>8, <1>9 DEF playback_thread_fn

-----------------------------------------------------------------------------
(* The voice assistant *)

LEMMA VoiceFrame ==
  ASSUME IInv, app = "voice", UNCHANGED <<sp, tp, app>>,
         at' \in [Threads -> Labels], VoiceType', VoiceInv'
  PROVE  IInv'
<1>1. TypeOK'
  BY TypesKept DEF IInv, TypeOK
<1>2. StreamInOrder' /\ StreamInv'
  BY DEF IInv, StreamInOrder, StreamInv
<1>3. IdleInv' /\ ThreadInv'
  BY DEF IdleInv, ThreadInv
<1> QED BY <1>1, <1>2, <1>3 DEF IInv

LEMMA VoiceUiStepKeeps == IInv /\ VoiceUiStep => IInv'
<1> SUFFICES ASSUME IInv, VoiceUiStep PROVE IInv'
  OBVIOUS
<1>1. /\ app = "voice" /\ UNCHANGED <<sp, tp, app>>
      /\ VoiceUi \/ VoiceDeinitStops
  BY DEF VoiceUiStep
<1>2. at \in [Threads -> Labels] /\ VoiceType /\ VoiceInv
  BY DEF IInv, TypeOK
<1>3. CASE PressTalk
  <2>1. /\ VoiceType' /\ va'.recording /\ va'.waits = "no" /\ va'.loose = va.loose
    BY <1>3, <1>2 DEF PressTalk, VoiceType
  <2>2. \A t \in Threads : Alive(t) => t \in va.loose
    BY <1>3, <1>1, <1>2 DEF PressTalk, VoiceInv
  <2>3. CASE UNCHANGED at
    <3>1. VoiceInv'
      BY <2>1, <2>2, <2>3, <1>1, <1>2 DEF VoiceInv, Alive, Lingering
    <3> QED BY <2>1, <2>3, <3>1, <1>1, <1>2, VoiceFrame
  <2>4. ASSUME NEW h \in Threads, Create(h), va'.handle = h PROVE IInv'
    <3>1. at' = [at EXCEPT ![h] = "start"]
      BY <2>4 DEF Create
    <3>2. at' \in [Threads -> Labels]
      BY <3>1, <1>2 DEF Labels
    <3>3. \A t \in Threads : at'[t] = IF t = h THEN "start" ELSE at[t]
      BY <3>1, <1>2
    <3>4. VoiceInv'
      BY <2>1, <2>2, <2>4, <3>3, <1>1, <1>2 DEF VoiceInv, Alive, Lingering
    <3> QED BY <2>1, <3>2, <3>4, <1>1, VoiceFrame
  <2>5. UNCHANGED at \/ \E h \in Threads : Create(h) /\ va'.handle = h
    BY <1>3, <1>2 DEF PressTalk, VoiceType
  <2> QED BY <2>3, <2>4, <2>5
<1>4. CASE ReleaseTalk \/ VoiceDeinitStops
  <2>1. /\ VoiceType' /\ UNCHANGED at /\ ~va'.recording
        /\ va'.waits # "no" /\ va'.handle = va.handle /\ va'.loose = va.loose
    BY <1>4, <1>2 DEF ReleaseTalk, VoiceDeinitStops, VoiceType
  <2>2. VoiceInv'
    BY <2>1, <1>1, <1>2 DEF VoiceInv, Alive, Lingering
  <2> QED BY <2>1, <2>2, <1>1, <1>2, VoiceFrame
<1>5. CASE TalkEnds
  <2>1. /\ VoiceType' /\ UNCHANGED at /\ va.handle \notin Lingering
        /\ va'.waits = "no" /\ va'.loose = va.loose
    BY <1>5, <1>2 DEF TalkEnds, Joined, VoiceType
  <2>2. \A t \in Threads : Alive(t) => t \in va.loose
    BY <2>1, <1>1, <1>2 DEF VoiceInv, Lingering
  <2>3. VoiceInv'
    BY <2>1, <2>2, <1>1, <1>2 DEF VoiceInv, Alive, Lingering
  <2> QED BY <2>1, <2>3, <1>1, <1>2, VoiceFrame
<1> QED BY <1>1, <1>3, <1>4, <1>5 DEF VoiceUi

LEMMA StreamingStepKeeps ==
  ASSUME IInv, NEW t \in Threads, app = "voice",
         stream_thread_fn(t) \/ NetworkAnswers(t), UNCHANGED <<sp, tp, app>>
  PROVE  IInv'
<1>1. at \in [Threads -> Labels] /\ VoiceType /\ VoiceInv
  BY DEF IInv, TypeOK
\* A thread that goes on.
<1>2. ASSUME NEW l \in Labels \ {"off"}, at' = [at EXCEPT ![t] = l], Alive(t),
             VoiceType', va'.recording = va.recording, va'.waits = va.waits,
             va'.handle = va.handle, va'.loose = va.loose
      PROVE  IInv'
  <2>1. at' \in [Threads -> Labels]
    BY <1>1, <1>2
  <2>2. \A u \in Threads : Alive(u)' <=> Alive(u)
    BY <1>1, <1>2 DEF Alive
  <2>3. VoiceInv'
    BY <2>2, <1>1, <1>2 DEF VoiceInv, Lingering
  <2> QED BY <2>1, <2>3, <1>2, VoiceFrame
<1>3. CASE SetsUp(t)
  <2>1. /\ at[t] = "start" /\ at' = [at EXCEPT ![t] = "connect"]
        /\ VoiceType' /\ va'.recording = va.recording /\ va'.waits = va.waits
        /\ va'.handle = va.handle /\ va'.loose = va.loose
    BY <1>3, <1>1 DEF SetsUp, Goto, VoiceType
  <2> QED BY <2>1, <1>2 DEF Labels, Alive
<1>4. CASE \/ LooksAtRecording(t) \/ Captures(t) \/ PassesBy(t) \/ PlaysReply(t)
           \/ ClosesOut(t) \/ NetworkAnswers(t)
  <2>1. PICK l \in Labels \ {"off"} : at' = [at EXCEPT ![t] = l]
    BY <1>4 DEF LooksAtRecording, Captures, PassesBy, PlaysReply, ClosesOut,
                NetworkAnswers, Connects, Sends, HangsUp, Goto, Labels
  <2>2. at[t] # "off" /\ UNCHANGED va
    BY <1>4 DEF LooksAtRecording, Captures, PassesBy, PlaysReply, ClosesOut,
                NetworkAnswers, Connects, Sends, HangsUp
  <2> QED BY <2>1, <2>2, <1>1, <1>2, TypesKept DEF Alive
<1>5. CASE ServerDone(t)
  <2>1. /\ at[t] = "receive" /\ at' = [at EXCEPT ![t] = "check"]
        /\ va' = [va EXCEPT !.recording = FALSE, !.loose = Lingering]
    BY <1>5 DEF ServerDone, Goto
  <2>2. Lingering \in SUBSET Threads
    BY DEF Lingering
  <2>3. VoiceType' /\ ~va'.recording /\ va'.loose = Lingering
    BY <2>1, <2>2, <1>1 DEF VoiceType
  <2>4. at' \in [Threads -> Labels]
    BY <2>1, <1>1 DEF Labels
  <2>5. \A u \in Threads : Alive(u)' <=> Alive(u)
    BY <2>1, <1>1 DEF Alive
  <2>6. VoiceInv'
    BY <2>3, <2>5 DEF VoiceInv, Lingering
  <2> QED BY <2>3, <2>4, <2>6, VoiceFrame
<1>6. CASE ForgetsOutput(t)
  <2>1. /\ at' = [at EXCEPT ![t] = "off"]
        /\ VoiceType' /\ va'.recording = va.recording /\ va'.waits = va.waits
        /\ va'.handle = va.handle /\ va'.loose = va.loose \ {t}
    BY <1>6, <1>1 DEF ForgetsOutput, Goto, VoiceType
  <2>2. at' \in [Threads -> Labels]
    BY <2>1, <1>1 DEF Labels
  <2>3. \A u \in Threads : Alive(u)' <=> Alive(u) /\ u # t
    BY <2>1, <1>1 DEF Alive
  <2>4. VoiceInv'
    BY <2>1, <2>3, <1>1 DEF VoiceInv, Lingering
  <2> QED BY <2>1, <2>2, <2>4, VoiceFrame
<1> QED BY <1>3, <1>4, <1>5, <1>6 DEF stream_thread_fn

-----------------------------------------------------------------------------
(* One app after the other *)

LEMMA StartsAreTyped ==
  /\ \A L \in SUBSET Files : StreamStart(L).file = None
  /\ \A L \in SUBSET Files :
       StreamStart(L) \in [listed : SUBSET Files, current : Files \cup {None},
          playing : BOOLEAN, timer : BOOLEAN, out : BOOLEAN, file : Files \cup {None},
          pos : Nat, pending : Nat, sent : Seq(Nat), resumed : BOOLEAN]
  /\ \A L \in SUBSET Tracks :
       /\ ThreadStart(L).waits = "no" /\ ~ThreadStart(L).playing
       /\ ThreadStart(L) \in [listed : SUBSET Tracks, current : Tracks \cup {NULL},
          playing : BOOLEAN, handle : Threads \cup {NULL},
          waits : {"no", "select", "pause", "deinit"}, chosen : Tracks \cup {NULL},
          run : [Threads -> [track : Tracks \cup {NULL}, pos : Nat]]]
  /\ VoiceStart.waits = "no" /\ ~VoiceStart.recording /\ VoiceStart.loose = {}
  /\ VoiceStart \in [recording : BOOLEAN, handle : Threads \cup {NULL}, out : BOOLEAN,
          label : {"Hold to Talk", "Listening...", "Processing..."},
          waits : {"no", "release", "deinit"}, loose : SUBSET Threads]
<1>1. <<>> \in Seq(Nat)
  OBVIOUS
<1>2. [t \in Threads |-> Nothing] \in [Threads -> [track : Tracks \cup {NULL}, pos : Nat]]
  BY DEF Nothing
<1>3. \A L \in SUBSET Files : StreamStart(L).file = None
  BY DEF StreamStart
<1>4. \A L \in SUBSET Files :
       StreamStart(L) \in [listed : SUBSET Files, current : Files \cup {None},
          playing : BOOLEAN, timer : BOOLEAN, out : BOOLEAN, file : Files \cup {None},
          pos : Nat, pending : Nat, sent : Seq(Nat), resumed : BOOLEAN]
  BY <1>1 DEF StreamStart
<1>5. \A L \in SUBSET Tracks :
       /\ ThreadStart(L).waits = "no" /\ ~ThreadStart(L).playing
       /\ ThreadStart(L) \in [listed : SUBSET Tracks, current : Tracks \cup {NULL},
          playing : BOOLEAN, handle : Threads \cup {NULL},
          waits : {"no", "select", "pause", "deinit"}, chosen : Tracks \cup {NULL},
          run : [Threads -> [track : Tracks \cup {NULL}, pos : Nat]]]
  BY <1>2 DEF ThreadStart
<1> QED BY <1>3, <1>4, <1>5 DEF VoiceStart

LEMMA AppsInit == Init => IInv
<1> SUFFICES ASSUME Init PROVE IInv
  OBVIOUS
<1>1. at \in [Threads -> Labels] /\ Lingering = {}
  BY DEF Init, Labels, Lingering, Alive
<1>2. StreamType /\ ThreadType /\ VoiceType /\ sp.file = None
  BY StartsAreTyped DEF Init, StreamType, ThreadType, VoiceType
<1>3. TypeOK
  BY <1>1, <1>2 DEF TypeOK, Init
<1>4. StreamInOrder /\ StreamInv
  BY <1>2 DEF StreamInOrder, StreamInv
<1>5. app = "none"
  BY DEF Init
<1> QED BY <1>1, <1>3, <1>4, <1>5 DEF IInv, IdleInv, ThreadInv, VoiceInv

LEMMA LaunchKeeps == IInv /\ Launch => IInv'
<1> SUFFICES ASSUME IInv, Launch PROVE IInv'
  OBVIOUS
<1>1. at \in [Threads -> Labels] /\ StreamType /\ ThreadType /\ VoiceType
  BY DEF IInv, TypeOK
<1>2. app = "none" /\ UNCHANGED at
  BY DEF Launch, ThreadMain, VoiceMain
<1>3. \A t \in Threads : at[t] = "off" /\ at'[t] = "off"
  BY <1>2 DEF IInv, IdleInv, Lingering, Alive
<1>4. Lingering' = {}
  BY <1>3 DEF Lingering, Alive
<1>5. StreamInOrder /\ StreamInv
  BY DEF IInv
<1>6. CASE app' = "stream" /\ StreamMain /\ UNCHANGED <<tp, va>>
  <2>1. StreamType' /\ sp'.file = None
    BY <1>6, StartsAreTyped DEF StreamMain, Listings, StreamType
  <2>2. TypeOK'
    BY <2>1, <1>1, <1>2, <1>6, TypesKept DEF TypeOK
  <2>3. StreamInOrder' /\ StreamInv'
    BY <2>1 DEF StreamInOrder, StreamInv
  <2> QED BY <2>2, <2>3, <1>4, <1>6 DEF IInv, IdleInv, ThreadInv, VoiceInv
<1>7. CASE app' = "thread" /\ ThreadMain /\ UNCHANGED <<sp, va>>
  <2>1. ThreadType' /\ tp'.waits = "no"
    BY <1>7, StartsAreTyped DEF ThreadMain, ThreadType
  <2>2. TypeOK'
    BY <2>1, <1>1, <1>2, <1>7, TypesKept DEF TypeOK
  <2>3. StreamInOrder' /\ StreamInv'
    BY <1>5, <1>7 DEF StreamInOrder, StreamInv
  <2>4. ThreadInv'
    BY <2>1, <1>3 DEF ThreadInv, Leaving
  <2> QED BY <2>2, <2>3, <2>4, <1>7 DEF IInv, IdleInv, VoiceInv
<1>8. CASE app' = "voice" /\ VoiceMain /\ UNCHANGED <<sp, tp>>
  <2>1. VoiceType' /\ va'.waits = "no" /\ va'.loose = {}
    BY <1>8, StartsAreTyped DEF VoiceMain, VoiceType
  <2>2. TypeOK'
    BY <2>1, <1>1, <1>2, <1>8, TypesKept DEF TypeOK
  <2>3. StreamInOrder' /\ StreamInv'
    BY <1>5, <1>8 DEF StreamInOrder, StreamInv
  <2>4. VoiceInv'
    BY <2>1, <1>3 DEF VoiceInv, Alive
  <2> QED BY <2>2, <2>3, <2>4, <1>8 DEF IInv, IdleInv, ThreadInv
<1> QED BY <1>6, <1>7, <1>8 DEF Launch

LEMMA UnloadKeeps == IInv /\ (Unload \/ ForceUnload) => IInv'
<1> SUFFICES ASSUME IInv, Unload \/ ForceUnload PROVE IInv'
  OBVIOUS
<1>1. /\ app' = "none" /\ at' = [t \in Threads |-> "off"]
      /\ sp' = StreamStart({}) /\ tp' = ThreadStart({}) /\ va' = VoiceStart
  BY DEF Unload, ForceUnload, Removed
<1>2. at' \in [Threads -> Labels] /\ Lingering' = {}
  BY <1>1 DEF Labels, Lingering, Alive
<1>3. StreamType' /\ ThreadType' /\ VoiceType' /\ sp'.file = None
  BY <1>1, StartsAreTyped DEF StreamType, ThreadType, VoiceType
<1>4. TypeOK'
  BY <1>1, <1>2, <1>3 DEF TypeOK
<1>5. StreamInOrder' /\ StreamInv'
  BY <1>3 DEF StreamInOrder, StreamInv
<1> QED BY <1>1, <1>2, <1>4, <1>5 DEF IInv, IdleInv, ThreadInv, VoiceInv

LEMMA AppsNext == IInv /\ [Next]_vars => IInv'
<1> SUFFICES ASSUME IInv, [Next]_vars PROVE IInv'
  OBVIOUS
<1>1. CASE Dma \/ UNCHANGED vars
  <2>1. UNCHANGED <<at, sp, tp, va, app>>
    BY <1>1 DEF Dma, vars
  <2>2. TypeOK'
    BY <2>1, TypesKept DEF IInv, TypeOK
  <2>3. StreamInOrder' /\ StreamInv' /\ ThreadInv' /\ VoiceInv' /\ IdleInv'
    BY <2>1 DEF IInv, StreamInOrder, StreamInv, ThreadInv, VoiceInv, IdleInv, Lingering, Alive
  <2> QED BY <2>2, <2>3 DEF IInv
<1>2. ASSUME NEW t \in Threads, Thread(t) \/ Network(t) PROVE IInv'
  BY <1>2, DecoderStepKeeps, StreamingStepKeeps DEF Thread, Network
<1> QED BY <1>1, <1>2, LaunchKeeps, UnloadKeeps, StreamStepKeeps, ThreadUiStepKeeps,
           VoiceUiStepKeeps DEF Next

LEMMA AppsInvariant == Spec => []IInv
  BY AppsInit, AppsNext, PTL DEF Spec

\* The chunks of a file are fed in its order, and none is left out but the one
\* that Resume drops (src/apps/app_audio.c:140).
THEOREM FilePlayedInOrder == Spec => []StreamInOrder
<1>1. IInv => StreamInOrder
  BY DEF IInv
<1> QED BY <1>1, AppsInvariant, PTL

\* The handle is that of the decoder that has not given the flag back, and of
\* the streaming thread that runs; closing decoders and the streams that the
\* server ended are not in it.
THEOREM OneThreadToJoin == Spec => []ThreadIsJoinable
<1>1. ASSUME IInv PROVE ThreadIsJoinable
  BY <1>1 DEF IInv, ThreadInv, VoiceInv, ThreadIsJoinable
<1> QED BY <1>1, AppsInvariant, PTL

\* When app_deinit returns it leaves no thread, but closing decoders and the
\* streams that the server ended.
THEOREM NoThreadLeftBehind == Spec => []DeinitLeavesNoThread
<1>1. ASSUME IInv PROVE DeinitLeavesNoThread
  <2>1. ASSUME app = "thread", ThreadDeinitDone, NEW t \in Threads
        PROVE  at[t] \in Leaving
    <3>1. tp.handle \notin Lingering \/ (tp.waits = "no" /\ ~tp.playing)
      BY <2>1 DEF ThreadDeinitDone, Over, Joined
    <3> QED BY <3>1, <2>1, <1>1 DEF IInv, ThreadInv, Lingering, Alive, Leaving
  <2>2. ASSUME app = "voice", VoiceDeinitDone, NEW t \in Lingering
        PROVE  t \in va.loose
    <3>1. va.handle \notin Lingering \/ (va.waits = "no" /\ ~va.recording)
      BY <2>2 DEF VoiceDeinitDone, Joined
    <3> QED BY <3>1, <2>2, <1>1 DEF IInv, VoiceInv, Lingering
  <2> QED BY <2>1, <2>2 DEF DeinitLeavesNoThread
<1> QED BY <1>1, AppsInvariant, PTL
=============================================================================
