---------------------------- MODULE ThreadPlayer ----------------------------
(***************************************************************************)
(* The media player with a decoder thread (apps/audio/app_audio.c).  The   *)
(* handlers of the UI task set a flag, create the thread and join it; the  *)
(* thread, when it ends by itself, clears the flag and cleans up, and the  *)
(* handlers may start the next thread in the meantime.                     *)
(***************************************************************************)
EXTENDS AudioService, AppThreads, FiniteSets

CONSTANTS
  Tracks,       \* names in /media
  Mp3,          \* those that are MP3; the others are WAV
  Unreadable,   \* those that do not open or have no valid header
  TrackChunks,  \* chunks of a track
  MaxTracks     \* MAX_FILES

ASSUME TrackAssumption ==
  Mp3 \subseteq Tracks /\ TrackChunks \in Nat \ {0} /\ NULL \notin Tracks

\* tp: g_current_idx, g_is_playing, g_playback_thread of the app, what its UI
\* task waits for in thread_join ("no", "select", "pause" or "deinit"), and
\*   run[t]  the track thread t plays, and the chunks of it t has read
VARIABLE tp

Nothing == [track |-> NULL, pos |-> 0]

\* app_main with scan_media_dir: the first MaxTracks names of either type.
ThreadStart(L) ==
  [listed |-> L, current |-> NULL, playing |-> FALSE, handle |-> NULL,
   waits |-> "no", chosen |-> NULL, run |-> [t \in Threads |-> Nothing]]

ThreadMain ==
  /\ \E L \in SUBSET Tracks : Cardinality(L) <= MaxTracks /\ tp' = ThreadStart(L)
  /\ UNCHANGED <<audio, at>>

-----------------------------------------------------------------------------
(* The event handlers *)

\* Variant with a bug: the thread is waited for before it is told to end.
StopFlag_Kept == TRUE

StopFlag == FALSE

\* The flag is cleared and the thread joined, for the reason why.
StopThread(why, chosen) ==
  /\ tp.waits = "no" /\ tp.playing
  /\ tp' = [tp EXCEPT !.playing = StopFlag, !.waits = why, !.chosen = chosen]
  /\ UNCHANGED <<audio, at>>

\* Variant with a bug: the handler goes on before the thread has ended.
Over_AtOnce(h) == TRUE

Over(h) == Joined(h)

\* thread_join has returned: the handler ends, with the chosen track if there is one.
ThreadJoined ==
  /\ tp.waits \in {"select", "pause"} /\ Over(tp.handle)
  /\ tp' = [tp EXCEPT !.handle = NULL, !.waits = "no", !.chosen = NULL,
                      !.current = IF tp.waits = "select" THEN tp.chosen ELSE @]
  /\ UNCHANGED <<audio, at>>

SelectIdle(f) ==
  /\ tp.waits = "no" /\ ~tp.playing
  /\ tp' = [tp EXCEPT !.current = f]
  /\ UNCHANGED <<audio, at>>

StartThread ==
  /\ tp.waits = "no" /\ ~tp.playing /\ tp.current # NULL
  /\ \/ \E h \in Threads :
          /\ Create(h)
          /\ tp' = [tp EXCEPT !.playing = TRUE, !.handle = h, !.run[h] = Nothing]
     \/ CannotCreate /\ tp' = [tp EXCEPT !.playing = TRUE] /\ UNCHANGED at
  /\ UNCHANGED audio

-----------------------------------------------------------------------------
(* playback_thread_fn *)

\* Lines 87 to 142: the file is opened, its format found, the output opened.
\* To find the format of an MP3 its first chunk is read into the buffer; the
\* file is then opened again, and the chunk stays in front of what follows.
Opens(t) ==
  /\ at[t] = "start"
  /\ tp' = [tp EXCEPT !.run[t] = [track |-> tp.current, pos |-> 0]]
  /\ Goto(t, IF tp.current \in Unreadable THEN "clear"
             ELSE IF tp.current \in Mp3 THEN "probed" ELSE "check")
  /\ UNCHANGED audio

LooksAtFlag(t) ==
  /\ at[t] \in {"check", "probed"}
  /\ Goto(t, IF ~tp.playing THEN "clear" ELSE IF at[t] = "probed" THEN "again" ELSE "feed")
  /\ UNCHANGED <<audio, tp>>

\* The chunk left from the probe, or the next of the file, is written; a chunk
\* for which there is no room within 100 ms is lost.
Feeds(t) ==
  LET r == tp.run[t]
      n == IF at[t] = "again" THEN 1 ELSE r.pos + 1
  IN /\ at[t] \in {"feed", "again"} /\ n <= TrackChunks
     /\ Accept \/ (Full /\ UNCHANGED audio)
     /\ tp' = IF at[t] = "again" THEN tp ELSE [tp EXCEPT !.run[t].pos = n]
     /\ Goto(t, "check")

\* The file ends or cannot be read, for an MP3 once its buffer is empty.
EndsTrack(t) ==
  /\ at[t] = "feed"
  /\ Goto(t, "clear")
  /\ UNCHANGED <<audio, tp>>

\* An MP3 whose last bytes are no frame: the decoder consumes nothing, the
\* buffer never gets empty, and the loop goes round until it is told to end.
GoesRound(t) ==
  /\ at[t] = "feed" /\ tp.run[t].pos = TrackChunks /\ tp.run[t].track \in Mp3
  /\ Goto(t, "check")
  /\ UNCHANGED <<audio, tp>>

ClearsFlag(t) ==
  /\ at[t] = "clear"
  /\ tp' = [tp EXCEPT !.playing = FALSE]
  /\ Goto(t, "close")
  /\ UNCHANGED audio

\* audio.close, if the output was opened; files and buffers are released.
ClosesOutput(t) == IF tp.run[t].track \in Unreadable THEN UNCHANGED audio ELSE CloseRing(ring)

Closes(t) ==
  /\ at[t] = "close"
  /\ ClosesOutput(t)
  /\ Goto(t, "show")
  /\ UNCHANGED tp

\* The label and the button are set, by calls of the display service; the UI
\* task may wait for this thread in a handler meanwhile.
ShowsStopped(t) ==
  /\ at[t] = "show"
  /\ Goto(t, "off")
  /\ UNCHANGED <<audio, tp>>

\* The places of a thread that has given the flag back.
Leaving == {"off", "close", "show"}

playback_thread_fn(t) ==
  \/ Opens(t) \/ LooksAtFlag(t) \/ Feeds(t) \/ EndsTrack(t) \/ GoesRound(t)
  \/ ClearsFlag(t) \/ Closes(t) \/ ShowsStopped(t)

-----------------------------------------------------------------------------
\* app_deinit: the thread is joined only if the flag is set.
ThreadDeinitStops == StopThread("deinit", NULL)

ThreadDeinitDone ==
  \/ tp.waits = "deinit" /\ Over(tp.handle)
  \/ tp.waits = "no" /\ ~tp.playing

ThreadUi ==
  \/ \E f \in tp.listed : StopThread("select", f) \/ SelectIdle(f)
  \/ StopThread("pause", NULL) \/ ThreadJoined \/ StartThread
=============================================================================
