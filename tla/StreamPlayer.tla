---------------------------- MODULE StreamPlayer ----------------------------
(***************************************************************************)
(* The audio player without threads (src/apps/app_audio.c).  A timer of    *)
(* 20 ms moves one chunk from the file to the ring buffer and keeps it for *)
(* the next tick when the ring is full.  Timer and event handlers run in   *)
(* the UI task, one after the other.                                       *)
(***************************************************************************)
EXTENDS AudioService, Sequences, FiniteSets

CONSTANTS
  Files,       \* names in /media
  Broken,      \* those that are no WAV or cannot be opened
  FileChunks,  \* chunks of a file
  MaxFiles,    \* MAX_FILES
  None

ASSUME StreamAssumption == FileChunks \in Nat /\ MaxFiles \in Nat /\ None \notin Files

\* sp: the statics of the app and, about the open file,
\*   pos      chunks read
\*   sent     numbers of the chunks the ring accepted, in that order
\*   resumed  was a chunk pending when Resume was tapped?
VARIABLE sp

\* scan_media_dir lists the first MaxFiles names that end in .wav.
Listings == {L \in SUBSET Files : Cardinality(L) <= MaxFiles}

StreamStart(L) ==
  [listed |-> L, current |-> None, playing |-> FALSE, timer |-> FALSE, out |-> FALSE,
   file |-> None, pos |-> 0, pending |-> 0, sent |-> <<>>, resumed |-> FALSE]

\* app_main builds the screen from the listing and returns.
StreamMain == \E L \in Listings : sp' = StreamStart(L) /\ UNCHANGED audio

-----------------------------------------------------------------------------
(* on_file_selected *)

\* audio.close is called if there ever was an output.
Deselects == IF sp.out THEN CloseRing(ring) ELSE UNCHANGED audio

SelectFile(f) ==
  /\ f \in sp.listed
  /\ Deselects
  /\ sp' = [sp EXCEPT !.playing = FALSE, !.timer = FALSE, !.out = FALSE, !.file = None,
                      !.current = f, !.pos = 0, !.sent = <<>>, !.resumed = FALSE]

-----------------------------------------------------------------------------
(* on_play_pause *)

Pause ==
  /\ sp.playing
  /\ sp' = [sp EXCEPT !.playing = FALSE, !.timer = FALSE]
  /\ UNCHANGED audio

\* Nothing selected, or the file does not open or is no WAV.
CannotPlay ==
  /\ ~sp.playing
  /\ sp.current = None \/ (sp.file = None /\ sp.current \in Broken)
  /\ UNCHANGED <<sp, audio>>

Play ==
  /\ ~sp.playing /\ sp.file = None /\ sp.current \in Files \ Broken
  /\ sp' = [sp EXCEPT !.file = sp.current, !.pos = 0, !.sent = <<>>, !.resumed = FALSE,
                      !.out = TRUE, !.playing = TRUE, !.timer = TRUE, !.pending = 0]
  /\ UNCHANGED audio

\* The pending chunk is forgotten (line 140).
Resume ==
  /\ ~sp.playing /\ sp.file # None
  /\ sp' = [sp EXCEPT !.playing = TRUE, !.timer = TRUE, !.pending = 0,
                      !.resumed = @ \/ sp.pending # 0]
  /\ UNCHANGED audio

-----------------------------------------------------------------------------
(* stream_timer_cb *)

\* Variant with a bug: a tick reads on although its chunk is still pending.
ReadsOn_Always(flushed) == TRUE

ReadsOn(flushed) == flushed

\* The tick's first step: the pending chunk is flushed if there is room.
Flushed == sp.pending = 0 \/ ~Full
SentThen == IF sp.pending # 0 /\ ~Full THEN Append(sp.sent, sp.pending) ELSE sp.sent
RingThen == IF sp.pending # 0 /\ ~Full THEN ring + 1 ELSE ring

Ticks == sp.timer /\ sp.playing /\ sp.file # None /\ sp.out

StillFull ==
  /\ Ticks /\ ~ReadsOn(Flushed)
  /\ UNCHANGED <<sp, audio>>

\* The next chunk is read, and written or kept.
StreamChunk ==
  /\ Ticks /\ ReadsOn(Flushed) /\ sp.pos < FileChunks
  /\ LET n == sp.pos + 1
         room == RingThen < RingChunks
     IN /\ ring' = IF room THEN RingThen + 1 ELSE RingThen
        /\ UNCHANGED held
        /\ sp' = [sp EXCEPT !.pos = n,
                            !.sent = IF room THEN Append(SentThen, n) ELSE SentThen,
                            !.pending = IF room THEN 0 ELSE n]

\* End of the file, or a read that fails.  The output handle is kept.
StreamEnds ==
  /\ Ticks /\ ReadsOn(Flushed)
  /\ CloseRing(RingThen)
  /\ sp' = [sp EXCEPT !.playing = FALSE, !.timer = FALSE, !.file = None,
                      !.pending = 0, !.pos = 0, !.sent = <<>>, !.resumed = FALSE]

-----------------------------------------------------------------------------
\* app_deinit.
StreamDeinit == Deselects

StreamStep ==
  \/ \E f \in Files : SelectFile(f)
  \/ Pause \/ CannotPlay \/ Play \/ Resume
  \/ StillFull \/ StreamChunk \/ StreamEnds
=============================================================================
