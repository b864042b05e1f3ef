---------------------------- MODULE AudioService ----------------------------
(***************************************************************************)
(* The audio service (src/svc_audio.c): one output stream over a ring      *)
(* buffer, emptied by the DMA task.  The unit is the chunk an app writes   *)
(* in one call, and the ring counts them.  The handle is a sentinel:       *)
(* open_output gives it to every caller, so write and close act on the     *)
(* ring whoever opened it.                                                 *)
(*                                                                         *)
(* Nothing fills the capture ring yet, so mic_read (lines 111-115) ends    *)
(* with its timeout; the voice app is modelled for either result of it.    *)
(***************************************************************************)
EXTENDS Naturals

CONSTANT RingChunks   \* chunks s_playback_rb has room for

ASSUME RingAssumption == RingChunks \in Nat \ {0}

VARIABLES
  ring,  \* the chunks in s_playback_rb
  held   \* does the DMA task hold the first chunk?  It keeps its place in the
         \* ring, and the ring gives nothing else to anybody, until it is returned

audio == <<ring, held>>

AudioInit == ring = 0 /\ held = FALSE

Full == ring >= RingChunks

\* svc_audio_write, for a caller with a handle, when there is room in time.
Accept == ~Full /\ ring' = ring + 1 /\ UNCHANGED held

\* svc_audio_close, for a ring of r chunks: receives until it gets nothing.
\* That is at once while the DMA task holds a chunk; and what lies behind the
\* end of the buffer needs a second call, which the DMA task may come before.
CloseRing(r) ==
  \/ held /\ ring' = r /\ UNCHANGED held
  \/ ~held /\ ring' = 0 /\ UNCHANGED held
  \/ ~held /\ ring' \in 1 .. r - 1 /\ held' = TRUE

\* A pass of the DMA task that does not feed silence: it takes a chunk, and
\* returns it when I2S has accepted it.
DmaTakes   == ~held /\ ring # 0 /\ held' = TRUE /\ UNCHANGED ring
DmaReturns == held /\ held' = FALSE /\ ring' = ring - 1
=============================================================================
