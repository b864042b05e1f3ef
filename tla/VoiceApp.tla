------------------------------ MODULE VoiceApp ------------------------------
(***************************************************************************)
(* The voice assistant (apps/voice/app_voice.c): while the button is held  *)
(* a thread streams the microphone to a server and plays what comes back.  *)
(* The server can end the stream too, with a text message.                 *)
(***************************************************************************)
EXTENDS AudioService, AppThreads

\* va: g_is_recording, g_stream_thread, whether g_tts_out is set, the label,
\* what the UI task waits for in thread_join, and
\*   loose  the threads that were alive when the server ended a stream: no
\*          handler waits for those
VARIABLE va

VoiceStart ==
  [recording |-> FALSE, handle |-> NULL, out |-> FALSE, label |-> "Hold to Talk",
   waits |-> "no", loose |-> {}]

\* app_main builds the screen and returns.
VoiceMain == va' = VoiceStart /\ UNCHANGED <<audio, at>>

-----------------------------------------------------------------------------
(* on_btn_event *)

PressTalk ==
  /\ va.waits = "no" /\ ~va.recording
  /\ \/ \E h \in Threads :
          /\ Create(h)
          /\ va' = [va EXCEPT !.recording = TRUE, !.label = "Listening...", !.handle = h]
     \/ /\ CannotCreate /\ UNCHANGED at
        /\ va' = [va EXCEPT !.recording = TRUE, !.label = "Listening..."]
  /\ UNCHANGED audio

ReleaseTalk ==
  /\ va.waits = "no" /\ va.recording
  /\ va' = [va EXCEPT !.recording = FALSE, !.label = "Processing...", !.waits = "release"]
  /\ UNCHANGED <<audio, at>>

TalkEnds ==
  /\ va.waits = "release" /\ Joined(va.handle)
  /\ va' = [va EXCEPT !.handle = NULL, !.label = "Hold to Talk", !.waits = "no"]
  /\ UNCHANGED <<audio, at>>

-----------------------------------------------------------------------------
(* stream_thread_fn *)

\* The calls of net.ws have no timeout: a thread may be in one for ever.
NetworkCalls == {"connect", "send", "hang_up"}

SetsUp(t) ==
  /\ at[t] = "start"
  /\ va' = [va EXCEPT !.out = TRUE]
  /\ Goto(t, "connect")
  /\ UNCHANGED audio

\* ws.open, with whatever result; the codecs and the buffers.
Connects(t) ==
  /\ at[t] = "connect" /\ Goto(t, "check")
  /\ UNCHANGED <<audio, va>>

LooksAtRecording(t) ==
  /\ at[t] = "check"
  /\ Goto(t, IF va.recording THEN "capture" ELSE "hang_up")
  /\ UNCHANGED <<audio, va>>

\* A frame of the microphone, if there is one, goes to ws.send.
Captures(t) ==
  /\ at[t] = "capture" /\ (Goto(t, "send") \/ Goto(t, "receive"))
  /\ UNCHANGED <<audio, va>>

Sends(t) ==
  /\ at[t] = "send" /\ Goto(t, "receive")
  /\ UNCHANGED <<audio, va>>

\* ws.recv does not wait: no message, or a text of ten characters at most.
PassesBy(t) ==
  /\ at[t] = "receive" /\ Goto(t, "check")
  /\ UNCHANGED <<audio, va>>

\* A frame of the answer is played, if there is room for it at once.
PlaysReply(t) ==
  /\ at[t] = "receive" /\ va.out /\ Accept
  /\ Goto(t, "check")
  /\ UNCHANGED va

\* The server has finished.
ServerDone(t) ==
  /\ at[t] = "receive"
  /\ va' = [va EXCEPT !.recording = FALSE, !.loose = Lingering]
  /\ Goto(t, "check")
  /\ UNCHANGED audio

HangsUp(t) ==
  /\ at[t] = "hang_up" /\ Goto(t, "close")
  /\ UNCHANGED <<audio, va>>

ClosesVoice == IF va.out THEN CloseRing(ring) ELSE UNCHANGED audio

ClosesOut(t) ==
  /\ at[t] = "close"
  /\ ClosesVoice
  /\ Goto(t, "forget")
  /\ UNCHANGED va

ForgetsOutput(t) ==
  /\ at[t] = "forget"
  /\ va' = [va EXCEPT !.out = FALSE, !.loose = @ \ {t}]
  /\ Goto(t, "off")
  /\ UNCHANGED audio

\* The steps that wait for the network, and the others.
NetworkAnswers(t) == Connects(t) \/ Sends(t) \/ HangsUp(t)

stream_thread_fn(t) ==
  \/ SetsUp(t) \/ LooksAtRecording(t) \/ Captures(t)
  \/ PassesBy(t) \/ PlaysReply(t) \/ ServerDone(t)
  \/ ClosesOut(t) \/ ForgetsOutput(t)

-----------------------------------------------------------------------------
(* app_deinit *)

VoiceDeinitStops ==
  /\ va.waits = "no" /\ va.recording
  /\ va' = [va EXCEPT !.recording = FALSE, !.waits = "deinit"]
  /\ UNCHANGED <<audio, at>>

VoiceDeinitDone ==
  \/ va.waits = "deinit" /\ Joined(va.handle)
  \/ va.waits = "no" /\ ~va.recording

\* The output is closed if a thread has left it open.
VoiceDeinit == ClosesVoice

VoiceUi == PressTalk \/ ReleaseTalk \/ TalkEnds
=============================================================================
