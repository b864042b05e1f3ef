------------------------------ MODULE AudioApps ------------------------------
(***************************************************************************)
(* The three apps that play sound, one after the other, on the one audio   *)
(* service: the kernel runs one app at a time, and the audio service lives *)
(* on (kernel_api.h:129).  An app is unloaded when its app_deinit has      *)
(* returned, or by force at any time: app_deinit has 500 ms (kernel_api.h: *)
(* 308), and app_loader_unload calls none.  Each app's statics are new     *)
(* when it is loaded.                                                      *)
(***************************************************************************)
EXTENDS StreamPlayer, ThreadPlayer, VoiceApp

VARIABLE app   \* the app that is loaded

vars == <<audio, at, sp, tp, va, app>>

Init ==
  /\ AudioInit
  /\ at = [t \in Threads |-> "off"]
  /\ sp = StreamStart({}) /\ tp = ThreadStart({}) /\ va = VoiceStart
  /\ app = "none"

-----------------------------------------------------------------------------
\* The kernel loads an app and calls its app_main.
Launch ==
  /\ app = "none"
  /\ \/ app' = "stream" /\ StreamMain /\ UNCHANGED <<at, tp, va>>
     \/ app' = "thread" /\ ThreadMain /\ UNCHANGED <<sp, va>>
     \/ app' = "voice" /\ VoiceMain /\ UNCHANGED <<sp, tp>>

\* The threads of the app that are left are deleted, and the app is gone.
Removed ==
  /\ app' = "none"
  /\ at' = [t \in Threads |-> "off"]
  /\ sp' = StreamStart({}) /\ tp' = ThreadStart({}) /\ va' = VoiceStart

\* app_deinit has returned.
Unload ==
  /\ \/ app = "stream" /\ StreamDeinit
     \/ app = "thread" /\ ThreadDeinitDone /\ UNCHANGED audio
     \/ app = "voice" /\ VoiceDeinitDone /\ VoiceDeinit
  /\ Removed

\* It has not, or was not called.
ForceUnload == app # "none" /\ Removed /\ UNCHANGED audio

Stream == app = "stream" /\ StreamStep /\ UNCHANGED <<at, tp, va, app>>

ThreadUiStep ==
  /\ app = "thread" /\ (ThreadUi \/ ThreadDeinitStops)
  /\ UNCHANGED <<sp, va, app>>

VoiceUiStep ==
  /\ app = "voice" /\ (VoiceUi \/ VoiceDeinitStops)
  /\ UNCHANGED <<sp, tp, app>>

Thread(t) ==
  \/ app = "thread" /\ playback_thread_fn(t) /\ UNCHANGED <<sp, va, app>>
  \/ app = "voice" /\ stream_thread_fn(t) /\ UNCHANGED <<sp, tp, app>>

Network(t) == app = "voice" /\ NetworkAnswers(t) /\ UNCHANGED <<sp, tp, app>>

Dma == (DmaTakes \/ DmaReturns) /\ UNCHANGED <<at, sp, tp, va, app>>

Next ==
  \/ Launch \/ Unload \/ ForceUnload \/ Stream \/ ThreadUiStep \/ VoiceUiStep \/ Dma
  \/ \E t \in Threads : Thread(t) \/ Network(t)

\* The UI task waits in a thread_join.
UiWaits == tp.waits # "no" \/ va.waits # "no"

JoinReturns ==
  \/ app = "thread" /\ ThreadJoined /\ UNCHANGED <<sp, va, app>>
  \/ app = "voice" /\ TalkEnds /\ UNCHANGED <<sp, tp, app>>
  \/ UiWaits /\ Unload

\* Threads are scheduled, and so is the UI task when its join can return.  The
\* network need not answer, and nobody has to force an app out.
Spec ==
  /\ Init /\ [][Next]_vars
  /\ WF_vars(JoinReturns)
  /\ \A t \in Threads : WF_vars(Thread(t))

-----------------------------------------------------------------------------
(* Properties *)

\* The stream player's chunks reach the ring in the order of the file, each
\* once, and none is skipped, however often the ring is full, unless Resume
\* was tapped while one was pending.
StreamInOrder ==
  sp.file # None =>
    /\ \A i, j \in DOMAIN sp.sent : i < j => sp.sent[i] < sp.sent[j]
    /\ ~sp.resumed =>
         Len(sp.sent) + (IF sp.pending # 0 THEN 1 ELSE 0) = sp.pos

\* A decoder that has not given the flag back yet, and a voice stream that the
\* server did not end, is the thread that the handlers would join.  So there is
\* a second decoder only beside one that is closing, and a second stream only
\* beside one that the server ended, or when the next began before it stopped.
ThreadIsJoinable ==
  \A t \in Threads :
    /\ app = "thread" /\ at[t] \notin Leaving => tp.handle = t
    /\ app = "voice" /\ Alive(t) /\ t \notin va.loose => va.handle = t

\* When app_deinit has returned, no thread of the app is left with its buffers,
\* files and decoder but those it cannot wait for: a decoder that had ended by
\* itself and is closing, and the streams that the server ended.  A forced
\* unload may meet any thread.
DeinitLeavesNoThread ==
  /\ app = "thread" /\ ThreadDeinitDone => \A t \in Threads : at[t] \in Leaving
  /\ app = "voice" /\ VoiceDeinitDone => Lingering \subseteq va.loose

\* The thread of the voice app is out of every network call again and again.
NetworkReturns == \A t \in Threads : []<>(at[t] \notin NetworkCalls)

\* A handler that waits for a thread returns: the UI task is not stuck in
\* thread_join, whatever the track and the ring do, and whatever the server
\* does as long as ws.open, ws.send and ws.close, which have no timeout, return.
UiReturns == NetworkReturns => (UiWaits ~> ~UiWaits)
=============================================================================
