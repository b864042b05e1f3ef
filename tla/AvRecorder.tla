----------------------------- MODULE AvRecorder -----------------------------
(***************************************************************************)
(* The A/V recorder (apps/camera/svc_av_recorder.c): two capture tasks fill*)
(* two bounded queues that a writer task empties into the file.            *)
(* svc_av_recorder_stop raises a flag, sleeps for half a second and deletes*)
(* the queues: nothing but time makes it wait for the tasks.               *)
(*                                                                         *)
(* So the model has a coarse clock.  left[p] is how many ticks task p may  *)
(* still spend where it is: the clock stands still while a task with none  *)
(* left has a step to take.                                                *)
(***************************************************************************)
EXTENDS Integers, Sequences

CONSTANTS
  Clients,     \* tasks that start and stop recordings
  VideoQueue,  \* VIDEO_QUEUE_SIZE
  AudioQueue,  \* AUDIO_QUEUE_SIZE
  LoopTicks,   \* the delays in the loops of the capture and writer tasks
  MicTicks,    \* the timeout of svc_audio_mic_read
  CameraTicks, \* how long esp_camera_fb_get may block for a frame
  WriteTicks,  \* how long the card may take for a chunk
  FlushTicks,  \* how long it may take for a flush, or to flush and close
  StopTicks    \* the sleep of svc_av_recorder_stop

ASSUME RecorderAssumption ==
  /\ \A q \in {VideoQueue, AudioQueue, LoopTicks, MicTicks, WriteTicks} : q \in Nat \ {0}
  /\ CameraTicks \in Nat /\ FlushTicks \in Nat /\ StopTicks \in Nat
  /\ Clients \cap {"video", "audio", "writer"} = {}

VARIABLES
  state,           \* s_recorder.state
  file,            \* is s_recorder.file open?
  queues,          \* do the two queues exist?
  vq, aq,          \* what is in them: chunks sent before stop was requested
                   \* ("early") and after it ("late")
  stop_requested,  \* s_recorder.stop_requested
  mutex,           \* the clients that hold s_recorder.stop_mutex
  pc,              \* where each task is
  left,            \* ticks each task may still spend there
  lost,            \* kinds of chunks that were deleted with their queue: they
                   \* are not in the file and their memory is never freed
  spoiled          \* has the creation of a task failed?

vars == <<state, file, queues, vq, aq, stop_requested, mutex, pc, left, lost, spoiled>>

recording == <<state, file, queues, stop_requested, mutex, lost, spoiled>>

Captures == {"video", "audio"}
Tasks    == Captures \cup {"writer"}
Procs    == Clients \cup Tasks
Chunk    == {"early", "late"}

\* Where the clients are in start and stop, and where they wait in it.
ClientLabels ==
  {"idle", "start_mutex", "start_open", "start_tasks", "start_state", "abort",
   "stop_mutex", "stop_flag", "stop_state", "stop_wait", "stop_delete"}

TaskLabels ==
  {"off", "open", "loop", "read", "send", "look_video", "look_audio", "take_video",
   "write_video", "take_audio", "write_audio", "flush", "close", "exit"}

-----------------------------------------------------------------------------
\* p goes on at label, and may spend the given ticks there.
GotoFor(p, label, ticks) ==
  /\ pc' = [pc EXCEPT ![p] = label]
  /\ left' = [left EXCEPT ![p] = ticks]

Goto(p, label) == GotoFor(p, label, 0)

\* Nobody is pressed for time while a client is out of the service or waits
\* for the mutex, and a task that does not exist has nothing to do.
Unhurried(p) == pc[p] \in {"idle", "off", "start_mutex", "stop_mutex"}

Tick ==
  /\ \A p \in Procs : Unhurried(p) \/ left[p] > 0
  /\ left' = [p \in Procs |-> IF Unhurried(p) THEN 0 ELSE left[p] - 1]
  /\ left' # left
  /\ UNCHANGED <<recording, vq, aq, pc>>

Init ==
  /\ state = "IDLE" /\ file = FALSE
  /\ queues = FALSE /\ vq = <<>> /\ aq = <<>>
  /\ stop_requested = FALSE /\ mutex = {}
  /\ pc = [p \in Procs |-> IF p \in Tasks THEN "off" ELSE "idle"]
  /\ left = [p \in Procs |-> 0]
  /\ lost = {} /\ spoiled = FALSE

-----------------------------------------------------------------------------
(* svc_av_recorder_start *)

\* Variant with a bug: a recording is started whatever the recorder does.
MayStart_Always == TRUE

\* The check is made before the mutex is taken.
MayStart == state = "IDLE"

StartCall(c) ==
  /\ pc[c] = "idle" /\ MayStart
  /\ Goto(c, "start_mutex")
  /\ UNCHANGED <<recording, vq, aq>>

StartBusy(c) ==
  /\ pc[c] = "idle" /\ ~MayStart
  /\ UNCHANGED vars

TakeMutex(c) ==
  /\ pc[c] \in {"start_mutex", "stop_mutex"}
  /\ mutex = {} /\ mutex' = {c}
  /\ Goto(c, IF pc[c] = "start_mutex" THEN "start_open" ELSE "stop_flag")
  /\ UNCHANGED <<state, file, queues, vq, aq, stop_requested, lost, spoiled>>

GiveMutex(c) == mutex' = mutex \ {c}

\* The frame rate is invalid, or the file, its header or a queue fails: what
\* was made is undone again.
StartFails(c) ==
  /\ pc[c] = "start_open"
  /\ file' = FALSE
  /\ GiveMutex(c)
  /\ Goto(c, "idle")
  /\ UNCHANGED <<state, queues, vq, aq, stop_requested, lost, spoiled>>

StartOpens(c) ==
  /\ pc[c] = "start_open"
  /\ file' = TRUE
  /\ queues' = TRUE /\ vq' = <<>> /\ aq' = <<>>
  /\ stop_requested' = FALSE
  /\ Goto(c, "start_tasks")
  /\ UNCHANGED <<state, mutex, lost, spoiled>>

Entry(t) == IF t = "audio" THEN "open" ELSE "loop"

\* Creates the tasks in S, and goes on at label.
Creates(c, S, label, ticks) ==
  /\ pc' = [p \in Procs |-> IF p \in S THEN Entry(p) ELSE IF p = c THEN label ELSE pc[p]]
  /\ left' = [p \in Procs |-> IF p \in S THEN 0 ELSE IF p = c THEN ticks ELSE left[p]]

StartCreates(c) ==
  /\ pc[c] = "start_tasks"
  /\ Creates(c, Tasks, "start_state", 0)
  /\ UNCHANGED <<recording, vq, aq>>

\* One of the three could not be created: the others are asked to stop and
\* given as long as the microphone's timeout before the file and the queues go.
StartCreatesSome(c) ==
  /\ pc[c] = "start_tasks"
  /\ \E S \in SUBSET Tasks : S # Tasks /\ Creates(c, S, "abort", MicTicks)
  /\ stop_requested' = TRUE /\ spoiled' = TRUE
  /\ UNCHANGED <<state, file, queues, vq, aq, mutex, lost>>

\* What is in the queues when they are deleted.
Dropped == {vq[i] : i \in DOMAIN vq} \cup {aq[i] : i \in DOMAIN aq}

DeleteQueues == /\ queues' = FALSE /\ vq' = <<>> /\ aq' = <<>>
                /\ lost' = lost \cup Dropped

StartAborts(c) ==
  /\ pc[c] = "abort" /\ left[c] = 0
  /\ file' = FALSE
  /\ DeleteQueues
  /\ GiveMutex(c)
  /\ Goto(c, "idle")
  /\ UNCHANGED <<state, stop_requested, spoiled>>

StartReturns(c) ==
  /\ pc[c] = "start_state"
  /\ state' = "RECORDING"
  /\ GiveMutex(c)
  /\ Goto(c, "idle")
  /\ UNCHANGED <<file, queues, vq, aq, stop_requested, lost, spoiled>>

-----------------------------------------------------------------------------
(* svc_av_recorder_stop *)

StopCall(c) ==
  /\ pc[c] = "idle" /\ state = "RECORDING"
  /\ Goto(c, "stop_mutex")
  /\ UNCHANGED <<recording, vq, aq>>

StopRequest(c) ==
  /\ pc[c] = "stop_flag"
  /\ stop_requested' = TRUE
  /\ Goto(c, "stop_state")
  /\ UNCHANGED <<state, file, queues, vq, aq, mutex, lost, spoiled>>

\* Variant with a bug: stop does not sleep.
StopDelay_None == 0

StopDelay == StopTicks

StopState(c) ==
  /\ pc[c] = "stop_state"
  /\ state' = "STOPPING"
  /\ GotoFor(c, "stop_wait", StopDelay)
  /\ UNCHANGED <<file, queues, vq, aq, stop_requested, mutex, lost, spoiled>>

StopReturns(c) ==
  /\ pc[c] = "stop_wait" /\ left[c] = 0
  /\ DeleteQueues
  /\ GiveMutex(c)
  /\ Goto(c, "idle")
  /\ UNCHANGED <<state, file, stop_requested, spoiled>>

Client(c) ==
  \/ StartCall(c) \/ StartBusy(c) \/ TakeMutex(c) \/ StartFails(c) \/ StartOpens(c)
  \/ StartCreates(c) \/ StartCreatesSome(c) \/ StartAborts(c) \/ StartReturns(c)
  \/ StopCall(c) \/ StopRequest(c) \/ StopState(c) \/ StopReturns(c)

-----------------------------------------------------------------------------
(* video_capture_task and audio_capture_task *)

\* The microphone or the buffer may not be had: the task ends.
MicOpen ==
  /\ pc["audio"] = "open"
  /\ Goto("audio", "loop") \/ Goto("audio", "off")
  /\ UNCHANGED <<recording, vq, aq>>

CaptureEnds(t) ==
  /\ pc[t] = "loop" /\ stop_requested
  /\ Goto(t, "off")
  /\ UNCHANGED <<recording, vq, aq>>

\* The camera's driver waits for a frame, in seconds if none comes.
ReadTicks(t) == IF t = "audio" THEN MicTicks ELSE CameraTicks + LoopTicks

CaptureGoesOn(t) ==
  /\ pc[t] = "loop" /\ ~stop_requested
  /\ GotoFor(t, "read", ReadTicks(t))
  /\ UNCHANGED <<recording, vq, aq>>

\* Nothing to read yet, or no memory for a copy of it.
CaptureNothing(t) ==
  /\ pc[t] = "read"
  /\ Goto(t, "loop")
  /\ UNCHANGED <<recording, vq, aq>>

CaptureChunk(t) ==
  /\ pc[t] = "read"
  /\ Goto(t, "send")
  /\ UNCHANGED <<recording, vq, aq>>

Kind == IF stop_requested THEN "late" ELSE "early"

\* Variant with a bug: the queue takes one more than it has room for.
Sent_PastEnd(q, limit) == IF queues /\ Len(q) <= limit THEN Append(q, Kind) ELSE q

\* xQueueSend with no timeout: a chunk for which there is no room is freed.
Sent(q, limit) == IF queues /\ Len(q) < limit THEN Append(q, Kind) ELSE q

SendChunk(t) ==
  /\ pc[t] = "send"
  /\ \/ t = "video" /\ vq' = Sent(vq, VideoQueue) /\ UNCHANGED aq
     \/ t = "audio" /\ aq' = Sent(aq, AudioQueue) /\ UNCHANGED vq
  /\ Goto(t, "loop")
  /\ UNCHANGED recording

Capture(t) ==
  \/ CaptureEnds(t) \/ CaptureGoesOn(t) \/ CaptureNothing(t) \/ CaptureChunk(t)
  \/ SendChunk(t)

-----------------------------------------------------------------------------
(* file_writer_task *)

\* The three operands of the loop's condition, evaluated one by one.
WriterLooks ==
  /\ \/ pc["writer"] = "loop" /\ Goto("writer", IF stop_requested THEN "look_video" ELSE "take_video")
     \/ pc["writer"] = "look_video" /\ Goto("writer", IF vq = <<>> THEN "look_audio" ELSE "take_video")
  /\ UNCHANGED <<recording, vq, aq>>

\* Variant with a bug: the audio that is left does not count.
NothingLeft_VideoOnly == TRUE

NothingLeft == aq = <<>>

WriterLooksLast ==
  /\ pc["writer"] = "look_audio"
  /\ \/ NothingLeft /\ GotoFor("writer", "close", FlushTicks)
     \/ ~NothingLeft /\ Goto("writer", "take_video")
  /\ UNCHANGED <<recording, vq, aq>>

WriterTakesVideo ==
  /\ pc["writer"] = "take_video"
  /\ \/ /\ vq # <<>>
        /\ vq' = Tail(vq)
        /\ GotoFor("writer", "write_video", WriteTicks)
     \/ /\ vq = <<>>
        /\ Goto("writer", "take_audio") /\ UNCHANGED vq
  /\ UNCHANGED <<recording, aq>>

WriterTakesAudio ==
  /\ pc["writer"] = "take_audio"
  /\ \/ /\ aq # <<>>
        /\ aq' = Tail(aq)
        /\ GotoFor("writer", "write_audio", WriteTicks)
     \/ /\ aq = <<>>
        /\ GotoFor("writer", "flush", LoopTicks + FlushTicks) /\ UNCHANGED aq
  /\ UNCHANGED <<recording, vq>>

\* write_chunk, with success or without, and the chunk is freed; or the flush
\* and the delay at the end of the loop.
WriterWrites ==
  /\ \/ pc["writer"] = "write_video" /\ Goto("writer", "take_video")
     \/ pc["writer"] = "write_audio" /\ Goto("writer", "take_audio")
     \/ pc["writer"] = "flush" /\ Goto("writer", "loop")
  /\ UNCHANGED <<recording, vq, aq>>

\* Variant with a bug: the file is only flushed.
Closed_FlushOnly == file

Closed == FALSE

\* fflush and fclose have returned.
WriterCloses ==
  /\ pc["writer"] = "close"
  /\ file' = Closed
  /\ Goto("writer", "exit")
  /\ UNCHANGED <<state, queues, vq, aq, stop_requested, mutex, lost, spoiled>>

WriterExits ==
  /\ pc["writer"] = "exit"
  /\ state' = "IDLE"
  /\ Goto("writer", "off")
  /\ UNCHANGED <<file, queues, vq, aq, stop_requested, mutex, lost, spoiled>>

Writer ==
  \/ WriterLooks \/ WriterLooksLast \/ WriterTakesVideo \/ WriterTakesAudio
  \/ WriterWrites \/ WriterCloses \/ WriterExits

-----------------------------------------------------------------------------

Next ==
  \/ \E c \in Clients : Client(c)
  \/ MicOpen \/ \E t \in Captures : Capture(t)
  \/ Writer
  \/ Tick

Spec == Init /\ [][Next]_vars

-----------------------------------------------------------------------------
(* Properties.  They hold while every task could be created; what a task   *)
(* does with a deleted queue or a closed file is undefined.                *)

\* Types.
TypeOK ==
  /\ state \in {"IDLE", "RECORDING", "STOPPING"}
  /\ file \in BOOLEAN /\ queues \in BOOLEAN /\ stop_requested \in BOOLEAN
  /\ vq \in Seq(Chunk) /\ Len(vq) <= VideoQueue
  /\ aq \in Seq(Chunk) /\ Len(aq) <= AudioQueue
  /\ mutex \subseteq Clients
  /\ pc \in [Procs -> ClientLabels \cup TaskLabels]
  /\ left \in [Procs -> 0 .. StopTicks + MicTicks + CameraTicks + WriteTicks + FlushTicks + LoopTicks]
  /\ lost \subseteq Chunk /\ spoiled \in BOOLEAN

\* No task is still running when the queues it uses are deleted: the sleep of
\* stop outlasts the reads under way, the writing of all that both queues hold
\* and the closing of the file, if camera and card are fast enough for that.
QueueInUseExists ==
  ~spoiled => (queues \/ \A t \in Tasks : pc[t] = "off")

\* A new recording never meets the tasks of the one before it, though the
\* writer declares the recorder idle while the microphone is still read.
OneRecording ==
  ~spoiled => \A c \in Clients : pc[c] = "start_tasks" => \A t \in Tasks : pc[t] = "off"

\* Once a stop has returned, the file is closed, if the sleep is long enough for
\* the card to write what is left, to flush and to close.
FileFinalized ==
  ~spoiled => (file => state = "RECORDING" \/ mutex # {})

\* Everything that was queued when stop was requested reaches the writer.
EarlyIsWritten == ~spoiled => "early" \notin lost
=============================================================================
