------------------------- MODULE AvRecorderProofs -------------------------
(***************************************************************************)
(* Proofs about the A/V recorder.  The types hold for any number of        *)
(* clients.  With one, if camera and card are fast enough for the sleep of  *)
(* svc_av_recorder_stop, the sleep outlasts the three tasks, whatever the  *)
(* lengths of the queues and the delays.                                   *)
(***************************************************************************)
EXTENDS AvRecorder, TLAPS

-----------------------------------------------------------------------------
(* The hypothesis and the inductive invariant *)

\* The end of a pass of the writer: the flush and the delay.
PassTicks == LoopTicks + FlushTicks

\* Time enough for the microphone, for a frame of the camera, and for the card
\* to take what both queues hold, a chunk that is being written and one each
\* that is being captured, with a flush after each pass, and to close the file.
EnoughTime ==
  /\ StopTicks > MicTicks
  /\ StopTicks > CameraTicks + LoopTicks
  /\ StopTicks > WriteTicks * (VideoQueue + AudioQueue + 3) + 4 * PassTicks + FlushTicks

Off == \A t \in Tasks : pc[t] = "off"

\* Client c has started a recording that nobody has asked to stop yet, and
\* is stopping it.
Recording(c) ==
  pc[c] \in {"start_state", "stop_mutex", "stop_flag"} \/ (pc[c] = "idle" /\ state = "RECORDING")
Stopping(c) == pc[c] \in {"stop_state", "stop_wait"}

\* The mutex and the state fit the place of the client.
PlaceInv(c) ==
  /\ pc[c] \in ClientLabels \ {"abort"} /\ \A t \in Tasks : pc[t] \in TaskLabels
  /\ mutex = (IF pc[c] \in {"idle", "start_mutex", "stop_mutex"} THEN {} ELSE {c})
  /\ pc[c] \in {"start_mutex", "start_open", "start_tasks", "start_state"} => state = "IDLE"
  /\ pc[c] \in {"stop_mutex", "stop_flag"} => state = "RECORDING"
  /\ pc[c] = "stop_wait" => state # "RECORDING"

\* The tasks run only while there is a recording, and the writer ends only
\* when it is stopped.
TasksInv(c) ==
  /\ Recording(c) \/ Stopping(c) => queues
  /\ pc[c] = "start_tasks" => queues /\ ~stop_requested
  /\ ~Recording(c) /\ ~Stopping(c) => Off
  /\ Recording(c) =>
       ~stop_requested /\ pc["writer"] \notin {"off", "look_video", "look_audio", "close", "exit"}
  /\ Stopping(c) => stop_requested

\* The writer is the last to have the file open.
FileInv(c) ==
  /\ pc[c] = "start_mutex" \/ (pc[c] = "idle" /\ state # "RECORDING") => ~file
  /\ Stopping(c) /\ pc["writer"] \in {"exit", "off"} => ~file

NoEarly(q) == \A k \in DOMAIN q : q[k] # "early"

\* What was queued before the stop is gone when the writer has looked.
EarlyInv(c) ==
  /\ "early" \notin lost
  /\ Stopping(c) /\ pc["writer"] \in {"look_audio", "close", "exit", "off"} => NoEarly(vq)
  /\ Stopping(c) /\ pc["writer"] \in {"close", "exit", "off"} => NoEarly(aq)

\* The time a task may still spend at its label.
LeftInv ==
  /\ left["video"] <= (IF pc["video"] = "read" THEN CameraTicks + LoopTicks ELSE 0)
  /\ left["audio"] <= (IF pc["audio"] = "read" THEN MicTicks ELSE 0)
  /\ left["writer"] <= (IF pc["writer"] \in {"write_video", "write_audio"} THEN WriteTicks
                        ELSE IF pc["writer"] = "flush" THEN PassTicks
                        ELSE IF pc["writer"] = "close" THEN FlushTicks ELSE 0)

\* Once stop is requested: the chunks a capture task may still send,
Pending(t) == IF pc[t] \in {"read", "send"} THEN 1 ELSE 0
AllPending == Pending("video") + Pending("audio")

\* those the writer may still have to write,
Chunks == Len(vq) + Len(aq) + AllPending

\* the delays at the end of its loop that are still to come,
Delays ==
  IF pc["writer"] \in {"take_video", "write_video"} THEN 1 + AllPending
  ELSE IF pc["writer"] \in {"take_audio", "write_audio"}
       THEN 1 + AllPending + (IF vq = <<>> THEN 0 ELSE 1)
       ELSE AllPending + (IF vq = <<>> /\ aq = <<>> THEN 0 ELSE 1)

\* and the time until the task is gone.
WriterTime ==
  IF pc["writer"] \in {"close", "exit", "off"} THEN left["writer"]
  ELSE left["writer"] + WriteTicks * Chunks + PassTicks * Delays + FlushTicks
TimeToEnd(t) == IF t = "writer" THEN WriterTime ELSE left[t]

\* The sleep of stop outlasts every task.
SleepInv(c) ==
  pc[c] = "stop_wait" => \A t \in Tasks : pc[t] = "off" \/ left[c] > TimeToEnd(t)

OneClient(c) ==
  /\ PlaceInv(c) /\ TasksInv(c) /\ FileInv(c) /\ EarlyInv(c) /\ LeftInv /\ SleepInv(c)

IInv(c) == TypeOK /\ (~spoiled => OneClient(c))

-----------------------------------------------------------------------------
(* Types, with any number of clients *)

Labels == ClientLabels \cup TaskLabels
MaxTicks == StopTicks + MicTicks + CameraTicks + WriteTicks + FlushTicks + LoopTicks

PlaceTypes == pc \in [Procs -> Labels] /\ left \in [Procs -> 0 .. MaxTicks]

StateTypes ==
  /\ state \in {"IDLE", "RECORDING", "STOPPING"}
  /\ file \in BOOLEAN /\ queues \in BOOLEAN /\ stop_requested \in BOOLEAN
  /\ mutex \subseteq Clients /\ lost \subseteq Chunk /\ spoiled \in BOOLEAN

QueueTypes ==
  /\ vq \in Seq(Chunk) /\ Len(vq) <= VideoQueue
  /\ aq \in Seq(Chunk) /\ Len(aq) <= AudioQueue

LEMMA TypesSplit == TypeOK <=> PlaceTypes /\ StateTypes /\ QueueTypes
  BY DEF TypeOK, PlaceTypes, StateTypes, QueueTypes, Labels, MaxTicks

LEMMA ConstantsTyped ==
  /\ VideoQueue \in Nat \ {0} /\ AudioQueue \in Nat \ {0} /\ LoopTicks \in Nat \ {0}
  /\ MicTicks \in Nat \ {0} /\ WriteTicks \in Nat \ {0} /\ StopTicks \in Nat
  /\ CameraTicks \in Nat /\ FlushTicks \in Nat /\ PassTicks \in Nat
<1>1. \A q \in {VideoQueue, AudioQueue, LoopTicks, MicTicks, WriteTicks} : q \in Nat \ {0}
  BY RecorderAssumption
<1>2. CameraTicks \in Nat /\ FlushTicks \in Nat /\ StopTicks \in Nat
  BY RecorderAssumption
<1>3. LoopTicks \in Nat
  BY <1>1
<1>4. PassTicks \in Nat
  BY <1>2, <1>3 DEF PassTicks
<1> QED BY <1>1, <1>2, <1>4

\* The delays that the steps ask for.
LEMMA TicksTyped ==
  /\ MaxTicks \in Nat
  /\ {0, MicTicks, WriteTicks, FlushTicks, StopTicks, CameraTicks + LoopTicks, LoopTicks + FlushTicks}
       \subseteq 0 .. MaxTicks
  BY ConstantsTyped DEF MaxTicks

\* What a step does that moves one task and lets it spend some ticks there.
LEMMA Moved ==
  ASSUME PlaceTypes, NEW p \in Procs, NEW l, NEW n, GotoFor(p, l, n)
  PROVE  /\ pc'[p] = l /\ left'[p] = n
         /\ \A q \in Procs \ {p} : pc'[q] = pc[q] /\ left'[q] = left[q]
         /\ l \in Labels /\ n \in 0 .. MaxTicks => PlaceTypes'
  BY DEF PlaceTypes, GotoFor

LEMMA ProcsTyped ==
  /\ Clients \subseteq Procs /\ Tasks \subseteq Procs /\ Captures \subseteq Procs
  /\ "video" \in Procs /\ "audio" \in Procs /\ "writer" \in Procs
  /\ \A c \in Clients : c \notin Tasks
  BY RecorderAssumption DEF Procs, Tasks, Captures

LEMMA ClientMoves ==
  ASSUME TypeOK, NEW c \in Clients, Client(c)
  PROVE  PlaceTypes'
<1> USE TicksTyped, ProcsTyped DEF Labels, ClientLabels
<1>1. PlaceTypes
  BY TypesSplit
<1>2. CASE StartCall(c)
  BY <1>1, <1>2, Moved DEF StartCall, Goto
<1>3. CASE StartBusy(c)
  BY <1>1, <1>3 DEF StartBusy, vars, PlaceTypes
<1>4. CASE TakeMutex(c)
  <2>1. PICK l \in Labels : GotoFor(c, l, 0)
    BY <1>4 DEF TakeMutex, Goto
  <2> QED BY <1>1, <2>1, Moved
<1>5. CASE StartFails(c)
  BY <1>1, <1>5, Moved DEF StartFails, Goto
<1>6. CASE StartOpens(c)
  BY <1>1, <1>6, Moved DEF StartOpens, Goto
<1>7. ASSUME NEW S \in SUBSET Tasks, NEW l \in Labels, NEW n \in 0 .. MaxTicks, Creates(c, S, l, n)
      PROVE  PlaceTypes'
  BY <1>1, <1>7 DEF Creates, PlaceTypes, Entry, TaskLabels
<1>8. CASE StartCreates(c)
  BY <1>7, <1>8 DEF StartCreates
<1>9. CASE StartCreatesSome(c)
  BY <1>7, <1>9 DEF StartCreatesSome
<1>10. CASE StartAborts(c)
  BY <1>1, <1>10, Moved DEF StartAborts, Goto
<1>11. CASE StartReturns(c)
  BY <1>1, <1>11, Moved DEF StartReturns, Goto
<1>12. CASE StopCall(c)
  BY <1>1, <1>12, Moved DEF StopCall, Goto
<1>13. CASE StopRequest(c)
  BY <1>1, <1>13, Moved DEF StopRequest, Goto
<1>14. CASE StopState(c)
  BY <1>1, <1>14, Moved DEF StopState, StopDelay
<1>15. CASE StopReturns(c)
  BY <1>1, <1>15, Moved DEF StopReturns, Goto
<1> QED BY <1>2, <1>3, <1>4, <1>5, <1>6, <1>8, <1>9, <1>10, <1>11, <1>12, <1>13, <1>14, <1>15
        DEF Client

LEMMA TaskMoves ==
  ASSUME TypeOK, Writer \/ MicOpen \/ \E t \in Captures : Capture(t)
  PROVE  PlaceTypes'
<1> USE TicksTyped, ProcsTyped DEF Labels, TaskLabels
<1>1. PlaceTypes
  BY TypesSplit
<1>2. ASSUME NEW t \in Captures, Capture(t) PROVE PlaceTypes'
  <2>1. PICK l \in Labels, n \in 0 .. MaxTicks : GotoFor(t, l, n)
    <3>1. CASE CaptureEnds(t)
      BY <3>1 DEF CaptureEnds, Goto
    <3>2. CASE CaptureGoesOn(t)
      <4>1. \/ GotoFor(t, "read", CameraTicks + LoopTicks) \/ GotoFor(t, "read", MicTicks)
        BY <3>2 DEF CaptureGoesOn, ReadTicks
      <4> QED BY <4>1
    <3>3. CASE CaptureNothing(t)
      BY <3>3 DEF CaptureNothing, Goto
    <3>4. CASE CaptureChunk(t)
      BY <3>4 DEF CaptureChunk, Goto
    <3>5. CASE SendChunk(t)
      BY <3>5 DEF SendChunk, Goto
    <3> QED BY <1>2, <3>1, <3>2, <3>3, <3>4, <3>5 DEF Capture
  <2> QED BY <1>1, <2>1, Moved
<1>3. CASE MicOpen
  <2>1. PICK l \in Labels : GotoFor("audio", l, 0)
    BY <1>3 DEF MicOpen, Goto
  <2> QED BY <1>1, <2>1, Moved
<1>4. CASE Writer
  <2>1. PICK l \in Labels, n \in 0 .. MaxTicks : GotoFor("writer", l, n)
    <3>1. CASE WriterLooks
      BY <3>1 DEF WriterLooks, Goto
    <3>2. CASE WriterLooksLast
      BY <3>2 DEF WriterLooksLast, Goto
    <3>3. CASE WriterTakesVideo
      BY <3>3 DEF WriterTakesVideo, Goto
    <3>4. CASE WriterTakesAudio
      BY <3>4 DEF WriterTakesAudio
    <3>5. CASE WriterWrites
      BY <3>5 DEF WriterWrites, Goto
    <3>6. CASE WriterCloses
      BY <3>6 DEF WriterCloses, Goto
    <3>7. CASE WriterExits
      BY <3>7 DEF WriterExits, Goto
    <3> QED BY <1>4, <3>1, <3>2, <3>3, <3>4, <3>5, <3>6, <3>7 DEF Writer
  <2> QED BY <1>1, <2>1, Moved
<1> QED BY <1>2, <1>3, <1>4

\* Time passes for everybody who is at a label that takes some.
LEMMA TickMoves ==
  ASSUME TypeOK, Tick
  PROVE  /\ PlaceTypes' /\ pc' = pc
         /\ \A p \in Procs : ~Unhurried(p) => left[p] > 0 /\ left'[p] = left[p] - 1
         /\ \A p \in Procs : Unhurried(p) => left'[p] = 0
<1>1. PlaceTypes /\ MaxTicks \in Nat
  BY TypesSplit, TicksTyped
<1>2. /\ \A p \in Procs : Unhurried(p) \/ left[p] > 0
      /\ left' = [p \in Procs |-> IF Unhurried(p) THEN 0 ELSE left[p] - 1]
      /\ pc' = pc
  BY DEF Tick
<1>3. ASSUME NEW p \in Procs
      PROVE  (IF Unhurried(p) THEN 0 ELSE left[p] - 1) \in 0 .. MaxTicks
  BY <1>1, <1>2 DEF PlaceTypes
<1>4. left' \in [Procs -> 0 .. MaxTicks]
  BY <1>2, <1>3
<1> QED BY <1>1, <1>2, <1>4 DEF PlaceTypes

\* The queues take no more than they have room for, and give up their first.
LEMMA QueueMoves ==
  ASSUME NEW q \in Seq(Chunk), NEW limit \in Nat, Len(q) <= limit
  PROVE  /\ Sent(q, limit) \in Seq(Chunk) /\ Len(Sent(q, limit)) <= limit
         /\ q # <<>> => Tail(q) \in Seq(Chunk) /\ Len(Tail(q)) <= limit
<1>1. Kind \in Chunk
  BY DEF Kind, Chunk
<1>2. Append(q, Kind) \in Seq(Chunk) /\ Len(Append(q, Kind)) = Len(q) + 1 /\ Len(q) \in Nat
  BY <1>1
<1>3. Sent(q, limit) \in Seq(Chunk) /\ Len(Sent(q, limit)) <= limit
  BY <1>2 DEF Sent
<1>4. q # <<>> => Tail(q) \in Seq(Chunk) /\ Len(Tail(q)) = Len(q) - 1
  OBVIOUS
<1> QED BY <1>2, <1>3, <1>4

LEMMA StateStep ==
  ASSUME TypeOK, [Next]_vars
  PROVE  StateTypes'
<1>1. StateTypes /\ QueueTypes
  BY TypesSplit
<1>2. Dropped \subseteq Chunk
  <2>1. (\A k \in DOMAIN vq : vq[k] \in Chunk) /\ (\A k \in DOMAIN aq : aq[k] \in Chunk)
    BY <1>1 DEF QueueTypes
  <2> QED BY <2>1 DEF Dropped
<1>3. ASSUME NEW c \in Clients PROVE GiveMutex(c) => mutex' \subseteq Clients
  BY <1>1 DEF GiveMutex, StateTypes
<1>4. CASE UNCHANGED recording
  BY <1>1, <1>4 DEF recording, StateTypes
<1>5. ASSUME NEW c \in Clients, Client(c) PROVE StateTypes'
  <2>1. CASE StartCall(c) \/ StartBusy(c) \/ StopCall(c) \/ StartCreates(c)
    BY <1>4, <2>1 DEF StartCall, StartBusy, StopCall, StartCreates, recording, vars
  <2>2. CASE StartOpens(c) \/ StartCreatesSome(c)
    BY <1>1, <2>2 DEF StartOpens, StartCreatesSome, StateTypes
  <2>3. CASE StartAborts(c) \/ StopReturns(c)
    <3>1. /\ state' = state /\ file' \in {file, FALSE} /\ queues' = FALSE
          /\ stop_requested' = stop_requested /\ spoiled' = spoiled
      BY <2>3 DEF StartAborts, StopReturns, DeleteQueues
    <3>2. lost' = lost \cup Dropped
      BY <2>3 DEF StartAborts, StopReturns, DeleteQueues
    <3>3. mutex' \subseteq Clients
      BY <1>3, <2>3 DEF StartAborts, StopReturns
    <3> QED BY <1>1, <1>2, <3>1, <3>2, <3>3 DEF StateTypes
  <2>4. CASE TakeMutex(c) \/ StartFails(c) \/ StartReturns(c) \/ StopRequest(c) \/ StopState(c)
    BY <1>1, <1>3, <2>4 DEF TakeMutex, StartFails, StartReturns, StopRequest, StopState, StateTypes
  <2> QED BY <1>5, <2>1, <2>2, <2>3, <2>4 DEF Client
<1>6. CASE MicOpen \/ Tick \/ \E t \in Captures : Capture(t)
  BY <1>4, <1>6 DEF MicOpen, Tick, Capture, CaptureEnds, CaptureGoesOn, CaptureNothing, CaptureChunk,
                    SendChunk
<1>7. CASE WriterCloses \/ WriterExits
  BY <1>1, <1>7 DEF WriterCloses, WriterExits, Closed, StateTypes
<1>8. CASE Writer
  BY <1>4, <1>7, <1>8 DEF Writer, WriterLooks, WriterLooksLast, WriterTakesVideo, WriterTakesAudio,
                          WriterWrites
<1> QED BY <1>4, <1>5, <1>6, <1>8 DEF Next, vars, recording

LEMMA QueueStep ==
  ASSUME TypeOK, [Next]_vars
  PROVE  QueueTypes'
<1>1. QueueTypes /\ VideoQueue \in Nat /\ AudioQueue \in Nat
  BY TypesSplit, ConstantsTyped
<1>2. CASE vq' = vq /\ aq' = aq
  BY <1>1, <1>2 DEF QueueTypes
<1>3. CASE vq' = <<>> /\ aq' = <<>>
  <2>1. <<>> \in Seq(Chunk) /\ Len(<<>>) = 0
    OBVIOUS
  <2> QED BY <1>1, <1>3, <2>1 DEF QueueTypes
<1>4. ASSUME NEW c \in Clients, Client(c) PROVE QueueTypes'
  BY <1>2, <1>3, <1>4
     DEF Client, StartCall, StartBusy, TakeMutex, StartFails, StartOpens, StartCreates,
         StartCreatesSome, StartAborts, StartReturns, StopCall, StopRequest, StopState, StopReturns,
         DeleteQueues, vars
<1>5. CASE MicOpen \/ Tick \/ \E t \in Captures : Capture(t)
  <2>1. ASSUME NEW t \in Captures, SendChunk(t) PROVE QueueTypes'
    <3>1. (vq' = Sent(vq, VideoQueue) /\ aq' = aq) \/ (aq' = Sent(aq, AudioQueue) /\ vq' = vq)
      BY <2>1 DEF SendChunk
    <3> QED BY <1>1, <3>1, QueueMoves DEF QueueTypes
  <2> QED BY <1>2, <1>5, <2>1 DEF MicOpen, Tick, Capture, CaptureEnds, CaptureGoesOn, CaptureNothing,
                                  CaptureChunk
<1>6. CASE Writer
  <2>1. CASE WriterTakesVideo \/ WriterTakesAudio
    <3>1. /\ vq' = vq \/ (vq # <<>> /\ vq' = Tail(vq))
          /\ aq' = aq \/ (aq # <<>> /\ aq' = Tail(aq))
      BY <2>1 DEF WriterTakesVideo, WriterTakesAudio
    <3> QED BY <1>1, <3>1, QueueMoves DEF QueueTypes
  <2> QED BY <1>2, <1>6, <2>1 DEF Writer, WriterLooks, WriterLooksLast, WriterWrites, WriterCloses,
                                  WriterExits
<1> QED BY <1>2, <1>4, <1>5, <1>6 DEF Next, vars

LEMMA TypeStep ==
  ASSUME TypeOK, [Next]_vars
  PROVE  TypeOK'
<1>1. PlaceTypes'
  BY TypesSplit, ClientMoves, TaskMoves, TickMoves DEF Next, vars, PlaceTypes
<1> QED BY <1>1, StateStep, QueueStep DEF TypeOK, PlaceTypes, StateTypes, QueueTypes, Labels, MaxTicks

LEMMA SpoiledStays ==
  ASSUME TypeOK, [Next]_vars, spoiled
  PROVE  spoiled'
  BY DEF Next, vars, recording, Client, StartCall, StartBusy, TakeMutex, StartFails, StartOpens,
         StartCreates, StartCreatesSome, StartAborts, StartReturns, StopCall, StopRequest, StopState,
         StopReturns, MicOpen, Capture, CaptureEnds, CaptureGoesOn, CaptureNothing, CaptureChunk,
         SendChunk, Writer, WriterLooks, WriterLooksLast, WriterTakesVideo, WriterTakesAudio,
         WriterWrites, WriterCloses, WriterExits, Tick

LEMMA TypesInit == Init => TypeOK
<1> SUFFICES ASSUME Init PROVE TypeOK
  OBVIOUS
<1>1. PlaceTypes
  BY TicksTyped DEF Init, PlaceTypes, Labels, ClientLabels, TaskLabels
<1>2. <<>> \in Seq(Chunk) /\ Len(<<>>) = 0 /\ VideoQueue \in Nat /\ AudioQueue \in Nat
  BY ConstantsTyped
<1>3. QueueTypes
  BY <1>2 DEF Init, QueueTypes
<1>4. StateTypes
  BY DEF Init, StateTypes
<1> QED BY <1>1, <1>3, <1>4, TypesSplit

\* Every variable keeps its type, with any number of clients: the queues of
\* svc_av_recorder.c never hold more than they have room for.
THEOREM RecorderTypes == Spec => []TypeOK
<1>1. TypeOK /\ [Next]_vars => TypeOK'
  BY TypeStep
<1> QED BY <1>1, TypesInit, PTL DEF Spec

-----------------------------------------------------------------------------
(* One client: the time the tasks still need *)

LEMMA OneClientProcs ==
  ASSUME NEW c, Clients = {c}
  PROVE  /\ Procs = {c, "video", "audio", "writer"} /\ Tasks = {"video", "audio", "writer"}
         /\ Captures = {"video", "audio"} /\ c \notin Tasks
  BY RecorderAssumption DEF Procs, Tasks, Captures

\* More ticks, chunks or delays never take less time.
LEMMA CostGrows ==
  ASSUME NEW w \in Nat, NEW m \in Nat, NEW n \in Nat, m <= n
  PROVE  w * m \in Nat /\ w * n \in Nat /\ w * m <= w * n
<1>1. \A i \in Nat : w * i \in Nat
  OBVIOUS
<1>2. PICK k \in Nat : n = m + k
  <2>1. n - m \in Nat /\ n = m + (n - m)
    OBVIOUS
  <2> QED BY <2>1
<1>3. w * n = w * m + w * k
  BY <1>2
<1> QED BY <1>1, <1>3

LEMMA CostTyped ==
  ASSUME NEW w \in Nat, NEW n \in Nat
  PROVE  w * n \in Nat
  OBVIOUS

LEMMA CostOfOne ==
  ASSUME NEW w \in Nat, NEW n \in Nat
  PROVE  w * (n + 1) = w * n + w
  OBVIOUS

\* The types of what is counted; the bounds of the delays are reached when
\* chunks are queued and captured behind a writer in the middle of its loop.
LEMMA CountsTyped ==
  ASSUME TypeOK
  PROVE  /\ Len(vq) \in 0 .. VideoQueue /\ Len(aq) \in 0 .. AudioQueue
         /\ AllPending \in 0 .. 2
         /\ Chunks \in Nat /\ Chunks <= VideoQueue + AudioQueue + 2
         /\ Delays \in 0 .. 4
         /\ (pc["writer"] = "flush" => Delays <= 3)
<1>1. Len(vq) \in Nat /\ Len(aq) \in Nat /\ Len(vq) <= VideoQueue /\ Len(aq) <= AudioQueue
  BY DEF TypeOK
<1>2. VideoQueue \in Nat /\ AudioQueue \in Nat
  BY ConstantsTyped
<1>3. Pending("video") \in {0, 1} /\ Pending("audio") \in {0, 1}
  BY DEF Pending
<1>4. AllPending \in 0 .. 2
  BY <1>3 DEF AllPending
<1>5. Delays \in 0 .. 4 /\ (pc["writer"] = "flush" => Delays <= 3)
  BY <1>4 DEF Delays
<1> QED BY <1>1, <1>2, <1>4, <1>5 DEF Chunks

LEMMA TimesTyped ==
  ASSUME TypeOK
  PROVE  /\ \A t \in Tasks : left[t] \in Nat /\ TimeToEnd(t) \in Nat
         /\ WriterTime \in Nat
<1>1. ASSUME NEW t \in Tasks PROVE left[t] \in Nat
  BY TypesSplit, TicksTyped, ProcsTyped DEF PlaceTypes
<1>2. WriteTicks * Chunks \in Nat /\ PassTicks * Delays \in Nat /\ FlushTicks \in Nat
  <2>1. /\ Chunks \in Nat /\ Delays \in Nat
        /\ WriteTicks \in Nat /\ PassTicks \in Nat /\ FlushTicks \in Nat
    BY CountsTyped, ConstantsTyped
  <2> QED BY <2>1, CostGrows
<1>3. WriterTime \in Nat
  BY <1>1, <1>2 DEF WriterTime, Tasks
<1> QED BY <1>1, <1>3 DEF TimeToEnd

\* When stop is requested no task needs longer than stop sleeps.
LEMMA SleepIsLongEnough ==
  ASSUME TypeOK, LeftInv, EnoughTime, NEW t \in Tasks
  PROVE  TimeToEnd(t) < StopTicks
<1> DEFINE V == VideoQueue + AudioQueue + 2
<1>1. /\ VideoQueue \in Nat /\ AudioQueue \in Nat /\ LoopTicks \in Nat
      /\ MicTicks \in Nat /\ WriteTicks \in Nat /\ StopTicks \in Nat
      /\ CameraTicks \in Nat /\ FlushTicks \in Nat /\ PassTicks \in Nat
  BY ConstantsTyped
<1>2. V \in Nat /\ VideoQueue + AudioQueue + 3 = V + 1
  BY <1>1
<1>3. Chunks \in Nat /\ Chunks <= V /\ Delays \in 0 .. 4 /\ (pc["writer"] = "flush" => Delays <= 3)
  BY CountsTyped
<1>4. left["writer"] \in Nat /\ left["video"] \in Nat /\ left["audio"] \in Nat
  BY TimesTyped DEF Tasks, Captures
<1> HIDE DEF V
<1>5. WriteTicks * Chunks \in Nat /\ WriteTicks * V \in Nat /\ WriteTicks * Chunks <= WriteTicks * V
  BY <1>1, <1>2, <1>3, CostGrows
<1>6. WriteTicks * (V + 1) = WriteTicks * V + WriteTicks
  BY <1>1, <1>2, CostOfOne
<1>7. /\ StopTicks > WriteTicks * V + WriteTicks + 4 * PassTicks + FlushTicks
      /\ StopTicks > MicTicks /\ StopTicks > CameraTicks + LoopTicks
  BY <1>2, <1>6 DEF EnoughTime
<1>8. WriterTime < StopTicks
  <2>1. /\ PassTicks * Delays \in Nat /\ PassTicks * Delays <= 4 * PassTicks
        /\ pc["writer"] = "flush" => PassTicks * Delays <= 3 * PassTicks
    BY <1>1, <1>3
  <2>2. CASE pc["writer"] = "flush"
    BY <1>1, <1>4, <1>5, <1>7, <2>1, <2>2 DEF WriterTime, LeftInv
  <2>4. CASE pc["writer"] = "close"
    BY <1>1, <1>4, <1>5, <1>7, <2>1, <2>4 DEF WriterTime, LeftInv
  <2>3. CASE pc["writer"] \notin {"flush", "close"}
    <3>1. left["writer"] <= WriteTicks \/ left["writer"] <= 0
      BY <2>3 DEF LeftInv
    <3> QED BY <1>1, <1>4, <1>5, <1>7, <2>1, <3>1 DEF WriterTime
  <2> QED BY <2>2, <2>3, <2>4
<1>9. left["video"] < StopTicks /\ left["audio"] < StopTicks
  BY <1>1, <1>4, <1>5, <1>7 DEF LeftInv
<1> QED BY <1>8, <1>9 DEF TimeToEnd, Tasks, Captures

-----------------------------------------------------------------------------
(* One client: the capture tasks *)

Silent == vq' = vq /\ aq' = aq

\* The places a capture task goes to, and what it does to the queues.
LEMMA CaptureMoves ==
  ASSUME TypeOK, NEW t \in Captures, Capture(t) \/ (t = "audio" /\ MicOpen)
  PROVE  /\ UNCHANGED recording
         /\ pc[t] # "off" /\ pc'[t] \in {"off", "loop", "read", "send"}
         /\ \A p \in Procs \ {t} : pc'[p] = pc[p] /\ left'[p] = left[p]
         /\ left'[t] = (IF pc'[t] # "read" THEN 0 ELSE ReadTicks(t))
         /\ pc'[t] = "read" => ~stop_requested
         /\ pc'[t] = "send" => pc[t] = "read"
         /\ \/ Silent
            \/ /\ pc[t] = "send" /\ pc'[t] = "loop"
               /\ \/ vq' = Sent(vq, VideoQueue) /\ aq' = aq
                  \/ aq' = Sent(aq, AudioQueue) /\ vq' = vq
<1>1. PlaceTypes /\ t \in Procs /\ "audio" \in Procs
  BY TypesSplit, ProcsTyped
<1>2. CASE t = "audio" /\ MicOpen
  <2>1. PICK l \in {"loop", "off"} : GotoFor("audio", l, 0)
    BY <1>2 DEF MicOpen, Goto
  <2> QED BY <1>1, <1>2, <2>1, Moved DEF MicOpen, Silent
<1>3. CASE CaptureEnds(t)
  BY <1>1, <1>3, Moved DEF CaptureEnds, Goto, Silent
<1>4. CASE CaptureGoesOn(t)
  BY <1>1, <1>4, Moved DEF CaptureGoesOn, Silent
<1>5. CASE CaptureNothing(t)
  BY <1>1, <1>5, Moved DEF CaptureNothing, Goto, Silent
<1>6. CASE CaptureChunk(t)
  BY <1>1, <1>6, Moved DEF CaptureChunk, Goto, Silent
<1>7. CASE SendChunk(t)
  BY <1>1, <1>7, Moved DEF SendChunk, Goto
<1> QED BY <1>2, <1>3, <1>4, <1>5, <1>6, <1>7 DEF Capture

\* A chunk that is sent after the request is late, and lengthens its queue by
\* one at most.
LEMMA SentLate ==
  ASSUME NEW q \in Seq(Chunk), NEW limit \in Nat
  PROVE  /\ Len(Sent(q, limit)) \in {Len(q), Len(q) + 1}
         /\ stop_requested /\ NoEarly(q) => NoEarly(Sent(q, limit))
         /\ Sent(q, limit) = q \/ Len(Sent(q, limit)) = Len(q) + 1
<1>1. Kind \in Chunk /\ (stop_requested => Kind # "early")
  BY DEF Kind, Chunk
<1>2. /\ Len(Append(q, Kind)) = Len(q) + 1
      /\ DOMAIN Append(q, Kind) = 1 .. Len(q) + 1 /\ DOMAIN q = 1 .. Len(q)
      /\ \A k \in 1 .. Len(q) : Append(q, Kind)[k] = q[k]
      /\ Append(q, Kind)[Len(q) + 1] = Kind /\ Len(q) \in Nat
  BY <1>1
<1>3. stop_requested /\ NoEarly(q) => NoEarly(Append(q, Kind))
  BY <1>1, <1>2 DEF NoEarly
<1> QED BY <1>2, <1>3 DEF Sent

\* A step of a capture task after the request leaves no more to do, for it or
\* for the writer.
LEMMA CaptureTimes ==
  ASSUME TypeOK, TypeOK', stop_requested, NEW t \in Captures, Capture(t) \/ (t = "audio" /\ MicOpen)
  PROVE  Chunks' <= Chunks /\ Delays' <= Delays
<1>1. /\ vq \in Seq(Chunk) /\ aq \in Seq(Chunk) /\ VideoQueue \in Nat /\ AudioQueue \in Nat
      /\ vq' \in Seq(Chunk) /\ aq' \in Seq(Chunk)
  BY ConstantsTyped DEF TypeOK
<1>2. "video" \in Procs /\ "audio" \in Procs /\ "writer" \in Procs /\ t \in {"video", "audio"}
  BY ProcsTyped DEF Captures
<1>3. pc'["writer"] = pc["writer"]
  BY <1>2, CaptureMoves
<1> DEFINE u == IF t = "video" THEN "audio" ELSE "video"
<1>4. /\ Pending("video") \in {0, 1} /\ Pending("audio") \in {0, 1}
      /\ Pending("video")' \in {0, 1} /\ Pending("audio")' \in {0, 1}
  BY DEF Pending
<1>5. /\ pc[u]' = pc[u] /\ u # t /\ u \in {"video", "audio"}
  BY <1>2, CaptureMoves
<1>6. CASE Silent
  <2>1. Pending(t)' <= Pending(t)
    BY <1>6, CaptureMoves DEF Pending
  <2>2. AllPending \in Nat /\ AllPending' \in Nat /\ AllPending' <= AllPending
    BY <1>2, <1>4, <1>5, <2>1 DEF AllPending, Pending
  <2>3. Delays' <= Delays
    <3>1. (vq' = <<>> <=> vq = <<>>) /\ (aq' = <<>> <=> aq = <<>>)
      BY <1>6 DEF Silent
    <3> QED BY <1>3, <2>2, <3>1 DEF Delays, AllPending, Pending
  <2>4. Len(vq') = Len(vq) /\ Len(aq') = Len(aq) /\ Len(vq) \in Nat /\ Len(aq) \in Nat
    BY <1>1, <1>6 DEF Silent
  <2> QED BY <2>2, <2>3, <2>4 DEF Chunks
<1>7. CASE /\ pc[t] = "send" /\ pc'[t] = "loop"
           /\ \/ vq' = Sent(vq, VideoQueue) /\ aq' = aq
              \/ aq' = Sent(aq, AudioQueue) /\ vq' = vq
  <2>1. Pending(t) = 1 /\ Pending(t)' = 0
    BY <1>7 DEF Pending
  <2>2. AllPending' = AllPending - 1 /\ AllPending \in Nat /\ AllPending' \in Nat
    BY <1>2, <1>4, <1>5, <2>1 DEF AllPending, Pending
  <2>3. /\ Len(vq) \in Nat /\ Len(aq) \in Nat /\ Len(vq') \in Nat /\ Len(aq') \in Nat
        /\ Len(vq') + Len(aq') <= Len(vq) + Len(aq) + 1
    BY <1>1, <1>7, SentLate
  <2>4. (vq = <<>> \/ vq' # <<>>) /\ (aq = <<>> \/ aq' # <<>>) /\ (vq' = vq \/ aq' = aq)
    BY <1>1, <1>7, SentLate
  <2> QED BY <1>3, <2>2, <2>3, <2>4 DEF Chunks, Delays
<1> QED BY <1>6, <1>7, CaptureMoves

\* Fewer ticks at the label, chunks and delays make no longer a time.
LEMMA NoLonger ==
  ASSUME NEW w \in Nat, NEW d \in Nat, NEW l \in Nat, NEW m \in Nat, NEW n \in Nat,
         NEW l2 \in Nat, NEW m2 \in Nat, NEW n2 \in Nat, l2 <= l, m2 <= m, n2 <= n
  PROVE  l2 + w * m2 + d * n2 <= l + w * m + d * n
<1>1. w * m2 <= w * m /\ d * n2 <= d * n
  BY CostGrows
<1>2. w * m2 \in Nat /\ w * m \in Nat /\ d * n2 \in Nat /\ d * n \in Nat
  BY CostGrows
<1> QED BY <1>1, <1>2

Counts ==
  /\ \A t \in Tasks : left[t] \in Nat /\ TimeToEnd(t) \in Nat
  /\ Chunks \in Nat /\ Delays \in Nat /\ WriterTime \in Nat

LEMMA CountsNext == TypeOK' => Counts'
<1>1. TypeOK => Counts
  BY CountsTyped, TimesTyped DEF Counts
<1> QED BY <1>1, PTL

\* The terms of WriterTime, before and after a step.
LEMMA WriterTimes ==
  ASSUME TypeOK, TypeOK', left'["writer"] <= left["writer"], Chunks' <= Chunks, Delays' <= Delays,
         pc["writer"] \notin {"close", "exit", "off"}
  PROVE  WriterTime' <= WriterTime
<1>1. /\ left["writer"] \in Nat /\ Chunks \in Nat /\ Delays \in Nat
      /\ WriteTicks \in Nat /\ PassTicks \in Nat /\ FlushTicks \in Nat
  BY CountsTyped, TimesTyped, ConstantsTyped DEF Tasks
<1>2. /\ left'["writer"] \in Nat /\ Chunks' \in Nat /\ Delays' \in Nat /\ WriterTime' \in Nat
  BY CountsNext DEF Counts, Tasks
<1>3. left'["writer"] + WriteTicks * Chunks' + PassTicks * Delays'
        <= left["writer"] + WriteTicks * Chunks + PassTicks * Delays
  BY <1>1, <1>2, NoLonger
<1>4. WriteTicks * Chunks \in Nat /\ PassTicks * Delays \in Nat
  BY <1>1, CostGrows
<1>5. WriterTime' \in {left'["writer"],
                      left'["writer"] + WriteTicks * Chunks' + PassTicks * Delays' + FlushTicks}
  BY DEF WriterTime
<1>6. WriterTime = left["writer"] + WriteTicks * Chunks + PassTicks * Delays + FlushTicks
  BY DEF WriterTime
<1> DEFINE w == WriteTicks * Chunks
           p == PassTicks * Delays
           wn == WriteTicks * Chunks'
           pn == PassTicks * Delays'
<1>7. wn \in Nat /\ pn \in Nat /\ w \in Nat /\ p \in Nat
  BY <1>1, <1>2, <1>4, CostTyped
<1> HIDE DEF w, p, wn, pn
<1>8. /\ WriterTime' \in {left'["writer"], left'["writer"] + wn + pn + FlushTicks}
      /\ WriterTime = left["writer"] + w + p + FlushTicks
      /\ left'["writer"] + wn + pn <= left["writer"] + w + p
  BY <1>3, <1>5, <1>6 DEF w, p, wn, pn
<1> QED BY <1>1, <1>2, <1>7, <1>8

\* A capture task that goes on keeps what is known of the recorder.
LEMMA CaptureStep ==
  ASSUME NEW c, Clients = {c}, TypeOK, TypeOK', OneClient(c),
         NEW t \in Captures, Capture(t) \/ (t = "audio" /\ MicOpen)
  PROVE  OneClient(c)'
<1> DEFINE others == Procs \ {t}
<1>1. /\ c \in others /\ "writer" \in others /\ t \in {"video", "audio"} /\ t \in Tasks /\ c \notin Tasks
      /\ Tasks = {"video", "audio", "writer"} /\ Procs = {c, "video", "audio", "writer"}
  BY OneClientProcs
<1>2. /\ UNCHANGED <<state, file, queues, stop_requested, mutex, lost>>
      /\ \A p \in others : pc'[p] = pc[p] /\ left'[p] = left[p]
      /\ pc[t] # "off" /\ pc'[t] \in {"off", "loop", "read", "send"}
  BY CaptureMoves DEF recording
<1>3. /\ left'[t] = (IF pc'[t] # "read" THEN 0 ELSE ReadTicks(t))
      /\ pc'[t] = "read" => ~stop_requested
  BY CaptureMoves
<1> HIDE DEF others
<1>4. Recording(c)' = Recording(c) /\ Stopping(c)' = Stopping(c)
  BY <1>1, <1>2 DEF Recording, Stopping
<1>5. PlaceInv(c)'
  BY <1>1, <1>2 DEF OneClient, PlaceInv, TaskLabels, others
<1>6. TasksInv(c)'
  <2>1. ~Off
    BY <1>1, <1>2 DEF Off
  <2> QED BY <1>1, <1>2, <1>4, <2>1 DEF OneClient, TasksInv
<1>7. FileInv(c)'
  BY <1>1, <1>2, <1>4 DEF OneClient, FileInv
<1>8. EarlyInv(c)'
  <2>1. /\ vq \in Seq(Chunk) /\ aq \in Seq(Chunk) /\ VideoQueue \in Nat /\ AudioQueue \in Nat
    BY ConstantsTyped DEF TypeOK
  <2>2. stop_requested => (NoEarly(vq) => NoEarly(vq')) /\ (NoEarly(aq) => NoEarly(aq'))
    BY <2>1, CaptureMoves, SentLate DEF Silent
  <2>3. Stopping(c) => stop_requested
    BY DEF OneClient, TasksInv
  <2> QED BY <1>1, <1>2, <1>4, <2>2, <2>3 DEF OneClient, EarlyInv, NoEarly
<1>9. LeftInv'
  <2>1. /\ "video" # "audio" /\ MicTicks \in Nat /\ LoopTicks \in Nat /\ CameraTicks \in Nat
    BY ConstantsTyped
  <2> QED BY <1>1, <1>2, <1>3, <2>1 DEF OneClient, LeftInv, ReadTicks, others
<1>10. SleepInv(c)'
  <2> SUFFICES ASSUME pc'[c] = "stop_wait", NEW u \in Tasks, pc'[u] # "off"
               PROVE  left'[c] > TimeToEnd(u)'
    BY DEF SleepInv
  <2>1. pc[c] = "stop_wait" /\ stop_requested /\ left'[c] = left[c]
    BY <1>1, <1>2 DEF OneClient, TasksInv, Stopping
  <2>2. pc[u] # "off" /\ left[c] > TimeToEnd(u) /\ left[c] \in Nat /\ TimeToEnd(u) \in Nat
    BY <1>1, <1>2, <2>1, TimesTyped, TypesSplit, TicksTyped DEF OneClient, SleepInv, PlaceTypes, others
  <2>3. CASE u = t
    BY <1>1, <1>2, <1>3, <2>1, <2>2, <2>3 DEF TimeToEnd
  <2>4. CASE u \in Captures \ {t}
    BY <1>1, <1>2, <2>1, <2>2, <2>4 DEF TimeToEnd, Captures, others
  <2>5. CASE u = "writer"
    <3>1. WriterTime \in Nat /\ WriterTime' \in Nat
      BY TimesTyped, CountsNext DEF Counts
    <3>2. left'["writer"] = left["writer"] /\ pc'["writer"] = pc["writer"] /\ left["writer"] \in Nat
      BY <1>1, <1>2, TimesTyped
    <3>3. CASE pc["writer"] \in {"close", "exit", "off"}
      BY <2>1, <2>2, <2>5, <3>2, <3>3 DEF TimeToEnd, WriterTime
    <3>4. CASE pc["writer"] \notin {"close", "exit", "off"}
      <4>1. WriterTime' <= WriterTime
        BY <2>1, <3>2, <3>4, CaptureTimes, WriterTimes
      <4> QED BY <2>1, <2>2, <2>5, <3>1, <4>1 DEF TimeToEnd
    <3> QED BY <3>3, <3>4
  <2> QED BY <1>1, <2>3, <2>4, <2>5, OneClientProcs
<1> QED BY <1>5, <1>6, <1>7, <1>8, <1>9, <1>10 DEF OneClient

-----------------------------------------------------------------------------
(* One client: the writer *)

\* The writer's steps and what they take from the queues.
LEMMA WriterMoves ==
  ASSUME TypeOK, Writer
  PROVE  /\ \A p \in Procs \ {"writer"} : pc'[p] = pc[p] /\ left'[p] = left[p]
         /\ UNCHANGED <<queues, stop_requested, mutex, lost, spoiled>>
         /\ vq' = vq \/ (vq # <<>> /\ vq' = Tail(vq))
         /\ aq' = aq \/ (aq # <<>> /\ aq' = Tail(aq))
<1>1. PlaceTypes /\ "writer" \in Procs
  BY TypesSplit, ProcsTyped
<1>2. PICK l, n : GotoFor("writer", l, n)
  BY DEF Writer, WriterLooks, WriterLooksLast, WriterTakesVideo, WriterTakesAudio, WriterWrites,
         WriterCloses, WriterExits, Goto
<1>3. \A p \in Procs \ {"writer"} : pc'[p] = pc[p] /\ left'[p] = left[p]
  BY <1>1, <1>2, Moved
<1>4. UNCHANGED <<queues, stop_requested, mutex, lost, spoiled>>
  BY DEF Writer, WriterLooks, WriterLooksLast, WriterTakesVideo, WriterTakesAudio, WriterWrites,
         WriterCloses, WriterExits, recording
<1>5. /\ vq' = vq \/ (vq # <<>> /\ vq' = Tail(vq))
      /\ aq' = aq \/ (aq # <<>> /\ aq' = Tail(aq))
  BY DEF Writer, WriterLooks, WriterLooksLast, WriterTakesVideo, WriterTakesAudio, WriterWrites,
         WriterCloses, WriterExits
<1> QED BY <1>3, <1>4, <1>5

Passes(from, to, ticks) ==
  pc["writer"] = from /\ pc'["writer"] = to /\ left'["writer"] = ticks

\* The ways through the loop and out of it.
LEMMA WriterPlaces ==
  ASSUME TypeOK, Writer
  PROVE  \/ /\ UNCHANGED <<state, file>> /\ Silent
            /\ \/ Passes("loop", IF stop_requested THEN "look_video" ELSE "take_video", 0)
               \/ Passes("look_video", IF vq = <<>> THEN "look_audio" ELSE "take_video", 0)
               \/ Passes("look_audio", "close", FlushTicks) /\ aq = <<>>
               \/ Passes("look_audio", "take_video", 0) /\ aq # <<>>
               \/ Passes("take_video", "take_audio", 0) /\ vq = <<>>
               \/ Passes("take_audio", "flush", PassTicks) /\ aq = <<>>
               \/ Passes("write_video", "take_video", 0)
               \/ Passes("write_audio", "take_audio", 0)
               \/ Passes("flush", "loop", 0)
         \/ /\ UNCHANGED <<state, file>> /\ vq # <<>> /\ vq' = Tail(vq) /\ aq' = aq
            /\ Passes("take_video", "write_video", WriteTicks)
         \/ /\ UNCHANGED <<state, file>> /\ aq # <<>> /\ aq' = Tail(aq) /\ vq' = vq
            /\ Passes("take_audio", "write_audio", WriteTicks)
         \/ /\ state' = state /\ file' = FALSE /\ Silent /\ Passes("close", "exit", 0)
         \/ /\ state' = "IDLE" /\ file' = file /\ Silent /\ Passes("exit", "off", 0)
<1> USE DEF Passes
<1>1. PlaceTypes /\ "writer" \in Procs
  BY TypesSplit, ProcsTyped
<1>2. CASE WriterLooks
  BY <1>1, <1>2, Moved DEF WriterLooks, Goto, recording, Silent
<1>3. CASE WriterLooksLast
  BY <1>1, <1>3, Moved DEF WriterLooksLast, NothingLeft, Goto, recording, Silent
<1>4. CASE WriterTakesVideo
  BY <1>1, <1>4, Moved DEF WriterTakesVideo, Goto, recording, Silent
<1>5. CASE WriterTakesAudio
  BY <1>1, <1>5, Moved DEF WriterTakesAudio, PassTicks, recording, Silent
<1>6. CASE WriterWrites
  BY <1>1, <1>6, Moved DEF WriterWrites, Goto, recording, Silent
<1>7. CASE WriterCloses
  BY <1>1, <1>7, Moved DEF WriterCloses, Closed, Goto, Silent
<1>8. CASE WriterExits
  BY <1>1, <1>8, Moved DEF WriterExits, Goto, Silent
<1> QED BY <1>2, <1>3, <1>4, <1>5, <1>6, <1>7, <1>8 DEF Writer

\* A step of the writer after the request takes nothing from the time it had.
LEMMA WriterTimeKept ==
  ASSUME TypeOK, TypeOK', Writer, stop_requested, LeftInv,
         /\ pc'["video"] = pc["video"] /\ pc'["audio"] = pc["audio"]
  PROVE  WriterTime' <= WriterTime
<1>1. /\ vq \in Seq(Chunk) /\ aq \in Seq(Chunk) /\ Len(vq) \in Nat /\ Len(aq) \in Nat
  BY DEF TypeOK
<1>2. /\ vq # <<>> => Len(Tail(vq)) = Len(vq) - 1
      /\ aq # <<>> => Len(Tail(aq)) = Len(aq) - 1
  BY <1>1
<1>3. AllPending' = AllPending /\ AllPending \in Nat
  BY DEF AllPending, Pending
<1>4. /\ WriteTicks \in Nat /\ PassTicks \in Nat /\ FlushTicks \in Nat /\ left["writer"] \in Nat
      /\ Chunks \in Nat /\ Delays \in Nat /\ WriterTime \in Nat
      /\ Chunks' \in Nat /\ Delays' \in Nat /\ WriterTime' \in Nat
  BY CountsTyped, TimesTyped, ConstantsTyped, CountsNext DEF Tasks, Counts
<1> DEFINE ends == {"close", "exit", "off"}
           W(n) == WriteTicks * n
           L(n) == PassTicks * n
<1>11. /\ pc["writer"] \notin ends =>
            WriterTime = left["writer"] + W(Chunks) + L(Delays) + FlushTicks
       /\ pc'["writer"] \notin ends =>
            WriterTime' = left'["writer"] + W(Chunks') + L(Delays') + FlushTicks
  BY DEF WriterTime
<1>12. /\ W(Chunks) \in Nat /\ W(Chunks') \in Nat
       /\ L(Delays) \in Nat /\ L(Delays') \in Nat
  BY <1>4, CostTyped
<1> HIDE DEF W, L
<1>5. CASE Passes("close", "exit", 0) \/ Passes("exit", "off", 0)
  BY <1>4, <1>5 DEF Passes, WriterTime
<1>6. CASE Passes("look_audio", "close", FlushTicks)
  <2>1. /\ WriterTime = left["writer"] + W(Chunks) + L(Delays) + FlushTicks
        /\ WriterTime' = FlushTicks
    BY <1>6, <1>11 DEF Passes, WriterTime
  <2> QED BY <1>4, <1>12, <2>1
<1>7. CASE Passes("take_video", "write_video", WriteTicks) /\ vq # <<>> /\ vq' = Tail(vq) /\ aq' = aq
  <2>1. Chunks = Chunks' + 1
    BY <1>1, <1>2, <1>3, <1>7 DEF Chunks
  <2>2. Delays' = Delays
    BY <1>3, <1>7 DEF Delays, Passes
  <2>3. W(Chunks) = W(Chunks') + WriteTicks
    BY <1>4, <2>1, CostOfOne DEF W
  <2>4. /\ WriterTime = left["writer"] + W(Chunks) + L(Delays) + FlushTicks
        /\ WriterTime' = WriteTicks + W(Chunks') + L(Delays') + FlushTicks
    BY <1>7, <1>11 DEF Passes
  <2> QED BY <1>4, <1>12, <2>2, <2>3, <2>4
<1>8. CASE Passes("take_audio", "write_audio", WriteTicks) /\ aq # <<>> /\ aq' = Tail(aq) /\ vq' = vq
  <2>1. Chunks = Chunks' + 1
    BY <1>1, <1>2, <1>3, <1>8 DEF Chunks
  <2>2. Delays' = Delays
    BY <1>3, <1>8 DEF Delays, Passes
  <2>3. W(Chunks) = W(Chunks') + WriteTicks
    BY <1>4, <2>1, CostOfOne DEF W
  <2>4. /\ WriterTime = left["writer"] + W(Chunks) + L(Delays) + FlushTicks
        /\ WriterTime' = WriteTicks + W(Chunks') + L(Delays') + FlushTicks
    BY <1>8, <1>11 DEF Passes
  <2> QED BY <1>4, <1>12, <2>2, <2>3, <2>4
<1>9. CASE Passes("take_audio", "flush", PassTicks) /\ aq = <<>> /\ Silent
  <2>1. Chunks' = Chunks
    BY <1>3, <1>9 DEF Chunks, Silent
  <2>2. Delays = Delays' + 1
    BY <1>3, <1>9 DEF Delays, Passes, Silent
  <2>3. L(Delays) = L(Delays') + PassTicks
    BY <1>4, <2>2, CostOfOne DEF L
  <2>4. /\ WriterTime = left["writer"] + W(Chunks) + L(Delays) + FlushTicks
        /\ WriterTime' = PassTicks + W(Chunks') + L(Delays') + FlushTicks
    BY <1>9, <1>11 DEF Passes
  <2> QED BY <1>4, <1>12, <2>1, <2>3, <2>4
<1>10. CASE /\ Silent
            /\ \/ Passes("loop", "look_video", 0)
               \/ Passes("look_video", IF vq = <<>> THEN "look_audio" ELSE "take_video", 0)
               \/ Passes("look_audio", "take_video", 0) /\ aq # <<>>
               \/ Passes("take_video", "take_audio", 0) /\ vq = <<>>
               \/ Passes("write_video", "take_video", 0)
               \/ Passes("write_audio", "take_audio", 0)
               \/ Passes("flush", "loop", 0)
  <2>1. Chunks' = Chunks
    BY <1>3, <1>10 DEF Chunks, Silent
  <2>2. Delays' = Delays
    BY <1>3, <1>10 DEF Delays, Passes, Silent
  <2>3. left'["writer"] <= left["writer"] /\ pc["writer"] \notin {"close", "exit", "off"}
    BY <1>4, <1>10 DEF Passes
  <2> QED BY <1>4, <2>1, <2>2, <2>3, WriterTimes
<1> QED BY <1>5, <1>6, <1>7, <1>8, <1>9, <1>10, WriterPlaces

\* A writer that goes on keeps what is known of the recorder.
LEMMA WriterStep ==
  ASSUME NEW c, Clients = {c}, TypeOK, TypeOK', OneClient(c), Writer
  PROVE  OneClient(c)'
<1>1. /\ c \in Procs /\ c # "writer" /\ c \notin Tasks /\ "video" # "writer" /\ "audio" # "writer"
      /\ Tasks = {"video", "audio", "writer"} /\ Procs = {c, "video", "audio", "writer"}
  BY OneClientProcs
<1>2. /\ pc'[c] = pc[c] /\ left'[c] = left[c]
      /\ pc'["video"] = pc["video"] /\ left'["video"] = left["video"]
      /\ pc'["audio"] = pc["audio"] /\ left'["audio"] = left["audio"]
      /\ UNCHANGED <<queues, stop_requested, mutex, lost, spoiled>>
  BY <1>1, WriterMoves
<1>3. pc["writer"] # "off"
  BY WriterPlaces DEF Passes
<1>4. Recording(c) \/ Stopping(c)
  BY <1>1, <1>3 DEF OneClient, TasksInv, Off
<1>5. state' = state \/ (state' = "IDLE" /\ pc["writer"] = "exit" /\ Stopping(c))
  BY <1>4, WriterPlaces DEF OneClient, TasksInv, Passes
<1>6. Recording(c)' = Recording(c) /\ Stopping(c)' = Stopping(c)
  BY <1>2, <1>5 DEF Recording, Stopping
<1>7. PlaceInv(c)'
  <2>1. pc'["writer"] \in TaskLabels
    BY WriterPlaces DEF Passes, TaskLabels
  <2> QED BY <1>1, <1>2, <1>5, <2>1 DEF OneClient, PlaceInv, Stopping
<1>8. TasksInv(c)'
  <2>1. Recording(c) => pc'["writer"] \notin {"off", "look_video", "look_audio", "close", "exit"}
    BY WriterPlaces DEF OneClient, TasksInv, Passes
  <2> QED BY <1>2, <1>4, <1>6, <2>1 DEF OneClient, TasksInv
<1>9. FileInv(c)'
  <2>1. pc'["writer"] \in {"exit", "off"} => ~file' \/ (pc["writer"] \in {"exit", "off"} /\ file' = file)
    BY WriterPlaces DEF Passes
  <2>2. pc'[c] # "start_mutex" /\ ~(pc'[c] = "idle" /\ state' # "RECORDING")
    BY <1>2, <1>4, <1>6 DEF Recording, Stopping
  <2> QED BY <1>4, <1>6, <2>1, <2>2 DEF OneClient, FileInv, TasksInv
<1>10. EarlyInv(c)'
  <2>1. /\ vq \in Seq(Chunk) /\ aq \in Seq(Chunk)
    BY DEF TypeOK
  <2>2. ASSUME NEW q \in Seq(Chunk), NoEarly(q), q # <<>>
        PROVE  NoEarly(Tail(q))
    <3>1. /\ DOMAIN Tail(q) = 1 .. Len(q) - 1 /\ DOMAIN q = 1 .. Len(q) /\ Len(q) \in Nat
          /\ \A k \in 1 .. Len(q) - 1 : Tail(q)[k] = q[k + 1]
      BY <2>2
    <3> QED BY <2>2, <3>1 DEF NoEarly
  <2>3. NoEarly(<<>>)
    BY DEF NoEarly
  <2>4. Stopping(c) /\ pc'["writer"] \in {"look_audio", "close", "exit", "off"} => NoEarly(vq')
    BY <2>3, WriterPlaces DEF OneClient, EarlyInv, Passes, Silent
  <2>5. Stopping(c) /\ pc'["writer"] \in {"close", "exit", "off"} => NoEarly(aq')
    BY <2>3, WriterPlaces DEF OneClient, EarlyInv, Passes, Silent
  <2> QED BY <1>2, <1>6, <2>4, <2>5 DEF OneClient, EarlyInv, NoEarly
<1>11. LeftInv'
  <2>1. left'["writer"] = (IF pc'["writer"] \in {"write_video", "write_audio"} THEN WriteTicks
                           ELSE IF pc'["writer"] = "flush" THEN PassTicks
                           ELSE IF pc'["writer"] = "close" THEN FlushTicks ELSE 0)
    BY WriterPlaces DEF Passes
  <2>2. WriteTicks \in Nat /\ PassTicks \in Nat /\ FlushTicks \in Nat
    BY ConstantsTyped
  <2> QED BY <1>2, <2>1, <2>2 DEF OneClient, LeftInv
<1>12. SleepInv(c)'
  <2> SUFFICES ASSUME pc'[c] = "stop_wait", NEW u \in Tasks, pc'[u] # "off"
               PROVE  left'[c] > TimeToEnd(u)'
    BY DEF SleepInv
  <2>1. pc[c] = "stop_wait" /\ stop_requested /\ left'[c] = left[c]
    BY <1>2 DEF OneClient, TasksInv, Stopping
  <2>2. pc[u] # "off" /\ left[c] > TimeToEnd(u) /\ left[c] \in Nat /\ TimeToEnd(u) \in Nat
    BY <1>1, <1>2, <1>3, <2>1, TimesTyped, TypesSplit, TicksTyped DEF OneClient, SleepInv, PlaceTypes
  <2>3. CASE u # "writer"
    BY <1>1, <1>2, <2>1, <2>2, <2>3 DEF TimeToEnd
  <2>4. CASE u = "writer"
    <3>1. WriterTime' <= WriterTime /\ WriterTime \in Nat /\ WriterTime' \in Nat
      BY <1>2, <2>1, WriterTimeKept, TimesTyped, CountsNext DEF OneClient, Counts
    <3> QED BY <2>1, <2>2, <2>4, <3>1 DEF TimeToEnd
  <2> QED BY <2>3, <2>4
<1> QED BY <1>7, <1>8, <1>9, <1>10, <1>11, <1>12 DEF OneClient

-----------------------------------------------------------------------------
(* One client: time *)

\* Time passes for the sleeping client and for the tasks alike.
LEMMA TickStep ==
  ASSUME NEW c, Clients = {c}, TypeOK, TypeOK', OneClient(c), Tick
  PROVE  OneClient(c)'
<1>1. /\ c \in Procs /\ c \notin Tasks
      /\ Tasks = {"video", "audio", "writer"} /\ Procs = {c, "video", "audio", "writer"}
  BY OneClientProcs
<1>2. /\ pc' = pc
      /\ \A p \in Procs : ~Unhurried(p) => left[p] > 0 /\ left'[p] = left[p] - 1
      /\ \A p \in Procs : Unhurried(p) => left'[p] = 0
  BY TickMoves
<1>3. UNCHANGED <<state, file, queues, vq, aq, stop_requested, mutex, lost>>
  BY DEF Tick, recording
<1>4. PlaceInv(c)' /\ TasksInv(c)' /\ FileInv(c)' /\ EarlyInv(c)'
  <2>1. PlaceInv(c)'
    BY <1>2, <1>3 DEF OneClient, PlaceInv
  <2>2. TasksInv(c)'
    BY <1>2, <1>3 DEF OneClient, TasksInv, Recording, Stopping, Off
  <2>3. FileInv(c)'
    BY <1>2, <1>3 DEF OneClient, FileInv, Stopping
  <2>4. EarlyInv(c)'
    BY <1>2, <1>3 DEF OneClient, EarlyInv, Stopping, NoEarly
  <2> QED BY <2>1, <2>2, <2>3, <2>4
<1>5. \A t \in Tasks : left[t] \in Nat /\ left'[t] \in Nat /\ left'[t] <= left[t]
  <2>1. \A t \in Tasks : left[t] \in Nat /\ left'[t] \in Nat
    BY TimesTyped, CountsNext DEF Counts
  <2> QED BY <1>1, <1>2, <2>1
<1>6. LeftInv'
  <2>1. /\ MicTicks \in Nat /\ LoopTicks \in Nat /\ WriteTicks \in Nat
        /\ CameraTicks \in Nat /\ FlushTicks \in Nat /\ PassTicks \in Nat
    BY ConstantsTyped
  <2> QED BY <1>1, <1>2, <1>5, <2>1 DEF OneClient, LeftInv
<1>7. SleepInv(c)'
  <2> SUFFICES ASSUME pc'[c] = "stop_wait", NEW u \in Tasks, pc'[u] # "off"
               PROVE  left'[c] > TimeToEnd(u)'
    BY DEF SleepInv
  <2>1. /\ pc[u] # "off" /\ left[c] > TimeToEnd(u)
        /\ left[c] \in Nat /\ TimeToEnd(u) \in Nat /\ TimeToEnd(u)' \in Nat
    BY <1>1, <1>2, TimesTyped, TypesSplit, TicksTyped, CountsNext DEF OneClient, SleepInv, PlaceTypes, Counts
  <2>2. /\ left'[c] = left[c] - 1 /\ left'[u] = left[u] - 1 /\ left[u] > 0 /\ left[u] \in Nat
    BY <1>1, <1>2, <1>5, <2>1 DEF Unhurried, OneClient, PlaceInv, TaskLabels
  <2>3. CASE u # "writer"
    BY <1>1, <2>1, <2>2, <2>3 DEF TimeToEnd
  <2>5. CASE u = "writer" /\ pc["writer"] \in {"close", "exit", "off"}
    BY <1>2, <2>1, <2>2, <2>5 DEF TimeToEnd, WriterTime
  <2>4. CASE u = "writer" /\ pc["writer"] \notin {"close", "exit", "off"}
    <3>2. Chunks' = Chunks /\ Delays' = Delays
      BY <1>2, <1>3 DEF Chunks, Delays, AllPending, Pending
    <3>3. /\ WriterTime = left["writer"] + WriteTicks * Chunks + PassTicks * Delays + FlushTicks
          /\ WriterTime' = left'["writer"] + WriteTicks * Chunks' + PassTicks * Delays' + FlushTicks
      BY <1>2, <2>4 DEF WriterTime
    <3>4. WriteTicks * Chunks \in Nat /\ PassTicks * Delays \in Nat /\ FlushTicks \in Nat
      BY ConstantsTyped, CountsTyped, CostTyped
    <3> QED BY <2>1, <2>2, <2>4, <3>2, <3>3, <3>4 DEF TimeToEnd
  <2> QED BY <2>3, <2>4, <2>5
<1> QED BY <1>4, <1>6, <1>7 DEF OneClient

-----------------------------------------------------------------------------
(* One client: start and stop *)

\* A step that moves the client alone leaves the tasks as they were.
LEMMA TasksKept ==
  ASSUME TypeOK, NEW c \in Clients, NEW l, NEW n, GotoFor(c, l, n), LeftInv
  PROVE  /\ pc'[c] = l /\ left'[c] = n
         /\ \A t \in Tasks : pc'[t] = pc[t] /\ left'[t] = left[t]
         /\ LeftInv'
<1>1. /\ pc'[c] = l /\ left'[c] = n
      /\ \A t \in Tasks : pc'[t] = pc[t] /\ left'[t] = left[t]
  BY Moved, TypesSplit, ProcsTyped
<1> QED BY <1>1 DEF LeftInv, Tasks, Captures

\* What start and stop keep, with time enough for the sleep of stop.
LEMMA ClientStep ==
  ASSUME NEW c, Clients = {c}, EnoughTime, TypeOK, TypeOK', OneClient(c), Client(c), ~spoiled'
  PROVE  OneClient(c)'
<1>1. /\ c \in Procs /\ c \in Clients /\ c \notin Tasks
      /\ Tasks = {"video", "audio", "writer"} /\ Procs = {c, "video", "audio", "writer"}
  BY OneClientProcs
<1>2. PlaceInv(c) /\ TasksInv(c) /\ FileInv(c) /\ EarlyInv(c) /\ LeftInv /\ SleepInv(c)
  BY DEF OneClient
<1> USE DEF PlaceInv, TasksInv, FileInv, EarlyInv, SleepInv, Recording, Stopping, Off, ClientLabels
<1>3. CASE StartCall(c)
  <2>1. /\ pc[c] = "idle" /\ state = "IDLE" /\ GotoFor(c, "start_mutex", 0)
        /\ UNCHANGED <<state, file, queues, vq, aq, stop_requested, mutex, lost>>
    BY <1>3 DEF StartCall, MayStart, Goto, recording
  <2>2. pc'[c] = "start_mutex" /\ LeftInv' /\ \A t \in Tasks : pc'[t] = pc[t]
    BY <1>1, <1>2, <2>1, TasksKept
  <2> QED BY <1>1, <1>2, <2>1, <2>2 DEF OneClient
<1>4. CASE StartBusy(c)
  BY <1>2, <1>4 DEF StartBusy, vars, OneClient, LeftInv, TimeToEnd, WriterTime, Chunks, Delays, AllPending, Pending, NoEarly
<1>5. CASE TakeMutex(c)
  <2>1. PICK l \in {"start_open", "stop_flag"} :
          /\ pc[c] = (IF l = "start_open" THEN "start_mutex" ELSE "stop_mutex")
          /\ GotoFor(c, l, 0) /\ mutex' = {c}
          /\ UNCHANGED <<state, file, queues, vq, aq, stop_requested, lost>>
    BY <1>5 DEF TakeMutex, Goto
  <2>2. pc'[c] = l /\ LeftInv' /\ \A t \in Tasks : pc'[t] = pc[t]
    BY <1>1, <1>2, <2>1, TasksKept
  <2> QED BY <1>1, <1>2, <2>1, <2>2 DEF OneClient, NoEarly
<1>6. CASE StartFails(c)
  <2>1. /\ pc[c] = "start_open" /\ GotoFor(c, "idle", 0) /\ file' = FALSE /\ mutex' = mutex \ {c}
        /\ UNCHANGED <<state, queues, vq, aq, stop_requested, lost>>
    BY <1>6 DEF StartFails, Goto, GiveMutex
  <2>2. pc'[c] = "idle" /\ LeftInv' /\ \A t \in Tasks : pc'[t] = pc[t]
    BY <1>1, <1>2, <2>1, TasksKept
  <2> QED BY <1>1, <1>2, <2>1, <2>2 DEF OneClient
<1>7. CASE StartOpens(c)
  <2>1. /\ pc[c] = "start_open" /\ GotoFor(c, "start_tasks", 0) /\ queues' = TRUE /\ stop_requested' = FALSE
        /\ UNCHANGED <<state, mutex, lost>>
    BY <1>7 DEF StartOpens, Goto
  <2>2. pc'[c] = "start_tasks" /\ LeftInv' /\ \A t \in Tasks : pc'[t] = pc[t]
    BY <1>1, <1>2, <2>1, TasksKept
  <2> QED BY <1>1, <1>2, <2>1, <2>2 DEF OneClient
<1>8. CASE StartCreates(c)
  <2>1. /\ pc[c] = "start_tasks"
        /\ UNCHANGED <<state, file, queues, vq, aq, stop_requested, mutex, lost>>
    BY <1>8 DEF StartCreates, recording
  <2>2. pc'[c] = "start_state" /\ \A t \in Tasks : pc'[t] = Entry(t) /\ left'[t] = 0
    BY <1>1, <1>8 DEF StartCreates, Creates
  <2>3. LeftInv'
    BY <1>1, <2>2, ConstantsTyped DEF LeftInv, Entry
  <2> QED BY <1>1, <1>2, <2>1, <2>2, <2>3 DEF OneClient, Entry, TaskLabels
<1>9. CASE StartReturns(c)
  <2>1. /\ pc[c] = "start_state" /\ GotoFor(c, "idle", 0) /\ state' = "RECORDING" /\ mutex' = mutex \ {c}
        /\ UNCHANGED <<file, queues, vq, aq, stop_requested, lost>>
    BY <1>9 DEF StartReturns, Goto, GiveMutex
  <2>2. pc'[c] = "idle" /\ LeftInv' /\ \A t \in Tasks : pc'[t] = pc[t]
    BY <1>1, <1>2, <2>1, TasksKept
  <2> QED BY <1>1, <1>2, <2>1, <2>2 DEF OneClient
<1>10. CASE StopCall(c)
  <2>1. /\ pc[c] = "idle" /\ state = "RECORDING" /\ GotoFor(c, "stop_mutex", 0)
        /\ UNCHANGED <<state, file, queues, vq, aq, stop_requested, mutex, lost>>
    BY <1>10 DEF StopCall, Goto, recording
  <2>2. pc'[c] = "stop_mutex" /\ LeftInv' /\ \A t \in Tasks : pc'[t] = pc[t]
    BY <1>1, <1>2, <2>1, TasksKept
  <2> QED BY <1>1, <1>2, <2>1, <2>2 DEF OneClient
<1>11. CASE StopRequest(c)
  <2>1. /\ pc[c] = "stop_flag" /\ GotoFor(c, "stop_state", 0) /\ stop_requested' = TRUE
        /\ UNCHANGED <<state, file, queues, vq, aq, mutex, lost>>
    BY <1>11 DEF StopRequest, Goto
  <2>2. pc'[c] = "stop_state" /\ LeftInv' /\ \A t \in Tasks : pc'[t] = pc[t]
    BY <1>1, <1>2, <2>1, TasksKept
  <2> QED BY <1>1, <1>2, <2>1, <2>2 DEF OneClient
<1>12. CASE StopState(c)
  <2>1. /\ pc[c] = "stop_state" /\ GotoFor(c, "stop_wait", StopTicks) /\ state' = "STOPPING"
        /\ UNCHANGED <<file, queues, vq, aq, stop_requested, mutex, lost>>
    BY <1>12 DEF StopState, StopDelay
  <2>2. /\ pc'[c] = "stop_wait" /\ left'[c] = StopTicks /\ LeftInv'
        /\ \A t \in Tasks : pc'[t] = pc[t] /\ left'[t] = left[t]
    BY <1>1, <1>2, <2>1, TasksKept
  <2>3. ASSUME NEW t \in Tasks PROVE left'[c] > TimeToEnd(t)'
    <3>1. TimeToEnd(t)' = TimeToEnd(t)
      BY <1>1, <2>1, <2>2 DEF TimeToEnd, WriterTime, Chunks, Delays, AllPending, Pending
    <3>2. TimeToEnd(t) < StopTicks /\ TimeToEnd(t) \in Nat /\ StopTicks \in Nat
      BY <1>2, SleepIsLongEnough, TimesTyped, ConstantsTyped
    <3> QED BY <2>2, <3>1, <3>2
  <2>4. SleepInv(c)'
    BY <2>3
  <2> HIDE DEF SleepInv
  <2>5. PlaceInv(c)' /\ TasksInv(c)' /\ FileInv(c)'
    BY <1>1, <1>2, <2>1, <2>2
  <2>6. EarlyInv(c)'
    BY <1>1, <1>2, <2>1, <2>2 DEF NoEarly
  <2> QED BY <2>2, <2>4, <2>5, <2>6 DEF OneClient
<1>13. CASE StopReturns(c)
  <2>1. /\ pc[c] = "stop_wait" /\ left[c] = 0 /\ GotoFor(c, "idle", 0)
        /\ mutex' = mutex \ {c} /\ lost' = lost \cup Dropped
        /\ UNCHANGED <<state, file, stop_requested>>
    BY <1>13 DEF StopReturns, Goto, GiveMutex, DeleteQueues
  <2>2. pc'[c] = "idle" /\ LeftInv' /\ \A t \in Tasks : pc'[t] = pc[t]
    BY <1>1, <1>2, <2>1, TasksKept
  <2>3. Off
    <3>1. \A t \in Tasks : TimeToEnd(t) \in Nat
      BY TimesTyped
    <3> QED BY <1>2, <2>1, <3>1
  <2>4. ~file /\ NoEarly(vq) /\ NoEarly(aq)
    BY <1>1, <1>2, <2>1, <2>3
  <2>5. "early" \notin lost'
    BY <1>2, <2>1, <2>4 DEF Dropped, NoEarly
  <2> QED BY <1>1, <1>2, <2>1, <2>2, <2>3, <2>4, <2>5 DEF OneClient
<1>14. ~StartCreatesSome(c) /\ ~StartAborts(c)
  BY <1>2 DEF StartCreatesSome, StartAborts
<1> QED BY <1>3, <1>4, <1>5, <1>6, <1>7, <1>8, <1>9, <1>10, <1>11, <1>12, <1>13, <1>14 DEF Client

LEMMA IInvStep ==
  ASSUME NEW c, Clients = {c}, EnoughTime, IInv(c), [Next]_vars
  PROVE  IInv(c)'
<1>1. TypeOK /\ TypeOK'
  BY TypeStep DEF IInv
<1>2. SUFFICES ASSUME ~spoiled' PROVE OneClient(c)'
  BY <1>1 DEF IInv
<1>3. ~spoiled
  BY <1>1, <1>2, SpoiledStays
<1>4. OneClient(c)
  BY <1>3 DEF IInv
<1>5. CASE UNCHANGED vars
  BY <1>4, <1>5 DEF vars, OneClient, PlaceInv, TasksInv, FileInv, EarlyInv, LeftInv, SleepInv, Recording,
     Stopping, Off, NoEarly, TimeToEnd, WriterTime, Chunks, Delays, AllPending, Pending
<1>6. CASE Next
  <2>1. CASE MicOpen
    BY <1>1, <1>4, <2>1, CaptureStep, OneClientProcs
  <2>2. CASE \E t \in Captures : Capture(t)
    BY <1>1, <1>4, <2>2, CaptureStep
  <2>3. CASE \E d \in Clients : Client(d)
    BY <1>1, <1>2, <1>4, <2>3, ClientStep
  <2> QED BY <1>1, <1>4, <1>6, <2>1, <2>2, <2>3, WriterStep, TickStep DEF Next
<1> QED BY <1>5, <1>6

LEMMA IInvInit ==
  ASSUME NEW c, Clients = {c}, Init
  PROVE  IInv(c)
<1>1. c \in Procs /\ c \notin Tasks /\ Tasks = {"video", "audio", "writer"} /\ Tasks \subseteq Procs
  BY OneClientProcs
<1>2. /\ pc[c] = "idle" /\ left[c] = 0 /\ \A t \in Tasks : pc[t] = "off" /\ left[t] = 0
  BY <1>1 DEF Init
<1>3. OneClient(c)
  BY <1>1, <1>2 DEF Init, OneClient, PlaceInv, TasksInv, FileInv, EarlyInv, LeftInv, SleepInv, Recording,
     Stopping, Off, ClientLabels, TaskLabels
<1> QED BY <1>3, TypesInit DEF IInv

LEMMA Invariance ==
  ASSUME NEW c, Clients = {c}, EnoughTime
  PROVE  Spec => []IInv(c)
<1>1. Init => IInv(c)
  BY IInvInit
<1>2. IInv(c) /\ [Next]_vars => IInv(c)'
  BY IInvStep
<1> QED BY <1>1, <1>2, PTL DEF Spec

-----------------------------------------------------------------------------
(* The theorems about one client *)

\* svc_av_recorder_stop deletes the queues only when the three tasks are
\* gone, though it waits for none of them.
THEOREM QueuesOutliveTasks ==
  ASSUME NEW c, Clients = {c}, EnoughTime
  PROVE  Spec => []QueueInUseExists
<1>1. IInv(c) => QueueInUseExists
  BY DEF IInv, OneClient, TasksInv, QueueInUseExists, Off
<1> QED BY <1>1, Invariance, PTL

\* svc_av_recorder_start creates its tasks only when those of the recording
\* before it are gone, though the writer declared the recorder idle earlier.
THEOREM TasksOfOneRecording ==
  ASSUME NEW c, Clients = {c}, EnoughTime
  PROVE  Spec => []OneRecording
<1>1. IInv(c) => OneRecording
  BY DEF IInv, OneClient, TasksInv, OneRecording, Off, Recording, Stopping
<1> QED BY <1>1, Invariance, PTL

\* When svc_av_recorder_stop has returned the file is finalized and closed.
THEOREM StopFinalizes ==
  ASSUME NEW c, Clients = {c}, EnoughTime
  PROVE  Spec => []FileFinalized
<1>1. IInv(c) => FileFinalized
  BY DEF IInv, OneClient, PlaceInv, FileInv, FileFinalized
<1> QED BY <1>1, Invariance, PTL

\* All that was queued when the user stopped the recording reaches the file
\* writer: svc_av_recorder_stop deletes nothing but later chunks.
THEOREM StopDrains ==
  ASSUME NEW c, Clients = {c}, EnoughTime
  PROVE  Spec => []EarlyIsWritten
<1>1. IInv(c) => EarlyIsWritten
  BY DEF IInv, OneClient, EarlyInv, EarlyIsWritten
<1> QED BY <1>1, Invariance, PTL
=====
