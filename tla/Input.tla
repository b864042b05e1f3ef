------------------------------- MODULE Input -------------------------------
(***************************************************************************)
(* The input manager (src/svc_input.c).  A timer polls the buttons every   *)
(* 10 ms and queues events; the dispatcher takes them from the queue and   *)
(* calls the subscribers, holding sub_mutex, unless a system gesture       *)
(* consumes the event.  The poll of one button is a step; the steps of a   *)
(* pass over the four may come in any order with those of the dispatcher,  *)
(* of the subscribers and of the kernel.                                   *)
(***************************************************************************)
EXTENDS Naturals, Sequences

CONSTANTS
  Buttons, Back,
  Volume,      \* the buttons whose long press is a volume gesture
  PollGap,     \* ms from one poll to the next
  QueueLen,    \* EVT_QUEUE_LEN
  MaxSubs,     \* MAX_SUBSCRIBERS
  Clients,     \* tasks that subscribe, each once at a time
  Mask,        \* the types of events they ask for
  NULL

ASSUME InputAssumption ==
  /\ Back \in Buttons \ Volume /\ QueueLen \in Nat \ {0} /\ MaxSubs \in Nat \ {0}
  /\ NULL \notin Clients \cup Buttons

VARIABLES
  pressed,  \* buttons that are pressed
  fired,    \* those for which the long press has been sent (long_fired)
  noting,   \* the button whose long press is sent and whose gesture is not noted yet
  queue,    \* evt_queue, of records [type, btn]
  gesture,  \* pending_gesture
  evt, pc,  \* the dispatcher's event, and where it is
  slot,     \* its loop variable
  subs,     \* subs[i]: the client active in slot i, or NULL
  id,       \* id[c]: the ID client c got, 0 for none
  last      \* last[b]: the type of the last event of b taken from the queue,
            \* or "lost" once one was not queued

buttons == <<pressed, fired, noting>>
dispatcher == <<evt, pc, slot>>
clients == <<subs, id>>
vars == <<buttons, queue, last, gesture, dispatcher, clients>>

Init ==
  /\ pressed = {} /\ fired = {} /\ noting = NULL /\ queue = <<>>
  /\ gesture = "none"
  /\ evt = NULL /\ pc = "receive" /\ slot = 1 /\ last = [b \in Buttons |-> "release"]
  /\ subs = [i \in 1 .. MaxSubs |-> NULL] /\ id = [c \in Clients |-> 0]

-----------------------------------------------------------------------------
(* poll_buttons *)

\* xQueueSend without waiting.
Send(type, b) ==
  IF Len(queue) < QueueLen
  THEN queue' = Append(queue, [type |-> type, btn |-> b]) /\ UNCHANGED last
  ELSE last' = [last EXCEPT ![b] = "lost"] /\ UNCHANGED queue

\* Variant with a bug: the mark of the last long press stays.
FiredAtPress_Kept(b) == fired

FiredAtPress(b) == fired \ {b}

Press(b) ==
  /\ noting = NULL /\ b \notin pressed
  /\ pressed' = pressed \cup {b} /\ fired' = FiredAtPress(b)
  /\ Send("press", b)
  /\ UNCHANGED <<noting, gesture, dispatcher, clients>>

Release(b) ==
  /\ noting = NULL /\ b \in pressed
  /\ pressed' = pressed \ {b}
  /\ Send("release", b)
  /\ UNCHANGED <<fired, noting, gesture, dispatcher, clients>>

\* The first poll that finds the button held for LONG_PRESS_MS.
LongPress(b) ==
  /\ noting = NULL /\ b \in pressed \ fired
  /\ fired' = fired \cup {b} /\ noting' = b
  /\ Send("long", b)
  /\ UNCHANGED <<pressed, gesture, dispatcher, clients>>

\* That poll comes a PollGap late at most, so what FORCE_QUIT_MS asks for only
\* a late poll can find.
Gesture(b) ==
  IF b \in Volume THEN "volume"
  ELSE IF b = Back /\ 800 + PollGap >= 2000 THEN "force_quit" ELSE gesture

NoteGesture ==
  /\ noting # NULL
  /\ gesture' = Gesture(noting) /\ noting' = NULL
  /\ UNCHANGED <<pressed, fired, queue, last, dispatcher, clients>>

poll_buttons == NoteGesture \/ \E b \in Buttons : Press(b) \/ Release(b) \/ LongPress(b)

-----------------------------------------------------------------------------
(* input_dispatch_task *)

Goto(label) ==
  pc' = label /\ UNCHANGED <<buttons, queue, last, gesture, clients>>

\* The end of a round; evt and slot are set anew by the next.
Done == Goto("receive") /\ evt' = NULL /\ slot' = 1

Receive ==
  /\ pc = "receive" /\ queue # <<>>
  /\ evt' = Head(queue) /\ queue' = Tail(queue)
  /\ last' = [last EXCEPT ![Head(queue).btn] = IF @ = "lost" THEN @ ELSE Head(queue).type]
  /\ pc' = "look"
  /\ UNCHANGED <<buttons, gesture, slot, clients>>

Consumed == evt.type = "long" /\ gesture # "none"

Look ==
  /\ pc = "look"
  /\ \/ Consumed /\ Done
     \/ ~Consumed /\ Goto("take") /\ UNCHANGED <<evt, slot>>

TakeMutex == pc = "take" /\ Goto("loop") /\ UNCHANGED <<evt, slot>>

Wants(c) == c # NULL /\ evt.type \in Mask

Call ==
  /\ pc = "loop" /\ slot <= MaxSubs /\ Wants(subs[slot])
  /\ Goto("callback") /\ UNCHANGED <<evt, slot>>

Skip ==
  /\ pc = "loop" /\ slot <= MaxSubs /\ ~Wants(subs[slot])
  /\ Goto("loop") /\ slot' = slot + 1 /\ UNCHANGED evt

\* The callback returns.  (One that subscribed or unsubscribed would wait for
\* the mutex its caller holds.)
Return ==
  /\ pc = "callback"
  /\ Goto("loop") /\ slot' = slot + 1 /\ UNCHANGED evt

GiveMutex == pc = "loop" /\ slot > MaxSubs /\ Done

input_dispatch_task ==
  Receive \/ Look \/ TakeMutex \/ Call \/ Skip \/ Return \/ GiveMutex

-----------------------------------------------------------------------------
(* The public functions, called from other tasks *)

\* Variant with a bug: the subscribers are changed without the mutex.
MutexFree_Ignored == TRUE

MutexFree == pc \notin {"loop", "callback"}

svc_input_subscribe(c) ==
  /\ id[c] = 0 /\ MutexFree
  /\ \E i \in 1 .. MaxSubs :
       /\ subs[i] = NULL /\ \A k \in 1 .. i - 1 : subs[k] # NULL
       /\ subs' = [subs EXCEPT ![i] = c] /\ id' = [id EXCEPT ![c] = i]
  /\ UNCHANGED <<buttons, queue, last, gesture, dispatcher>>

\* All slots are in use: -1.
SubscribeRefused(c) ==
  /\ id[c] = 0 /\ MutexFree /\ \A i \in 1 .. MaxSubs : subs[i] # NULL
  /\ UNCHANGED vars

svc_input_unsubscribe(c) ==
  /\ id[c] # 0 /\ MutexFree
  /\ subs' = [subs EXCEPT ![id[c]] = NULL] /\ id' = [id EXCEPT ![c] = 0]
  /\ UNCHANGED <<buttons, queue, last, gesture, dispatcher>>

\* What it returns is not kept.
svc_input_consume_sys_gesture ==
  /\ gesture' = "none"
  /\ UNCHANGED <<buttons, queue, last, dispatcher, clients>>

-----------------------------------------------------------------------------

Next ==
  \/ poll_buttons \/ input_dispatch_task \/ svc_input_consume_sys_gesture
  \/ \E c \in Clients :
       svc_input_subscribe(c) \/ SubscribeRefused(c) \/ svc_input_unsubscribe(c)

Spec == Init /\ [][Next]_vars

-----------------------------------------------------------------------------
(* Properties *)

\* A subscriber is called only while it is subscribed: once
\* svc_input_unsubscribe has returned, its code and data may go away.
CalledIsSubscribed ==
  pc = "callback" => subs[slot] # NULL /\ id[subs[slot]] = slot

\* The events of b that are in the queue, after the last one that was taken
\* from it, which has position 0.
Events(b) == {0} \cup {i \in 1 .. Len(queue) : queue[i].btn = b}
Type(b, i) == IF i = 0 THEN last[b] ELSE queue[i].type

Follows == {<<"release", "press">>, <<"press", "long">>, <<"press", "release">>,
            <<"long", "release">>}

\* What the last event of b must say.
Told(b) == IF b \notin pressed THEN "release" ELSE IF b \in fired THEN "long" ELSE "press"

\* The events of a button tell its story: unless one was dropped because the
\* queue was full, they come in the order press, at most one long, release,
\* and the last one queued says how the button is now.
Story(b) ==
  \A i \in Events(b) :
    /\ \A j \in Events(b) :
         i < j /\ (\A k \in Events(b) : k <= i \/ j <= k) => <<Type(b, i), Type(b, j)>> \in Follows
    /\ (\A k \in Events(b) : k <= i) => Type(b, i) = Told(b)

EventsTellState == \A b \in Buttons : last[b] # "lost" => Story(b)
=============================================================================
