---------------------------- MODULE InputProofs ----------------------------
(***************************************************************************)
(* Nobody is called back who is not subscribed, and the events of a button *)
(* tell its story, for any number of buttons, clients and slots, any masks *)
(* and any length of the queue.                                            *)
(***************************************************************************)
EXTENDS Input, TLAPS

\* The slots and the IDs say the same of each other.
Registry ==
  /\ subs \in [1 .. MaxSubs -> Clients \cup {NULL}] /\ id \in [Clients -> 0 .. MaxSubs]
  /\ \A i \in 1 .. MaxSubs : subs[i] # NULL => id[subs[i]] = i
  /\ \A c \in Clients : id[c] # 0 => subs[id[c]] = c

\* A callback is made for a slot that is taken.
Calling == pc = "callback" => slot \in 1 .. MaxSubs /\ subs[slot] # NULL

IInv == Registry /\ slot \in Nat \ {0} /\ Calling

-----------------------------------------------------------------------------
LEMMA InputInit == Init => IInv
  BY InputAssumption DEF Init, IInv, Registry, Calling

\* The poll and the consumption of a gesture touch neither side.
LEMMA PollKeeps ==
  ASSUME IInv, poll_buttons \/ svc_input_consume_sys_gesture
  PROVE  IInv'
<1>1. UNCHANGED <<dispatcher, clients>>
  BY DEF poll_buttons, NoteGesture, Press, Release, LongPress, svc_input_consume_sys_gesture
<1> QED BY <1>1 DEF IInv, Registry, Calling, dispatcher, clients

\* The dispatcher reads the slots under the mutex and changes none.
LEMMA DispatchKeeps ==
  ASSUME IInv, input_dispatch_task
  PROVE  IInv'
<1>1. UNCHANGED clients
  BY DEF input_dispatch_task, Receive, Look, TakeMutex, Call, Skip, Return, GiveMutex,
         Done, Goto
<1>2. Registry'
  BY <1>1 DEF IInv, Registry, clients
<1>3. (slot \in Nat \ {0})' /\ Calling'
  <2> USE <1>1, InputAssumption DEF IInv, Registry, Calling, clients
  <2>1. CASE Receive
    BY <2>1 DEF Receive
  <2>2. CASE Look
    BY <2>2 DEF Look, Done, Goto
  <2>3. CASE TakeMutex
    BY <2>3 DEF TakeMutex, Goto
  <2>4. CASE Call
    BY <2>4 DEF Call, Wants, Goto
  <2>5. CASE Skip
    BY <2>5 DEF Skip, Goto
  <2>6. CASE Return
    BY <2>6 DEF Return, Goto
  <2>7. CASE GiveMutex
    BY <2>7 DEF GiveMutex, Done, Goto
  <2> QED BY <2>1, <2>2, <2>3, <2>4, <2>5, <2>6, <2>7 DEF input_dispatch_task
<1> QED BY <1>2, <1>3 DEF IInv

\* A subscription goes where nobody is, and by the mutex not under a callback.
LEMMA SubscribeKeeps ==
  ASSUME IInv, NEW c \in Clients, svc_input_subscribe(c)
  PROVE  IInv'
<1> USE InputAssumption DEF IInv, Registry
<1>1. PICK i \in 1 .. MaxSubs :
        /\ subs[i] = NULL
        /\ subs' = [subs EXCEPT ![i] = c] /\ id' = [id EXCEPT ![c] = i]
  BY DEF svc_input_subscribe
<1>2. id[c] = 0 /\ pc' # "callback" /\ UNCHANGED slot
  BY DEF svc_input_subscribe, MutexFree, dispatcher
<1>3. \A j \in 1 .. MaxSubs : subs[j] # c
  BY <1>2
<1>4. Registry'
  BY <1>1, <1>2, <1>3
<1> QED BY <1>2, <1>4 DEF Calling

LEMMA UnsubscribeKeeps ==
  ASSUME IInv, NEW c \in Clients, svc_input_unsubscribe(c)
  PROVE  IInv'
<1> USE InputAssumption DEF IInv, Registry
<1>1. /\ id[c] # 0
      /\ subs' = [subs EXCEPT ![id[c]] = NULL] /\ id' = [id EXCEPT ![c] = 0]
  BY DEF svc_input_unsubscribe
<1>2. pc' # "callback" /\ UNCHANGED slot
  BY DEF svc_input_unsubscribe, MutexFree, dispatcher
<1>3. id[c] \in 1 .. MaxSubs /\ subs[id[c]] = c
  BY <1>1
<1>4. Registry'
  BY <1>1, <1>3
<1> QED BY <1>2, <1>4 DEF Calling

LEMMA InputNext == IInv /\ [Next]_vars => IInv'
<1> SUFFICES ASSUME IInv, [Next]_vars PROVE IInv'
  OBVIOUS
<1>1. CASE UNCHANGED vars
  BY <1>1 DEF vars, dispatcher, clients, IInv, Registry, Calling
<1>2. CASE \E c \in Clients : SubscribeRefused(c)
  BY <1>2 DEF SubscribeRefused, vars, dispatcher, clients, IInv, Registry, Calling
<1>3. CASE Next
  BY <1>2, <1>3, PollKeeps, DispatchKeeps, SubscribeKeeps, UnsubscribeKeeps DEF Next
<1> QED BY <1>1, <1>3

-----------------------------------------------------------------------------
\* Slots and IDs agree in every state, and a callback runs for a taken slot.
THEOREM InputInvariant == Spec => []IInv
<1>1. Init => IInv
  BY InputInit
<1>2. IInv /\ [Next]_vars => IInv'
  BY InputNext
<1> QED BY <1>1, <1>2, PTL DEF Spec

\* A subscriber is called only while it is subscribed.
THEOREM InputCalls == Spec => []CalledIsSubscribed
<1>1. IInv => CalledIsSubscribed
  BY DEF IInv, Registry, Calling, CalledIsSubscribed
<1> QED BY <1>1, InputInvariant, PTL

-----------------------------------------------------------------------------
(* The story of a button *)

EventType == {"press", "long", "release"}

QueueTypes ==
  /\ queue \in Seq([type : EventType, btn : Buttons])
  /\ last \in [Buttons -> EventType \cup {"lost"}]

StoryInv == QueueTypes /\ EventsTellState

\* An event that goes on from what the button's last one said continues its
\* story and no other button's.
LEMMA SendTells ==
  ASSUME StoryInv, NEW b \in Buttons, NEW t \in EventType, Send(t, b),
         <<Told(b), t>> \in Follows, Told(b)' = t,
         \A d \in Buttons \ {b} : Told(d)' = Told(d)
  PROVE  StoryInv'
<1> DEFINE e == [type |-> t, btn |-> b]
<1>0. Len(queue) \in Nat /\ queue \in Seq([type : EventType, btn : Buttons])
  BY DEF StoryInv, QueueTypes
<1>n. PICK n \in Nat : n = Len(queue) + 1
  BY <1>0
<1>1. CASE Len(queue) < QueueLen
  <2>1. queue' = Append(queue, e) /\ last' = last
    BY <1>1 DEF Send
  <2>2. /\ queue' \in Seq([type : EventType, btn : Buttons])
        /\ Len(queue') = n /\ queue'[n] = e
        /\ \A i \in 1 .. Len(queue) : queue'[i] = queue[i]
    BY <2>1, <1>0, <1>n
  <2>3. ASSUME NEW d \in Buttons
        PROVE  /\ Events(d)' = Events(d) \cup (IF d = b THEN {n} ELSE {})
               /\ \A i \in Events(d) : i \in Nat /\ i < n /\ Type(d, i)' = Type(d, i)
    <3>1. \A i \in Nat : i \in 1 .. Len(queue') <=> i \in 1 .. Len(queue) \/ i = n
      BY <2>2, <1>0, <1>n
    <3>2. Events(d)' = Events(d) \cup (IF d = b THEN {n} ELSE {})
      BY <3>1, <2>2, <1>0, <1>n DEF Events
    <3>3. ASSUME NEW i \in Events(d) PROVE i \in Nat /\ i < n /\ Type(d, i)' = Type(d, i)
      BY <2>1, <2>2, <1>0, <1>n, <3>3 DEF Events, Type
    <3> QED BY <3>2, <3>3
  <2>4. Type(b, n)' = t
    BY <2>2, <1>0, <1>n DEF Type
  <2>5. ASSUME NEW d \in Buttons, last[d] # "lost" PROVE Story(d)'
    <3>1. Story(d)
      BY <2>5 DEF StoryInv, EventsTellState
    <3>2. CASE d # b
      <4>1. Events(d)' = Events(d) /\ Told(d)' = Told(d)
        BY <2>3, <3>2
      <4>2. \A i \in Events(d) : Type(d, i)' = Type(d, i)
        BY <2>3
      <4> QED BY <3>1, <4>1, <4>2 DEF Story, Follows
    <3>3. CASE d = b
      <4>1. /\ Events(b)' = Events(b) \cup {n} /\ n \in Nat
            /\ \A i \in Events(b) : i \in Nat /\ i < n /\ Type(b, i)' = Type(b, i)
        BY <2>3
      <4>2. ASSUME NEW i \in Events(b)', NEW j \in Events(b)', i < j,
                   \A k \in Events(b)' : k <= i \/ j <= k
            PROVE  <<Type(b, i)', Type(b, j)'>> \in Follows
        <5>1. i \in Events(b)
          BY <4>1, <4>2
        <5>2. CASE j = n
          <6>1. \A k \in Events(b) : k <= i
            BY <4>1, <4>2, <5>2
          <6>2. Type(b, i) = Told(b)
            BY <3>1, <3>3, <5>1, <6>1 DEF Story
          <6> QED BY <6>2, <5>1, <5>2, <4>1, <2>4
        <5>3. CASE j # n
          <6>1. j \in Events(b) /\ \A k \in Events(b) : k <= i \/ j <= k
            BY <4>1, <4>2, <5>3
          <6>2. <<Type(b, i), Type(b, j)>> \in Follows
            BY <3>1, <3>3, <4>2, <5>1, <6>1 DEF Story
          <6> QED BY <6>1, <6>2, <5>1, <4>1
        <5> QED BY <5>2, <5>3
      <4>3. ASSUME NEW i \in Events(b)', \A k \in Events(b)' : k <= i
            PROVE  Type(b, i)' = Told(b)'
        <5>1. i = n
          BY <4>1, <4>3
        <5> QED BY <5>1, <2>4
      <4> QED BY <4>2, <4>3, <3>3 DEF Story, Follows
    <3> QED BY <3>2, <3>3
  <2> QED BY <2>1, <2>2, <2>5 DEF StoryInv, QueueTypes, EventsTellState
<1>2. CASE ~(Len(queue) < QueueLen)
  <2>1. last' = [last EXCEPT ![b] = "lost"] /\ queue' = queue
    BY <1>2 DEF Send
  <2>2. ASSUME NEW d \in Buttons, last'[d] # "lost" PROVE Story(d)'
    <3>1. d # b /\ last'[d] = last[d]
      BY <2>1, <2>2 DEF StoryInv, QueueTypes
    <3>2. Story(d) /\ Told(d)' = Told(d)
      BY <3>1, <2>2 DEF StoryInv, EventsTellState
    <3>3. Events(d)' = Events(d)
      BY <2>1 DEF Events
    <3>4. \A i : Type(d, i)' = Type(d, i)
      BY <2>1, <3>1 DEF Type
    <3> QED BY <3>2, <3>3, <3>4 DEF Story, Follows
  <2>3. QueueTypes'
    BY <2>1 DEF StoryInv, QueueTypes
  <2> QED BY <2>2, <2>3 DEF StoryInv, EventsTellState
<1> QED BY <1>1, <1>2

\* What the dispatcher takes from the queue becomes the last event taken; the
\* others move up.
LEMMA ReceiveTells ==
  ASSUME StoryInv, Receive
  PROVE  StoryInv'
<1> DEFINE h == Head(queue)
<1>1. /\ queue \in Seq([type : EventType, btn : Buttons]) /\ queue # <<>>
      /\ queue' = Tail(queue) /\ UNCHANGED <<pressed, fired>>
      /\ last' = [last EXCEPT ![h.btn] = IF @ = "lost" THEN @ ELSE h.type]
  BY DEF StoryInv, QueueTypes, Receive, buttons
<1>2. /\ h \in [type : EventType, btn : Buttons] /\ h = queue[1]
      /\ queue' \in Seq([type : EventType, btn : Buttons])
      /\ Len(queue) \in Nat \ {0} /\ Len(queue') = Len(queue) - 1
      /\ \A i \in 1 .. Len(queue') : queue'[i] = queue[i + 1]
  <2> DEFINE R == [type : EventType, btn : Buttons]
  <2>1. queue \in Seq(R) /\ queue # <<>> /\ queue' = Tail(queue)
    BY <1>1
  <2> HIDE DEF R
  <2>2. /\ Head(queue) \in R /\ Head(queue) = queue[1] /\ Tail(queue) \in Seq(R)
        /\ Len(queue) \in Nat \ {0} /\ Len(Tail(queue)) = Len(queue) - 1
        /\ \A i \in 1 .. Len(Tail(queue)) : Tail(queue)[i] = queue[i + 1]
    BY <2>1
  <2> QED BY <2>1, <2>2 DEF R
<1>3. QueueTypes'
  BY <1>1, <1>2 DEF StoryInv, QueueTypes
<1> HIDE DEF h
<1>4. ASSUME NEW d \in Buttons, last'[d] # "lost" PROVE Story(d)'
  <2> DEFINE old(i) == IF i = 0 /\ h.btn # d THEN 0 ELSE i + 1
  <2>1. last[d] # "lost" /\ last'[d] = IF h.btn = d THEN h.type ELSE last[d]
    BY <1>1, <1>2, <1>4 DEF StoryInv, QueueTypes
  <2>2. Story(d) /\ Told(d)' = Told(d)
    BY <2>1, <1>1 DEF StoryInv, EventsTellState, Told
  <2>3. ASSUME NEW i \in Events(d)'
        PROVE  old(i) \in Events(d) /\ Type(d, i)' = Type(d, old(i))
    BY <1>1, <1>2, <2>1, <2>3 DEF Events, Type
  <2>4. ASSUME NEW k \in Events(d)
        PROVE  \/ \E i \in Events(d)' : k = old(i)
               \/ k = 0 /\ h.btn = d
    <3>1. CASE k = 0
      BY <3>1 DEF Events
    <3>2. CASE k = 1
      <4>1. h.btn = d
        BY <3>2, <1>2 DEF Events
      <4> QED BY <3>2, <4>1 DEF Events
    <3>3. CASE k \notin {0, 1}
      <4>1. k - 1 \in Events(d)' /\ k - 1 # 0
        BY <3>3, <1>1, <1>2 DEF Events
      <4> QED BY <4>1, <3>3 DEF Events
    <3> QED BY <3>1, <3>2, <3>3
  <2>5. \A i \in Events(d)' : i \in Nat
    BY <1>2 DEF Events
  <2>6. \A i, j \in Events(d)' : (i < j <=> old(i) < old(j)) /\ (i <= j <=> old(i) <= old(j))
    BY <2>5
  <2>7. \A i \in Events(d)' : old(i) > 0 \/ h.btn # d
    BY <2>5
  <2> HIDE DEF old
  <2>8. \A k \in Events(d) : k \in Nat
    BY <1>2 DEF Events
  <2>9. ASSUME NEW i \in Events(d)', NEW j \in Events(d)', i < j,
               \A k \in Events(d)' : k <= i \/ j <= k
        PROVE  <<Type(d, i)', Type(d, j)'>> \in Follows
    <3>1. \A k \in Events(d) : k <= old(i) \/ old(j) <= k
      BY <2>3, <2>4, <2>6, <2>7, <2>8, <2>9
    <3>2. old(i) \in Events(d) /\ old(j) \in Events(d) /\ old(i) < old(j)
      BY <2>3, <2>6, <2>9
    <3>3. <<Type(d, old(i)), Type(d, old(j))>> \in Follows
      BY <2>2, <3>1, <3>2 DEF Story
    <3> QED BY <3>3, <2>3
  <2>10. ASSUME NEW i \in Events(d)', \A k \in Events(d)' : k <= i
         PROVE  Type(d, i)' = Told(d)'
    <3>1. \A k \in Events(d) : k <= old(i)
      BY <2>3, <2>4, <2>6, <2>7, <2>8, <2>10
    <3>2. Type(d, old(i)) = Told(d)
      BY <2>2, <2>3, <3>1 DEF Story
    <3> QED BY <3>2, <2>3, <2>2
  <2> QED BY <2>9, <2>10 DEF Story, Follows
<1> QED BY <1>3, <1>4 DEF StoryInv, EventsTellState

\* Nothing else touches the queue or the buttons.
LEMMA StoryKept ==
  ASSUME StoryInv, UNCHANGED <<pressed, fired, queue, last>>
  PROVE  StoryInv'
<1>1. QueueTypes' /\ \A b : last'[b] = last[b]
  BY DEF StoryInv, QueueTypes
<1>2. ASSUME NEW b PROVE Events(b)' = Events(b) /\ Told(b)' = Told(b)
  BY DEF Events, Told
<1>3. ASSUME NEW b, NEW i PROVE Type(b, i)' = Type(b, i)
  BY DEF Type
<1>4. \A b \in Buttons : Story(b)' <=> Story(b)
  BY <1>2, <1>3 DEF Story, Follows
<1> QED BY <1>1, <1>4 DEF StoryInv, EventsTellState

LEMMA StoryNext == StoryInv /\ [Next]_vars => StoryInv'
<1> SUFFICES ASSUME StoryInv, [Next]_vars PROVE StoryInv'
  OBVIOUS
<1>1. ASSUME NEW b \in Buttons, Press(b) PROVE StoryInv'
  <2>1. Send("press", b) /\ b \notin pressed /\ pressed' = pressed \cup {b} /\ fired' = fired \ {b}
    BY <1>1 DEF Press, FiredAtPress
  <2>2. <<Told(b), "press">> \in Follows /\ Told(b)' = "press"
    BY <2>1 DEF Told, Follows
  <2>3. \A d \in Buttons \ {b} : Told(d)' = Told(d)
    BY <2>1 DEF Told
  <2> QED BY <2>1, <2>2, <2>3, SendTells DEF EventType
<1>2. ASSUME NEW b \in Buttons, Release(b) PROVE StoryInv'
  <2>1. Send("release", b) /\ b \in pressed /\ pressed' = pressed \ {b} /\ fired' = fired
    BY <1>2 DEF Release
  <2>2. <<Told(b), "release">> \in Follows /\ Told(b)' = "release"
    BY <2>1 DEF Told, Follows
  <2>3. \A d \in Buttons \ {b} : Told(d)' = Told(d)
    BY <2>1 DEF Told
  <2> QED BY <2>1, <2>2, <2>3, SendTells DEF EventType
<1>3. ASSUME NEW b \in Buttons, LongPress(b) PROVE StoryInv'
  <2>1. Send("long", b) /\ b \in pressed \ fired /\ pressed' = pressed /\ fired' = fired \cup {b}
    BY <1>3 DEF LongPress
  <2>2. <<Told(b), "long">> \in Follows /\ Told(b)' = "long"
    BY <2>1 DEF Told, Follows
  <2>3. \A d \in Buttons \ {b} : Told(d)' = Told(d)
    BY <2>1 DEF Told
  <2> QED BY <2>1, <2>2, <2>3, SendTells DEF EventType
<1>4. CASE Receive
  BY <1>4, ReceiveTells
<1>5. CASE \/ NoteGesture \/ Look \/ TakeMutex \/ Call \/ Skip \/ Return \/ GiveMutex
           \/ svc_input_consume_sys_gesture \/ UNCHANGED vars
           \/ \E c \in Clients :
                svc_input_subscribe(c) \/ SubscribeRefused(c) \/ svc_input_unsubscribe(c)
  <2>1. UNCHANGED <<pressed, fired, queue, last>>
    BY <1>5 DEF NoteGesture, Look, TakeMutex, Call, Skip, Return, GiveMutex, Done, Goto,
           svc_input_consume_sys_gesture, svc_input_subscribe, SubscribeRefused,
           svc_input_unsubscribe, vars, buttons
  <2> QED BY <2>1, StoryKept
<1> QED BY <1>1, <1>2, <1>3, <1>4, <1>5 DEF Next, poll_buttons, input_dispatch_task

\* For any number of buttons and any length of the queue, the events of a
\* button tell its story while poll_buttons could queue them all: no second
\* press without a release, one long press at most, and the last one queued is
\* what the button does now.
THEOREM InputTellsStory == Spec => []EventsTellState
<1>1. Init => StoryInv
  <2> SUFFICES ASSUME Init PROVE StoryInv
    OBVIOUS
  <2>1. queue = <<>> /\ last = [b \in Buttons |-> "release"] /\ pressed = {}
    BY DEF Init
  <2>2. QueueTypes
    <3>1. <<>> \in Seq([type : EventType, btn : Buttons])
      OBVIOUS
    <3> QED BY <2>1, <3>1 DEF QueueTypes, EventType
  <2>3. ASSUME NEW b \in Buttons
        PROVE  Events(b) = {0} /\ Type(b, 0) = "release" /\ Told(b) = "release"
    <3>1. 1 .. Len(queue) = {}
      BY <2>1
    <3>2. Events(b) = {0}
      BY <3>1 DEF Events
    <3> QED BY <2>1, <3>2 DEF Type, Told
  <2>4. EventsTellState
    BY <2>3 DEF EventsTellState, Story
  <2> QED BY <2>2, <2>4 DEF StoryInv
<1>2. StoryInv /\ [Next]_vars => StoryInv'
  BY StoryNext
<1>3. StoryInv => EventsTellState
  BY DEF StoryInv
<1> QED BY <1>1, <1>2, <1>3, PTL DEF Spec
=============================================================================
