-------------------------- MODULE TaskRequestProofs --------------------------
(***************************************************************************)
(* Proofs about the way of a request: a poller's PollTask goes through the *)
(* channel and tasks_polls to the scheduler's hand, and a task comes back. *)
(* What a request may not overtake follows (UrgentFirst), and, for a single *)
(* poller, that tasks run one at a time (OneAtATime).                      *)
(***************************************************************************)
EXTENDS TaskSchedulerProofs

\* The one-line operators of the code are read as what they stand for.
USE DEF PushBack, PushFront, MayPoll, AllClosed, PollsLeft, TaskInHand, KeptTask

Asked(i) == channel[i].kind = "PollTask"

\* Whoever has a request under way waits for the answer, or is gone.
Asking(w) == poller[w] \in {"waiting", "gone"} /\ inbox[w] = None

\* A request is under way for pollers that are asking.
AskingInv ==
  /\ \A i \in DOMAIN channel : Asked(i) => Asking(channel[i].poller)
  /\ \A i \in DOMAIN polls : Asking(polls[i])
  /\ cur # None => Asking(cur)
  /\ cur # None <=> pc = "send"

\* No poller has two requests under way.
SingleInv ==
  /\ \A i, j \in DOMAIN channel :
       Asked(i) /\ Asked(j) /\ i # j => channel[i].poller # channel[j].poller
  /\ \A i, j \in DOMAIN polls : i # j => polls[i] # polls[j]
  /\ \A i \in DOMAIN channel : Asked(i) =>
       /\ channel[i].poller # cur
       /\ \A j \in DOMAIN polls : polls[j] # channel[i].poller
  /\ \A i \in DOMAIN polls : polls[i] # cur

\* A poller has a task only when it waits or runs, and the task was sent.
HeldInv ==
  \A w \in Pollers :
    /\ poller[w] \in {"idle", "gone"} => inbox[w] = None
    /\ inbox[w] # None => inbox[w] \in 1 .. Sent
    /\ mark[w] <= Sent

\* The message at i, if it is a task, was sent after w made its last request.
Behind(w, i) == Pushed(i) => mark[w] < channel[i].task

\* A request is behind all tasks that were in the channel when it was made.
MarkInv ==
  /\ \A i, j \in DOMAIN channel :
       Asked(i) /\ i < j => Behind(channel[i].poller, j)
  /\ \A i \in DOMAIN polls : \A j \in DOMAIN channel : Behind(polls[i], j)
  /\ cur # None => \A j \in DOMAIN channel : Behind(cur, j)

\* No queue holds a more urgent task than the one in hand.
HandInv ==
  last_task # None =>
    \A p \in Priority : Rank[p] < Rank[prio[last_task]] => queue[p] = <<>>

RequestInv ==
  /\ AskingInv
  /\ SingleInv
  /\ HeldInv
  /\ MarkInv
  /\ HandInv
  /\ UrgentFirst

\* The messages of the channel are of the two forms.
LEMMA ChannelForms ==
  ASSUME TInv
  PROVE  \A i \in DOMAIN channel :
           \/ Pushed(i) /\ ~ Asked(i) /\ channel[i].task \in Task
           \/ Asked(i) /\ ~ Pushed(i) /\ channel[i].poller \in Pollers
<1>1. channel \in Seq(Message)
  BY DEF TInv, TypeOK
<1>2. \A i \in DOMAIN channel : channel[i] \in Message
  BY <1>1, ElementOfSeq, LenProperties
<1> QED
  BY <1>2, MessageForms DEF Pushed, Asked

\* The types that the steps below need.
LEMMA RequestTypes ==
  ASSUME TInv
  PROVE  /\ \A i \in DOMAIN polls : polls[i] \in Pollers
         /\ \A w \in Pollers : mark[w] \in Nat
         /\ Sent \in Nat
         /\ poller \in [Pollers -> {"idle", "waiting", "running", "gone"}]
         /\ inbox \in [Pollers -> Task \cup {None}]
         /\ mark \in [Pollers -> 0 .. MaxTasks]
         /\ None \notin Pollers
         /\ None \notin Nat
         /\ Task \subseteq Nat
<1>1. polls \in Seq(Pollers)
  BY DEF TInv, TypeOK
<1>2. \A i \in DOMAIN polls : polls[i] \in Pollers
  BY <1>1, ElementOfSeq, LenProperties
<1> QED
  BY <1>2, SentTasks, SchedulerAssumption DEF TInv, TypeOK, Task

\* A client sends a task: it comes behind all requests.
LEMMA SendKeepsRequests ==
  ASSUME TInv, OrderInv, RequestInv,
         NEW h \in Handlers, NEW p \in Priority, Send(h, p)
  PROVE  RequestInv'
<1> DEFINE new  == Sent + 1
           last == Len(channel) + 1
<1>1. Sent \in Nat /\ new \in Task /\ prio \in Seq(Priority)
  BY SchedulerAssumption DEF TInv, TypeOK, Send, Sent, Task
<1>2. Sent' = Sent + 1 /\ \A n \in 1 .. Sent : prio'[n] = prio[n]
  BY <1>1, AppendProperties DEF Send, Sent
<1>3. PushTask(new) \in Message
  BY <1>1 DEF Message
<1>4. /\ Len(channel) \in Nat
      /\ DOMAIN channel = 1 .. Len(channel)
      /\ DOMAIN channel' = 1 .. last
      /\ \A i \in 1 .. Len(channel) : channel'[i] = channel[i]
      /\ channel'[last] = PushTask(new)
  BY <1>3, ChannelGrows DEF Send
<1>5. UNCHANGED <<queue, polls, pc, cur, last_task, dispatched,
                  poller, inbox, mark>>
  BY DEF Send, schedulerVars, pollerVars
<1>6. \A i \in DOMAIN channel' :
        \/ /\ i \in DOMAIN channel /\ channel'[i] = channel[i]
           /\ Asked(i)' <=> Asked(i)
           /\ \A w : Behind(w, i)' <=> Behind(w, i)
        \/ /\ i = last /\ ~ Asked(i)'
           /\ \A w \in Pollers : Behind(w, i)'
  <2>1. \A w \in Pollers : mark[w] < new
    BY <1>1, RequestTypes DEF RequestInv, HeldInv
  <2> QED
    BY <1>4, <1>5, <2>1 DEF Asked, Behind, Pushed, PushTask
<1>7. AskingInv' /\ SingleInv'
  BY <1>5, <1>6 DEF RequestInv, AskingInv, SingleInv, Asking
<1>8. HeldInv'
  BY <1>1, <1>2, <1>5, RequestTypes DEF RequestInv, HeldInv
<1>9. MarkInv'
  <2>1. \A i, j \in DOMAIN channel' :
          Asked(i)' /\ i < j => Behind(channel[i].poller, j)'
    <3> SUFFICES ASSUME NEW i \in DOMAIN channel', NEW j \in DOMAIN channel',
                        Asked(i)', i < j
                 PROVE  Behind(channel[i].poller, j)'
      OBVIOUS
    <3>1. i \in DOMAIN channel /\ channel'[i] = channel[i] /\ Asked(i)
      BY <1>6
    <3>2. channel[i].poller \in Pollers
      BY <3>1, ChannelForms
    <3> QED
      BY <1>5, <1>6, <3>1, <3>2 DEF RequestInv, MarkInv, Behind
  <2>2. \A i \in DOMAIN polls' : \A j \in DOMAIN channel' : Behind(polls[i], j)'
    BY <1>5, <1>6, RequestTypes DEF RequestInv, MarkInv, Behind
  <2>3. cur # None => cur \in Pollers
    BY DEF TInv, TypeOK
  <2>4. cur' # None => \A j \in DOMAIN channel' : Behind(cur, j)'
    BY <1>5, <1>6, <2>3 DEF RequestInv, MarkInv, Behind
  <2> QED
    BY <1>5, <2>1, <2>2, <2>4 DEF MarkInv
<1>10. HandInv'
  BY <1>2, <1>5 DEF RequestInv, HandInv, OrderInv, FlightInv
<1>11. UrgentFirst'
  <2> SUFFICES ASSUME NEW w \in Pollers, inbox[w] # None,
                      NEW n \in 1 .. mark[w],
                      Rank[prio'[n]] < Rank[prio'[inbox[w]]]
               PROVE  WasDispatched(n)'
    BY <1>5 DEF UrgentFirst
  <2>1. n \in 1 .. Sent /\ inbox[w] \in 1 .. Sent
    BY <1>1, RequestTypes DEF RequestInv, HeldInv
  <2>2. WasDispatched(n)
    BY <1>2, <2>1 DEF RequestInv, UrgentFirst
  <2> QED
    BY <1>5, <2>2 DEF WasDispatched
<1> QED
  BY <1>7, <1>8, <1>9, <1>10, <1>11 DEF RequestInv

\* An idle poller asks: it has no request under way, and the new one is behind
\* everything that is in the channel.
LEMMA PollKeepsRequests ==
  ASSUME TInv, OrderInv, RequestInv, NEW w \in Pollers, Poll(w)
  PROVE  RequestInv'
<1> DEFINE last == Len(channel) + 1
<1>1. PollTask(w) \in Message
  BY DEF Message
<1>2. /\ Len(channel) \in Nat
      /\ DOMAIN channel = 1 .. Len(channel)
      /\ DOMAIN channel' = 1 .. last
      /\ \A i \in 1 .. Len(channel) : channel'[i] = channel[i]
      /\ channel'[last] = PollTask(w)
  BY <1>1, ChannelGrows DEF Poll
<1>3. UNCHANGED <<prio, queue, polls, pc, cur, last_task, dispatched, inbox>>
  BY DEF Poll, schedulerVars
<1>4. /\ poller[w] = "idle" /\ poller'[w] = "waiting" /\ inbox[w] = None
      /\ mark'[w] = Sent
      /\ \A v \in Pollers \ {w} : poller'[v] = poller[v] /\ mark'[v] = mark[v]
  BY RequestTypes DEF Poll, RequestInv, HeldInv
<1>5. ~ Asking(w)
  BY <1>4 DEF Asking
<1>6. \A i \in DOMAIN channel' :
        \/ /\ i \in DOMAIN channel /\ channel'[i] = channel[i]
           /\ Asked(i)' <=> Asked(i)
           /\ Asked(i) => channel[i].poller \in Pollers \ {w}
           /\ \A v \in Pollers \ {w} : Behind(v, i)' <=> Behind(v, i)
        \/ /\ i = last /\ Asked(i)' /\ channel'[i].poller = w
           /\ \A v \in Pollers : Behind(v, i)'
  <2> SUFFICES ASSUME NEW i \in DOMAIN channel', i \in DOMAIN channel
               PROVE  /\ channel'[i] = channel[i]
                      /\ Asked(i) => channel[i].poller \in Pollers \ {w}
    BY <1>2, <1>4 DEF Asked, Behind, Pushed, PollTask
  <2> QED
    BY <1>2, <1>5, ChannelForms DEF RequestInv, AskingInv
<1>7. \A i \in DOMAIN polls : polls[i] \in Pollers \ {w}
  BY <1>5, RequestTypes DEF RequestInv, AskingInv
<1>8. cur # None => cur \in Pollers \ {w}
  BY <1>5 DEF RequestInv, AskingInv, TInv, TypeOK
<1>9. cur # w
  BY <1>8, RequestTypes
<1>10. \A v \in Pollers : Asking(v) => Asking(v)'
  BY <1>3, <1>4 DEF Asking
<1>11. Asking(w)'
  BY <1>3, <1>4 DEF Asking
<1>12. AskingInv'
  BY <1>3, <1>6, <1>7, <1>8, <1>10, <1>11 DEF RequestInv, AskingInv
<1>13. SingleInv'
  BY <1>3, <1>6, <1>7, <1>9 DEF RequestInv, SingleInv
<1>14. HeldInv'
  BY <1>3, <1>4, RequestTypes DEF RequestInv, HeldInv, Sent
<1>15. MarkInv'
  <2>1. ASSUME NEW i \in DOMAIN channel', NEW j \in DOMAIN channel',
               Asked(i)', i < j
        PROVE  Behind(channel[i].poller, j)'
    <3>1. /\ i \in DOMAIN channel /\ channel'[i] = channel[i] /\ Asked(i)
          /\ channel[i].poller \in Pollers \ {w}
      BY <1>2, <1>6, <2>1
    <3>2. CASE j \in DOMAIN channel
      <4>1. Behind(channel[i].poller, j)
        BY <2>1, <3>1, <3>2 DEF RequestInv, MarkInv
      <4>2. channel'[j] = channel[j]
        BY <1>2, <3>2
      <4> QED
        BY <1>4, <3>1, <4>1, <4>2 DEF Behind, Pushed
    <3>3. CASE j \notin DOMAIN channel
      BY <1>2, <3>3 DEF Behind, Pushed, PollTask
    <3> QED
      BY <3>2, <3>3
  <2>2. \A i \in DOMAIN polls' : \A j \in DOMAIN channel' : Behind(polls[i], j)'
    BY <1>3, <1>6, <1>7 DEF RequestInv, MarkInv, Behind
  <2>3. cur' # None => \A j \in DOMAIN channel' : Behind(cur, j)'
    BY <1>3, <1>6, <1>8 DEF RequestInv, MarkInv, Behind
  <2> QED
    BY <1>3, <2>1, <2>2, <2>3 DEF MarkInv
<1>16. HandInv'
  BY <1>3 DEF RequestInv, HandInv
<1>17. UrgentFirst'
  BY <1>3, <1>4 DEF RequestInv, UrgentFirst, WasDispatched
<1> QED
  BY <1>12, <1>13, <1>14, <1>15, <1>16, <1>17 DEF RequestInv

\* A step that moves no message, request or task, except that pollers may be
\* done with theirs.
LEMMA RequestsStay ==
  ASSUME TInv, RequestInv, HeldInv',
         UNCHANGED <<channel, prio, queue, polls, pc, cur, last_task,
                     dispatched, mark>>,
         \A w \in Pollers : Asking(w) => Asking(w)',
         \A w \in Pollers : inbox'[w] \in {inbox[w], None}
  PROVE  RequestInv'
<1>1. AskingInv'
  <2>1. cur # None => cur \in Pollers
    BY DEF TInv, TypeOK
  <2> QED
    BY <2>1, ChannelForms, RequestTypes DEF RequestInv, AskingInv, Asked
<1>2. SingleInv'
  BY DEF RequestInv, SingleInv, Asked
<1>3. MarkInv' /\ HandInv'
  BY DEF RequestInv, MarkInv, HandInv, Behind, Asked, Pushed
<1>4. UrgentFirst'
  BY DEF RequestInv, UrgentFirst, WasDispatched
<1> QED
  BY <1>1, <1>2, <1>3, <1>4 DEF RequestInv

\* The steps of a poller after it has asked.  Only those that have a task, or
\* give up, change anything.
LEMMA PollerKeepsRequests ==
  ASSUME TInv, OrderInv, RequestInv, NEW w \in Pollers,
         Receive(w) \/ Finish(w) \/ Panic(w) \/ Abandon(w)
  PROVE  RequestInv'
<1>1. UNCHANGED <<channel, prio, queue, polls, pc, cur, last_task, dispatched,
                  mark>>
  BY DEF Receive, Finish, Panic, Abandon, clientVars, schedulerVars
<1>2. /\ inbox'[w] = inbox[w] \/ inbox'[w] = None
      /\ poller'[w] \in {"idle", "gone"} => inbox'[w] = None
      /\ Asking(w) => Asking(w)'
      /\ \A v \in Pollers \ {w} : poller'[v] = poller[v] /\ inbox'[v] = inbox[v]
  BY RequestTypes DEF Receive, Finish, Panic, Abandon, Asking
<1>3. HeldInv'
  BY <1>1, <1>2 DEF RequestInv, HeldInv, Sent
<1>4. \A v \in Pollers : Asking(v) => Asking(v)'
  BY <1>2 DEF Asking
<1> QED
  BY <1>1, <1>2, <1>3, <1>4, RequestsStay

\* The first message goes to its queue, or to the end of tasks_polls.
LEMMA TryRecvKeepsRequests ==
  ASSUME TInv, OrderInv, RequestInv, TryRecv
  PROVE  RequestInv'
<1> DEFINE msg == Head(channel)
<1>1. /\ msg = channel[1]
      /\ Len(channel) \in Nat \ {0}
      /\ DOMAIN channel = 1 .. Len(channel)
      /\ DOMAIN channel' = 1 .. (Len(channel) - 1)
      /\ \A i \in 1 .. (Len(channel) - 1) : channel'[i] = channel[i + 1]
  BY ChannelShrinks DEF TryRecv
<1>2. /\ UNCHANGED <<prio, pc, cur, last_task, dispatched, poller, inbox, mark>>
      /\ pc = "drain"
  BY DEF TryRecv, pollerVars
<1>3. \A i \in DOMAIN channel' :
        /\ i + 1 \in DOMAIN channel /\ i + 1 # 1 /\ channel'[i] = channel[i + 1]
        /\ Asked(i)' <=> Asked(i + 1)
        /\ Pushed(i)' <=> Pushed(i + 1)
  BY <1>1 DEF Asked, Pushed
<1>4. last_task = None /\ cur = None
  BY <1>2 DEF OrderInv, LastInv, RequestInv, AskingInv
<1>5. HeldInv' /\ HandInv' /\ UrgentFirst'
  BY <1>2, <1>4
     DEF RequestInv, HeldInv, HandInv, UrgentFirst, WasDispatched, Sent
<1>6. \A i, j \in DOMAIN channel' : i # j => i + 1 # j + 1
  BY <1>1
<1>7. \A i, j \in DOMAIN channel' : i < j => i + 1 < j + 1
  BY <1>1
<1>8. \A i, j \in DOMAIN channel' :
        Asked(i)' /\ i < j => Behind(channel[i].poller, j)'
  <2> SUFFICES ASSUME NEW i \in DOMAIN channel', NEW j \in DOMAIN channel',
                      Asked(i)', i < j
               PROVE  Behind(channel[i].poller, j)'
    OBVIOUS
  <2>1. Behind(channel[i + 1].poller, j + 1)
    BY <1>3, <1>7 DEF RequestInv, MarkInv
  <2> QED
    BY <1>2, <1>3, <2>1 DEF Behind
<1>9. ASSUME UNCHANGED polls
      PROVE  RequestInv'
  <2>1. AskingInv'
    BY <1>2, <1>3, <1>9 DEF RequestInv, AskingInv, Asking
  <2>2. SingleInv'
    BY <1>2, <1>3, <1>6, <1>9 DEF RequestInv, SingleInv
  <2>3. MarkInv'
    BY <1>2, <1>3, <1>4, <1>8, <1>9 DEF RequestInv, MarkInv, Behind
  <2> QED
    BY <1>5, <2>1, <2>2, <2>3 DEF RequestInv
<1>10. ASSUME msg.kind = "PollTask", polls' = Append(polls, msg.poller)
       PROVE  RequestInv'
  <2> DEFINE w   == msg.poller
             end == Len(polls) + 1
  <2>1. 1 \in DOMAIN channel /\ Asked(1) /\ w = channel[1].poller /\ w \in Pollers
    BY <1>1, <1>10, ChannelForms DEF Asked
  <2>2. /\ Len(polls) \in Nat
        /\ DOMAIN polls = 1 .. Len(polls)
        /\ DOMAIN polls' = 1 .. end
        /\ \A i \in 1 .. Len(polls) : polls'[i] = polls[i]
        /\ polls'[end] = w
    <3>1. polls \in Seq(Pollers)
      BY DEF TInv, TypeOK
    <3> QED
      BY <1>10, <2>1, <3>1, AppendProperties, LenProperties
  <2>3. \A i \in DOMAIN polls' :
          \/ i \in DOMAIN polls /\ polls'[i] = polls[i]
          \/ i = end /\ polls'[i] = w
    BY <2>2
  <2>4. AskingInv'
    BY <1>2, <1>3, <2>1, <2>3 DEF RequestInv, AskingInv, Asking
  <2>5. \A i \in DOMAIN channel' : Asked(i)' => channel'[i].poller # w
    BY <1>3, <2>1 DEF RequestInv, SingleInv
  <2>6. \A i \in DOMAIN polls : polls[i] # w
    BY <2>1 DEF RequestInv, SingleInv
  <2>7. w # cur
    BY <2>1 DEF RequestInv, SingleInv
  <2>8. SingleInv'
    <3>1. \A i, j \in DOMAIN channel' :
            Asked(i)' /\ Asked(j)' /\ i # j
              => channel'[i].poller # channel'[j].poller
      BY <1>3, <1>6 DEF RequestInv, SingleInv
    <3>2. \A i, j \in DOMAIN polls' : i # j => polls'[i] # polls'[j]
      BY <2>3, <2>6 DEF RequestInv, SingleInv
    <3>3. \A i \in DOMAIN channel' : Asked(i)' =>
            /\ channel'[i].poller # cur
            /\ \A j \in DOMAIN polls' : polls'[j] # channel'[i].poller
      BY <1>3, <2>3, <2>5 DEF RequestInv, SingleInv
    <3>4. \A i \in DOMAIN polls' : polls'[i] # cur
      BY <2>3, <2>7 DEF RequestInv, SingleInv
    <3> QED
      BY <1>2, <3>1, <3>2, <3>3, <3>4 DEF SingleInv
  <2>9. \A j \in DOMAIN channel' : Behind(w, j + 1)
    <3>1. \A j \in DOMAIN channel' : 1 < j + 1
      BY <1>1
    <3> QED
      BY <1>3, <2>1, <3>1 DEF RequestInv, MarkInv
  <2>10. MarkInv'
    <3>1. ASSUME NEW i \in DOMAIN polls', NEW j \in DOMAIN channel'
          PROVE  Behind(polls[i], j)'
      <4>1. Behind(polls'[i], j + 1)
        BY <1>3, <2>3, <2>9 DEF RequestInv, MarkInv
      <4> QED
        BY <1>2, <1>3, <4>1 DEF Behind
    <3> QED
      BY <1>2, <1>4, <1>8, <3>1 DEF MarkInv
  <2> QED
    BY <1>5, <2>4, <2>8, <2>10 DEF RequestInv
<1> QED
  BY <1>9, <1>10 DEF TryRecv

\* The first request leaves tasks_polls, which moves the others up.
LEMMA PollsShrink ==
  ASSUME TInv, polls # <<>>, polls' = Tail(polls)
  PROVE  /\ Head(polls) = polls[1]
         /\ Head(polls) \in Pollers
         /\ 1 \in DOMAIN polls
         /\ \A i \in DOMAIN polls' :
              i + 1 \in DOMAIN polls /\ i + 1 # 1 /\ polls'[i] = polls[i + 1]
         /\ \A i, j \in DOMAIN polls' : i # j => i + 1 # j + 1
<1>1. polls \in Seq(Pollers)
  BY DEF TInv, TypeOK
<1>2. /\ Len(polls) \in Nat \ {0}
      /\ DOMAIN polls = 1 .. Len(polls)
  BY <1>1, EmptySeq, LenProperties
<1>3. /\ Tail(polls) \in Seq(Pollers)
      /\ Len(Tail(polls)) = Len(polls) - 1
      /\ \A i \in 1 .. Len(Tail(polls)) : Tail(polls)[i] = polls[i + 1]
      /\ Head(polls) \in Pollers
  BY <1>1, HeadTailProperties
<1>4. DOMAIN polls' = 1 .. (Len(polls) - 1)
  BY <1>2, <1>3, LenProperties
<1> QED
  BY <1>1, <1>2, <1>3, <1>4

\* The first request is skipped, or taken in hand with a task.
LEMMA ServeKeepsRequests ==
  ASSUME TInv, OrderInv, RequestInv, SkipPoll \/ TakeTask
  PROVE  RequestInv'
<1> DEFINE w == Head(polls)
<1>1. /\ w = polls[1]
      /\ w \in Pollers
      /\ 1 \in DOMAIN polls
      /\ \A i \in DOMAIN polls' :
           i + 1 \in DOMAIN polls /\ i + 1 # 1 /\ polls'[i] = polls[i + 1]
      /\ \A i, j \in DOMAIN polls' : i # j => i + 1 # j + 1
  BY PollsShrink DEF SkipPoll, TakeTask
<1>2. /\ UNCHANGED <<channel, prio, dispatched, poller, inbox, mark>>
      /\ pc = "serve"
      /\ \/ cur' = cur /\ pc' = pc
         \/ cur' = w /\ pc' = "send"
  BY DEF SkipPoll, TakeTask, clientVars, pollerVars
<1>3. cur = None
  BY <1>2 DEF RequestInv, AskingInv
<1>4. w # None
  BY <1>1, RequestTypes
<1>5. AskingInv'
  BY <1>1, <1>2, <1>3, <1>4 DEF RequestInv, AskingInv, Asking, Asked
<1>6. SingleInv'
  <2>1. \A i \in DOMAIN polls' : polls'[i] # w
    BY <1>1 DEF RequestInv, SingleInv
  <2>2. \A i \in DOMAIN channel : Asked(i) => channel[i].poller # w
    BY <1>1 DEF RequestInv, SingleInv
  <2>3. \A i, j \in DOMAIN polls' : i # j => polls'[i] # polls'[j]
    BY <1>1 DEF RequestInv, SingleInv
  <2> QED
    BY <1>1, <1>2, <2>1, <2>2, <2>3 DEF RequestInv, SingleInv, Asked
<1>7. MarkInv'
  <2>1. \A j \in DOMAIN channel : Behind(w, j)
    BY <1>1 DEF RequestInv, MarkInv
  <2> QED
    BY <1>1, <1>2, <1>3, <2>1 DEF RequestInv, MarkInv, Behind, Asked, Pushed
<1>8. HeldInv' /\ UrgentFirst'
  BY <1>2 DEF RequestInv, HeldInv, UrgentFirst, WasDispatched, Sent
<1>9. HandInv'
  <2>1. CASE UNCHANGED <<last_task, queue>>
    BY <1>2, <2>1 DEF RequestInv, HandInv
  <2>2. CASE \E p \in Priority : /\ IsNextQueue(p)
                                /\ last_task' = Head(queue[p])
                                /\ queue' = [queue EXCEPT ![p] = Tail(@)]
    <3>1. PICK p \in Priority : /\ IsNextQueue(p)
                               /\ last_task' = Head(queue[p])
                               /\ queue' = [queue EXCEPT ![p] = Tail(@)]
      BY <2>2
    <3>2. queue \in [Priority -> Seq(Task)] /\ queue[p] # <<>>
      BY <3>1 DEF IsNextQueue, TInv, TypeOK
    <3>3. 1 \in DOMAIN queue[p] /\ Head(queue[p]) = queue[p][1]
      BY <3>2, EmptySeq, LenProperties
    <3>4. prio[last_task'] = p
      BY <3>1, <3>3 DEF OrderInv, FlightInv
    <3>5. \A q \in Priority : Rank[q] < Rank[p] => queue[q] = <<>> /\ q # p
      BY <3>1, <3>2 DEF IsNextQueue
    <3> QED
      BY <1>2, <3>1, <3>2, <3>4, <3>5 DEF HandInv
  <2> QED
    BY <2>1, <2>2 DEF SkipPoll, TakeTask
<1> QED
  BY <1>5, <1>6, <1>7, <1>8, <1>9 DEF RequestInv

\* The task in hand goes to the poller: what is more urgent and was sent before
\* the request is neither in the channel nor in a queue.
LEMMA SendOkKeepsRequests ==
  ASSUME TInv, OrderInv, RequestInv, SendOk
  PROVE  RequestInv'
<1>1. /\ UNCHANGED <<channel, prio, queue, polls, poller, mark>>
      /\ pc = "send" /\ pc' = "serve" /\ cur' = None /\ last_task' = None
      /\ poller[cur] = "waiting"
      /\ inbox' = [inbox EXCEPT ![cur] = last_task]
      /\ dispatched' = Append(dispatched, last_task)
  BY DEF SendOk, clientVars, Connected
<1>2. cur \in Pollers /\ last_task \in Task /\ last_task # None
  BY <1>1, RequestTypes DEF TInv, Sending
<1>3. last_task \in 1 .. Sent
  BY <1>2 DEF OrderInv, FlightInv
<1>4. /\ inbox'[cur] = last_task
      /\ \A w \in Pollers \ {cur} : inbox'[w] = inbox[w]
  BY <1>1, <1>2, RequestTypes
<1>5. \A n : WasDispatched(n) => WasDispatched(n)'
  <2>1. dispatched \in Seq(Task)
    BY DEF TInv, TypeOK
  <2>2. /\ Len(dispatched) \in Nat
        /\ DOMAIN dispatched = 1 .. Len(dispatched)
        /\ DOMAIN dispatched' = 1 .. (Len(dispatched) + 1)
        /\ \A i \in 1 .. Len(dispatched) : dispatched'[i] = dispatched[i]
        /\ dispatched'[Len(dispatched) + 1] = last_task
    BY <1>1, <1>2, <2>1, AppendProperties, LenProperties
  <2> QED
    BY <1>1, <2>2 DEF WasDispatched
<1>6. AskingInv'
  <2>1. \A w \in Pollers \ {cur} : Asking(w) => Asking(w)'
    BY <1>1, <1>4 DEF Asking
  <2>2. \A i \in DOMAIN channel : Asked(i) => channel[i].poller \in Pollers \ {cur}
    BY ChannelForms DEF RequestInv, SingleInv
  <2>3. \A i \in DOMAIN polls : polls[i] \in Pollers \ {cur}
    BY RequestTypes DEF RequestInv, SingleInv
  <2> QED
    BY <1>1, <2>1, <2>2, <2>3 DEF RequestInv, AskingInv, Asked, Asking
<1>7. SingleInv'
  <2>1. \A i \in DOMAIN channel : Asked(i) => channel[i].poller # None
    BY ChannelForms, RequestTypes
  <2>2. \A i \in DOMAIN polls : polls[i] # None
    BY RequestTypes
  <2> QED
    BY <1>1, <2>1, <2>2 DEF RequestInv, SingleInv, Asked
<1>8. HeldInv'
  BY <1>1, <1>2, <1>3, <1>4 DEF RequestInv, HeldInv, Sent
<1>9. MarkInv' /\ HandInv'
  BY <1>1 DEF RequestInv, MarkInv, HandInv, Behind, Asked, Pushed
<1>10. ASSUME NEW n \in 1 .. mark[cur], Rank[prio[n]] < Rank[prio[last_task]]
       PROVE  WasDispatched(n)
  <2>1. n \in 1 .. Sent /\ n \in Nat
    BY <1>2, RequestTypes DEF RequestInv, HeldInv
  <2>2. prio[n] \in Priority /\ queue[prio[n]] = <<>>
    BY <1>2, <1>10, <2>1, SentTasks DEF RequestInv, HandInv
  <2>3. ~ InQueue(prio[n], n)
    BY <2>2 DEF InQueue
  <2>4. ~ InChannel(n)
    <3> SUFFICES ASSUME NEW i \in DOMAIN channel, channel[i] = PushTask(n)
                 PROVE  FALSE
      BY DEF InChannel
    <3>1. Pushed(i) /\ channel[i].task = n
      BY DEF Pushed, PushTask
    <3>2. cur # None
      BY <1>2, RequestTypes
    <3>3. mark[cur] < n
      BY <3>1, <3>2 DEF RequestInv, MarkInv, Behind
    <3> QED
      BY <1>2, <2>1, <3>3, RequestTypes
  <2>5. n # last_task
    BY <1>3, <1>10, <2>1, SentTasks, RankOrder
  <2> QED
    BY <1>1, <2>1, <2>3, <2>4, <2>5 DEF OrderInv, NothingLost
<1>11. UrgentFirst'
  <2> SUFFICES ASSUME NEW w \in Pollers, inbox'[w] # None, NEW n \in 1 .. mark[w],
                      Rank[prio[n]] < Rank[prio[inbox'[w]]]
               PROVE  WasDispatched(n)'
    BY <1>1 DEF UrgentFirst
  <2>1. CASE w = cur
    BY <1>4, <1>5, <1>10, <2>1
  <2>2. CASE w # cur
    BY <1>4, <1>5, <2>2 DEF RequestInv, UrgentFirst
  <2> QED
    BY <2>1, <2>2
<1> QED
  BY <1>6, <1>7, <1>8, <1>9, <1>11 DEF RequestInv

\* The other steps of the scheduler bring no request any further.
LEMMA SchedulerKeepsRequests ==
  ASSUME TInv, OrderInv, RequestInv,
         Drained \/ Disconnected \/ NoTask \/ SendErr \/ Served
  PROVE  RequestInv'
<1>1. UNCHANGED <<channel, prio, dispatched, poller, inbox, mark>>
  BY DEF Drained, Disconnected, NoTask, SendErr, Served, clientVars, pollerVars
<1>2. /\ polls' = polls \/ polls' = <<>>
      /\ pc' # "send"
      /\ cur' = None
  BY DEF Drained, Disconnected, NoTask, SendErr, Served,
         RequestInv, AskingInv
<1>3. \A i \in DOMAIN polls' : i \in DOMAIN polls /\ polls'[i] = polls[i]
  <2>1. CASE polls' = polls
    BY <2>1
  <2>2. CASE polls' = <<>>
    BY <2>2
  <2> QED
    BY <1>2, <2>1, <2>2
<1>4. AskingInv'
  BY <1>1, <1>2, <1>3 DEF RequestInv, AskingInv, Asking, Asked
<1>5. SingleInv'
  <2>1. \A i \in DOMAIN channel : Asked(i) => channel[i].poller # None
    BY ChannelForms, RequestTypes
  <2>2. \A i \in DOMAIN polls : polls[i] # None
    BY RequestTypes
  <2> QED
    BY <1>1, <1>2, <1>3, <2>1, <2>2 DEF RequestInv, SingleInv, Asked
<1>6. MarkInv'
  BY <1>1, <1>2, <1>3 DEF RequestInv, MarkInv, Behind, Asked, Pushed
<1>7. HeldInv' /\ UrgentFirst'
  BY <1>1 DEF RequestInv, HeldInv, UrgentFirst, WasDispatched, Sent
<1>8. HandInv'
  <2>1. CASE Disconnected
    <3>1. last_task' = None
      BY <2>1 DEF Disconnected, OrderInv, LastInv
    <3> QED
      BY <3>1 DEF HandInv
  <2>2. CASE Served
    BY <2>2 DEF Served, HandInv
  <2>3. CASE Drained \/ NoTask \/ SendErr
    BY <1>1, <2>3 DEF Drained, NoTask, SendErr, RequestInv, HandInv
  <2> QED
    BY <2>1, <2>2, <2>3
<1> QED
  BY <1>4, <1>5, <1>6, <1>7, <1>8 DEF RequestInv

-----------------------------------------------------------------------------

\* RequestInv is preserved by every step, action by action.
LEMMA RequestInvStep == TInv /\ OrderInv /\ RequestInv /\ [Next]_vars => RequestInv'
<1> SUFFICES ASSUME TInv, OrderInv, RequestInv, [Next]_vars PROVE RequestInv'
  OBVIOUS
<1>1. ASSUME NEW h \in Handlers, NEW p \in Priority, Send(h, p)
      PROVE  RequestInv'
  BY <1>1, SendKeepsRequests
<1>2. ASSUME UNCHANGED <<channel, prio, queue, polls, pc, cur, last_task,
                         dispatched, mark, poller, inbox>>
      PROVE  RequestInv'
  <2>1. HeldInv'
    BY <1>2 DEF RequestInv, HeldInv, Sent
  <2> QED
    BY <1>2, <2>1, RequestsStay DEF Asking
<1>3. ASSUME NEW h \in Handlers, Close(h)
      PROVE  RequestInv'
  BY <1>2, <1>3 DEF Close, schedulerVars, pollerVars
<1>4. ASSUME NEW w \in Pollers, Poll(w)
      PROVE  RequestInv'
  BY <1>4, PollKeepsRequests
<1>5. ASSUME NEW w \in Pollers, Receive(w) \/ Finish(w) \/ Panic(w) \/ Abandon(w)
      PROVE  RequestInv'
  BY <1>5, PollerKeepsRequests
<1>6. CASE TryRecv
  BY <1>6, TryRecvKeepsRequests
<1>7. CASE SkipPoll \/ TakeTask
  BY <1>7, ServeKeepsRequests
<1>8. CASE SendOk
  BY <1>8, SendOkKeepsRequests
<1>9. CASE Drained \/ Disconnected \/ NoTask \/ SendErr \/ Served
  BY <1>9, SchedulerKeepsRequests
<1>10. CASE UNCHANGED vars
  BY <1>2, <1>10 DEF vars
<1> QED
  BY <1>1, <1>3, <1>4, <1>5, <1>6, <1>7, <1>8, <1>9, <1>10
     DEF Next, SchedulerStep, PollerStep

\* Nobody has asked before the first step.
LEMMA RequestInit == Init => RequestInv
<1> SUFFICES ASSUME Init PROVE RequestInv
  OBVIOUS
<1>1. /\ DOMAIN channel = {} /\ DOMAIN polls = {}
      /\ cur = None /\ pc = "drain" /\ last_task = None
      /\ \A w \in Pollers : inbox[w] = None /\ mark[w] = 0
      /\ Sent = 0
  BY DEF Init, Sent
<1> QED
  BY <1>1 DEF RequestInv, AskingInv, SingleInv, HeldInv, MarkInv, HandInv,
              UrgentFirst

\* A poller is never handed a task while a more urgent one, sent before it asked,
\* still waits, whatever the number of pollers and however they fail
\* (scheduler.rs:8-9, 82-94 and 66-76).
THEOREM UrgentTasksFirst == Spec => []UrgentFirst
<1>1. Init => TInv /\ OrderInv /\ RequestInv
  BY InitInv, RequestInit
<1>2. TInv /\ OrderInv /\ RequestInv /\ [Next]_vars
        => (TInv /\ OrderInv /\ RequestInv)'
  BY TInvStep, OrderInvStep, RequestInvStep
<1>3. RequestInv => UrgentFirst
  BY DEF RequestInv
<1> QED
  BY <1>1, <1>2, <1>3, PTL DEF Spec

-----------------------------------------------------------------------------
(***************************************************************************)
(* A single poller, as the driver sets it up: one worker in one thread.    *)
(***************************************************************************)

\* As long as w lives, every task that was sent to it has been run, except the
\* last one while w still has it.
RunInv(w) ==
  poller[w] # "gone" =>
    \A j \in DOMAIN dispatched :
      \/ dispatched[j] \in executed
      \/ j = Len(dispatched) /\ dispatched[j] = inbox[w]

\* The tasks that were sent to a poller, one after the other.
LEMMA DispatchGrows ==
  ASSUME TInv, NEW n \in Task, dispatched' = Append(dispatched, n)
  PROVE  /\ Len(dispatched) \in Nat
         /\ DOMAIN dispatched = 1 .. Len(dispatched)
         /\ DOMAIN dispatched' = 1 .. (Len(dispatched) + 1)
         /\ Len(dispatched') = Len(dispatched) + 1
         /\ \A i \in 1 .. Len(dispatched) : dispatched'[i] = dispatched[i]
         /\ dispatched'[Len(dispatched) + 1] = n
<1>1. dispatched \in Seq(Task)
  BY DEF TInv, TypeOK
<1> QED
  BY <1>1, AppendProperties, LenProperties

\* Only SendOk dispatches a task, and then the poller that asked has run all
\* that it was sent before.
LEMMA RunInvStep ==
  ASSUME NEW CONSTANT w, Pollers = {w}, TInv, OrderInv, RequestInv,
         RunInv(w), OneAtATime, [Next]_vars
  PROVE  RunInv(w)' /\ OneAtATime'
<1>1. CASE SendOk
  <2>1. /\ UNCHANGED <<poller, executed>>
        /\ pc = "send" /\ poller[cur] = "waiting"
        /\ inbox' = [inbox EXCEPT ![cur] = last_task]
        /\ dispatched' = Append(dispatched, last_task)
    BY <1>1 DEF SendOk, clientVars, Connected
  <2>2. cur = w /\ last_task \in Task
    BY <2>1 DEF TInv, Sending
  <2>3. inbox[w] = None
    BY <2>1, <2>2, RequestTypes DEF RequestInv, AskingInv, Asking
  <2>4. \A j \in DOMAIN dispatched : dispatched[j] \in executed
    <3>1. \A j \in DOMAIN dispatched : dispatched[j] # None
      BY RequestTypes DEF OrderInv, FlightInv
    <3> QED
      BY <2>1, <2>2, <2>3, <3>1 DEF RunInv
  <2>5. inbox'[w] = last_task
    BY <2>1, <2>2, RequestTypes
  <2>6. /\ Len(dispatched) \in Nat
        /\ DOMAIN dispatched = 1 .. Len(dispatched)
        /\ DOMAIN dispatched' = 1 .. (Len(dispatched) + 1)
        /\ Len(dispatched') = Len(dispatched) + 1
        /\ \A i \in 1 .. Len(dispatched) : dispatched'[i] = dispatched[i]
        /\ dispatched'[Len(dispatched) + 1] = last_task
    BY <2>1, <2>2, DispatchGrows
  <2> QED
    BY <2>1, <2>4, <2>5, <2>6, SMTT(40) DEF RunInv, OneAtATime
<1>2. ASSUME UNCHANGED dispatched, executed \subseteq executed',
             \/ poller'[w] = "gone"
             \/ poller[w] # "gone" /\ inbox'[w] = inbox[w]
             \/ poller[w] # "gone" /\ inbox[w] \in executed'
      PROVE  RunInv(w)' /\ OneAtATime'
  BY <1>2 DEF RunInv, OneAtATime
<1>3. ASSUME UNCHANGED <<dispatched, executed, poller, inbox>>
      PROVE  RunInv(w)' /\ OneAtATime'
  BY <1>2, <1>3
<1>4. ASSUME NEW h \in Handlers, NEW p \in Priority, Send(h, p) \/ Close(h)
      PROVE  RunInv(w)' /\ OneAtATime'
  BY <1>3, <1>4 DEF Send, Close, schedulerVars, pollerVars
<1>5. CASE Poll(w) \/ Receive(w) \/ Finish(w) \/ Panic(w) \/ Abandon(w)
  <2>1. UNCHANGED dispatched /\ executed \subseteq executed'
    BY <1>5 DEF Poll, Receive, Finish, Panic, Abandon, schedulerVars
  <2>2. \/ poller'[w] = "gone"
        \/ poller[w] # "gone" /\ inbox'[w] = inbox[w]
        \/ poller[w] # "gone" /\ inbox[w] \in executed'
    BY <1>5, RequestTypes DEF Poll, Receive, Finish, Panic, Abandon
  <2> QED
    BY <1>2, <2>1, <2>2
<1>6. CASE SchedulerStep /\ ~ SendOk
  BY <1>3, <1>6 DEF SchedulerStep, TryRecv, Drained, Disconnected, SkipPoll,
                    TakeTask, NoTask, SendErr, Served, pollerVars
<1>7. CASE UNCHANGED vars
  BY <1>3, <1>7 DEF vars
<1> QED
  BY <1>1, <1>4, <1>5, <1>6, <1>7 DEF Next, PollerStep, Priority

\* With one poller a task is run only after all that were dispatched before it
\* have run to the end, so what it leaves behind is there for the next one
\* (scheduler.rs:12-14, worker.rs:34-44).
THEOREM OneWorkerRunsOneTask ==
  ASSUME NEW CONSTANT w, Pollers = {w}
  PROVE  Spec => []OneAtATime
<1>1. Init => TInv /\ OrderInv /\ RequestInv /\ RunInv(w) /\ OneAtATime
  <2>1. Init => DOMAIN dispatched = {}
    BY DEF Init
  <2> QED
    BY <2>1, InitInv, RequestInit DEF RunInv, OneAtATime
<1>2. TInv /\ OrderInv /\ RequestInv /\ RunInv(w) /\ OneAtATime /\ [Next]_vars
        => (TInv /\ OrderInv /\ RequestInv /\ RunInv(w) /\ OneAtATime)'
  BY TInvStep, OrderInvStep, RequestInvStep, RunInvStep
<1> QED
  BY <1>1, <1>2, PTL DEF Spec

=============================================================================
