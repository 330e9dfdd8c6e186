------------------------- MODULE TaskSchedulerProofs -------------------------
(***************************************************************************)
(* Proofs about TaskScheduler, for any number of handlers, pollers and     *)
(* tasks.                                                                  *)
(***************************************************************************)
EXTENDS TaskScheduler, SequenceTheorems, TLAPS

\* The one-line operators of the code are read as what they stand for.
USE DEF PushBack, PushFront, MayPoll, AllClosed, PollsLeft, TaskInHand, KeptTask

\* A task that is about to be sent exists, and so does the request it answers.
Sending == pc = "send" => last_task \in Task /\ cur \in Pollers

\* A poller that runs has a task to run.
Running == \A w \in Pollers : poller[w] = "running" => inbox[w] \in Task

TInv == TypeOK /\ Sending /\ Running

\* What a message of the channel is.
LEMMA MessageForms ==
  ASSUME NEW m \in Message
  PROVE  \/ m.kind = "PushTask" /\ m.task \in Task
         \/ m.kind = "PollTask" /\ m.poller \in Pollers
BY DEF Message, PushTask, PollTask

\* Replacing one of the queues.
LEMMA QueueUpdate ==
  ASSUME NEW p, NEW q \in Seq(Task), queue \in [Priority -> Seq(Task)]
  PROVE  [queue EXCEPT ![p] = q] \in [Priority -> Seq(Task)]
OBVIOUS

\* TInv is inductive: every step of a client, a poller or the scheduler keeps it.
LEMMA TInvStep == TInv /\ [Next]_vars => TInv'
<1> USE SchedulerAssumption DEF Sent
<1> SUFFICES ASSUME TInv, [Next]_vars PROVE TInv'
  OBVIOUS
<1> USE DEF TInv, TypeOK, Sending, Running
<1>1. ASSUME NEW h \in Handlers, NEW p \in Priority, Send(h, p) PROVE TInv'
  BY <1>1, SMTT(40) DEF Send, schedulerVars, pollerVars, Message, PushTask, Task
<1>2. ASSUME NEW h \in Handlers, Close(h) PROVE TInv'
  BY <1>2 DEF Close, schedulerVars, pollerVars
<1>3. ASSUME NEW w \in Pollers, Poll(w) PROVE TInv'
  BY <1>3 DEF Poll, schedulerVars, Message, PollTask
<1>4. ASSUME NEW w \in Pollers, Receive(w) PROVE TInv'
  BY <1>4 DEF Receive, schedulerVars, clientVars
<1>5. ASSUME NEW w \in Pollers, Finish(w) PROVE TInv'
  BY <1>5 DEF Finish, schedulerVars, clientVars
<1>6. ASSUME NEW w \in Pollers, Panic(w) PROVE TInv'
  BY <1>6 DEF Panic, schedulerVars
<1>7. ASSUME NEW w \in Pollers, Abandon(w) PROVE TInv'
  BY <1>7 DEF Abandon, schedulerVars
<1>8. CASE TryRecv
  <2> DEFINE msg == Head(channel)
  <2>1. msg \in Message /\ channel' \in Seq(Message)
    BY <1>8 DEF TryRecv
  <2>2. CASE msg.kind = "PushTask"
    <3>1. msg.task \in Task
      BY <2>1, <2>2, MessageForms
    <3>2. /\ queue' = [queue EXCEPT ![prio[msg.task]] = Append(@, msg.task)]
          /\ UNCHANGED polls
      BY <1>8, <2>2 DEF TryRecv
    <3>3. queue' \in [Priority -> Seq(Task)]
      <4>1. \A q \in Seq(Task) : Append(q, msg.task) \in Seq(Task)
        BY <3>1
      <4>2. CASE prio[msg.task] \in Priority
        BY <3>2, <4>1, <4>2, QueueUpdate
      <4>3. CASE prio[msg.task] \notin Priority
        BY <3>2, <4>3
      <4> QED
        BY <4>2, <4>3
    <3> QED
      BY <1>8, <2>1, <3>2, <3>3 DEF TryRecv, pollerVars
  <2>3. CASE msg.kind = "PollTask"
    <3>1. msg.poller \in Pollers
      BY <2>1, <2>3, MessageForms
    <3>2. polls' = Append(polls, msg.poller) /\ UNCHANGED queue
      BY <1>8, <2>3 DEF TryRecv
    <3>3. polls' \in Seq(Pollers)
      BY <3>1, <3>2, AppendProperties
    <3> QED
      BY <1>8, <2>1, <3>2, <3>3 DEF TryRecv, pollerVars
  <2> QED
    BY <2>1, <2>2, <2>3, MessageForms
<1>9. CASE Drained
  BY <1>9 DEF Drained, clientVars, pollerVars
<1>10. CASE Disconnected
  BY <1>10 DEF Disconnected, clientVars, pollerVars
<1>11. CASE SkipPoll
  BY <1>11 DEF SkipPoll, clientVars, pollerVars
<1>12. CASE TakeTask
  <2>1. CASE last_task # None
    BY <1>12, <2>1 DEF TakeTask, clientVars, pollerVars
  <2>2. CASE last_task = None
    <3>1. PICK p \in Priority : /\ queue[p] # <<>>
                               /\ last_task' = Head(queue[p])
                               /\ queue' = [queue EXCEPT ![p] = Tail(@)]
      BY <1>12, <2>2 DEF TakeTask, IsNextQueue
    <3>2. queue[p] \in Seq(Task)
      OBVIOUS
    <3>3. Head(queue[p]) \in Task /\ Tail(queue[p]) \in Seq(Task)
      BY <3>1, <3>2, HeadTailProperties
    <3>4. queue' \in [Priority -> Seq(Task)] /\ last_task' \in Task
      BY <3>1, <3>3
    <3> QED
      BY <1>12, <3>4, SMTT(40) DEF TakeTask, clientVars, pollerVars
  <2> QED
    BY <2>1, <2>2
<1>13. CASE NoTask
  BY <1>13 DEF NoTask, clientVars, pollerVars
<1>14. CASE SendOk
  BY <1>14 DEF SendOk, clientVars
<1>15. CASE SendErr
  BY <1>15 DEF SendErr, clientVars, pollerVars
<1>16. CASE Served
  <2>1. queue' \in [Priority -> Seq(Task)]
    <3>1. CASE last_task # None
      <4>1. <<last_task>> \in Seq(Task)
        BY <3>1
      <4>2. \A q \in Seq(Task) : <<last_task>> \o q \in Seq(Task)
        BY <4>1, ConcatProperties
      <4>3. queue' = [queue EXCEPT ![prio[last_task]] = <<last_task>> \o @]
        BY <1>16, <3>1 DEF Served
      <4> QED
        BY <4>2, <4>3
    <3>2. CASE last_task = None
      BY <1>16, <3>2 DEF Served
    <3> QED
      BY <3>1, <3>2
  <2> QED
    BY <1>16, <2>1 DEF Served, clientVars, pollerVars
<1>17. CASE UNCHANGED vars
  BY <1>17 DEF vars
<1> QED
  BY <1>1, <1>2, <1>3, <1>4, <1>5, <1>6, <1>7, <1>8, <1>9, <1>10, <1>11,
     <1>12, <1>13, <1>14, <1>15, <1>16, <1>17
     DEF Next, SchedulerStep, PollerStep

-----------------------------------------------------------------------------
(***************************************************************************)
(* The invariant behind the properties.  A task moves from the channel to  *)
(* the queue of its priority, to last_task and to a poller; at each place  *)
(* the tasks are in the order of their sends, and what is further behind   *)
(* was sent later.                                                         *)
(***************************************************************************)

Pushed(i) == channel[i].kind = "PushTask"

\* Whatever is under way has been sent, and is queued by its priority.
FlightInv ==
  /\ \A i \in DOMAIN channel : Pushed(i) => channel[i].task \in 1 .. Sent
  /\ \A p \in Priority : \A i \in DOMAIN queue[p] :
       queue[p][i] \in 1 .. Sent /\ prio[queue[p][i]] = p
  /\ last_task # None => last_task \in 1 .. Sent
  /\ \A i \in DOMAIN dispatched : dispatched[i] \in 1 .. Sent

\* The channel and each queue are in the order of sending.
SortedInv ==
  /\ \A i, j \in DOMAIN channel :
       i < j /\ Pushed(i) /\ Pushed(j) => channel[i].task < channel[j].task
  /\ \A p \in Priority : \A i, j \in DOMAIN queue[p] :
       i < j => queue[p][i] < queue[p][j]

\* The tasks in the channel were sent after all those that have left it.
ChannelInv ==
  \A i \in DOMAIN channel : Pushed(i) =>
    /\ \A p \in Priority : \A j \in DOMAIN queue[p] :
         queue[p][j] < channel[i].task
    /\ last_task # None => last_task < channel[i].task
    /\ \A j \in DOMAIN dispatched : dispatched[j] < channel[i].task

\* last_task was sent before the tasks in its queue, and everything it must
\* not overtake has been dispatched.
LastInv ==
  last_task # None =>
    /\ pc \in {"serve", "send"}
    /\ \A i \in DOMAIN queue[prio[last_task]] :
         last_task < queue[prio[last_task]][i]
    /\ \A n \in 1 .. (last_task - 1) :
         Rank[prio[n]] <= Rank[prio[last_task]] => WasDispatched(n)

\* A dispatched task is nowhere else.
GoneInv ==
  \A i \in DOMAIN dispatched :
    /\ dispatched[i] # last_task
    /\ \A p \in Priority : \A j \in DOMAIN queue[p] :
         queue[p][j] # dispatched[i]

OrderInv ==
  /\ FlightInv
  /\ SortedInv
  /\ ChannelInv
  /\ LastInv
  /\ GoneInv
  /\ NothingLost
  /\ AtMostOnce
  /\ DispatchOrder

\* A step that moves no task.
LEMMA QuietStep ==
  ASSUME TInv, OrderInv,
         UNCHANGED <<channel, prio, queue, last_task, dispatched, discarded>>,
         pc = "stopped" => pc' = "stopped",
         last_task # None => pc' \in {"serve", "send"}
  PROVE  OrderInv'
<1> USE DEF Sent, Pushed
<1>1. FlightInv' /\ SortedInv' /\ ChannelInv'
  BY DEF OrderInv, FlightInv, SortedInv, ChannelInv
<1>2. LastInv' /\ GoneInv'
  BY DEF OrderInv, LastInv, GoneInv, WasDispatched
<1>3. NothingLost'
  BY DEF OrderInv, NothingLost, InChannel, InQueue, WasDispatched, PushTask
<1>4. AtMostOnce' /\ DispatchOrder'
  BY DEF OrderInv, AtMostOnce, DispatchOrder
<1> QED
  BY <1>1, <1>2, <1>3, <1>4 DEF OrderInv

\* A message is put behind the others.
LEMMA ChannelGrows ==
  ASSUME TInv, NEW m \in Message, channel' = Append(channel, m)
  PROVE  /\ Len(channel) \in Nat
         /\ DOMAIN channel = 1 .. Len(channel)
         /\ DOMAIN channel' = 1 .. (Len(channel) + 1)
         /\ \A i \in 1 .. Len(channel) : channel'[i] = channel[i]
         /\ channel'[Len(channel) + 1] = m
BY AppendProperties, LenProperties DEF TInv, TypeOK

\* A client sends a task: the youngest one joins the end of the channel.
LEMMA SendStep ==
  ASSUME TInv, OrderInv, NEW h \in Handlers, NEW p \in Priority, Send(h, p)
  PROVE  OrderInv'
<1> DEFINE new == Sent + 1
           last == Len(channel) + 1
<1>1. Sent \in Nat /\ new \in Task /\ prio \in Seq(Priority)
  BY SchedulerAssumption DEF TInv, TypeOK, Send, Sent, Task
<1>2. /\ Sent' = Sent + 1
      /\ prio'[new] = p
      /\ \A n \in 1 .. Sent : prio'[n] = prio[n]
  BY <1>1, AppendProperties DEF Send, Sent
<1>3. PushTask(new) \in Message
  BY <1>1 DEF Message
<1>4. /\ Len(channel) \in Nat
      /\ DOMAIN channel = 1 .. Len(channel)
      /\ DOMAIN channel' = 1 .. last
      /\ \A i \in 1 .. Len(channel) : channel'[i] = channel[i]
      /\ channel'[last] = PushTask(new)
  BY <1>3, ChannelGrows DEF Send
<1>5. UNCHANGED <<queue, last_task, dispatched, discarded, pc>>
  BY DEF Send, schedulerVars
<1>6. FlightInv'
  BY <1>1, <1>2, <1>4, <1>5 DEF OrderInv, FlightInv, Pushed, PushTask
<1>7. SortedInv'
  BY <1>1, <1>4, <1>5, SMTT(40) DEF OrderInv, FlightInv, SortedInv, Pushed, PushTask
<1>8. ChannelInv'
  BY <1>1, <1>4, <1>5
     DEF OrderInv, FlightInv, ChannelInv, Pushed, PushTask
<1>9. LastInv'
  BY <1>1, <1>2, <1>5 DEF OrderInv, FlightInv, LastInv, WasDispatched
<1>10. GoneInv' /\ AtMostOnce'
  BY <1>5 DEF OrderInv, GoneInv, AtMostOnce
<1>11. NothingLost'
  <2> SUFFICES ASSUME NEW n \in 1 .. Sent', n \in 1 .. Sent
               PROVE  (\/ InChannel(n) \/ InQueue(prio[n], n)
                       \/ n = last_task \/ WasDispatched(n)
                       \/ pc = "stopped" /\ n \in discarded)'
    BY <1>1, <1>2, <1>4 DEF NothingLost, InChannel
  <2> QED
    BY <1>2, <1>4, <1>5
       DEF OrderInv, NothingLost, InChannel, InQueue, WasDispatched
<1>12. DispatchOrder'
  BY <1>1, <1>2, <1>5 DEF OrderInv, FlightInv, DispatchOrder
<1> QED
  BY <1>6, <1>7, <1>8, <1>9, <1>10, <1>11, <1>12 DEF OrderInv

\* A poller asks for a task: the message it puts in the channel carries none.
LEMMA PollStep ==
  ASSUME TInv, OrderInv, NEW w \in Pollers, Poll(w)
  PROVE  OrderInv'
<1> DEFINE last == Len(channel) + 1
<1>1. PollTask(w) \in Message
  BY DEF Message
<1>2. /\ Len(channel) \in Nat
      /\ DOMAIN channel = 1 .. Len(channel)
      /\ DOMAIN channel' = 1 .. last
      /\ \A i \in 1 .. Len(channel) : channel'[i] = channel[i]
      /\ channel'[last] = PollTask(w)
  BY <1>1, ChannelGrows DEF Poll
<1>3. UNCHANGED <<prio, queue, last_task, dispatched, discarded, pc>>
  BY DEF Poll, schedulerVars
<1>4. \A i \in DOMAIN channel' : Pushed(i)' =>
        i \in DOMAIN channel /\ Pushed(i) /\ channel'[i] = channel[i]
  BY <1>2 DEF Pushed, PollTask
<1>5. FlightInv' /\ SortedInv' /\ ChannelInv'
  BY <1>3, <1>4 DEF OrderInv, FlightInv, SortedInv, ChannelInv, Sent
<1>6. LastInv' /\ GoneInv' /\ AtMostOnce' /\ DispatchOrder'
  BY <1>3
     DEF OrderInv, LastInv, GoneInv, AtMostOnce, DispatchOrder, WasDispatched
<1>7. NothingLost'
  BY <1>2, <1>3
     DEF OrderInv, NothingLost, InChannel, InQueue, WasDispatched, Sent
<1> QED
  BY <1>5, <1>6, <1>7 DEF OrderInv

\* The first message leaves the channel, which moves the others up.
LEMMA ChannelShrinks ==
  ASSUME TInv, channel # <<>>, channel' = Tail(channel)
  PROVE  /\ Head(channel) \in Message
         /\ Head(channel) = channel[1]
         /\ Len(channel) \in Nat \ {0}
         /\ DOMAIN channel = 1 .. Len(channel)
         /\ DOMAIN channel' = 1 .. (Len(channel) - 1)
         /\ \A i \in 1 .. (Len(channel) - 1) : channel'[i] = channel[i + 1]
<1>1. channel \in Seq(Message)
  BY DEF TInv, TypeOK
<1>2. /\ Len(channel) \in Nat \ {0}
      /\ DOMAIN channel = 1 .. Len(channel)
  BY <1>1, EmptySeq, LenProperties
<1>3. /\ Tail(channel) \in Seq(Message)
      /\ Len(Tail(channel)) = Len(channel) - 1
      /\ \A i \in 1 .. Len(Tail(channel)) : Tail(channel)[i] = channel[i + 1]
      /\ Head(channel) \in Message
  BY <1>1, HeadTailProperties
<1> QED
  BY <1>1, <1>2, <1>3, LenProperties

\* What has been sent is a task and has a priority.
LEMMA SentTasks ==
  ASSUME TInv
  PROVE  /\ Sent \in Nat
         /\ 1 .. Sent \subseteq Task
         /\ \A n \in 1 .. Sent : prio[n] \in Priority
<1>1. prio \in Seq(Priority) /\ Sent <= MaxTasks
  BY DEF TInv, TypeOK
<1>2. Sent \in Nat /\ \A n \in 1 .. Sent : prio[n] \in Priority
  BY <1>1, LenProperties, ElementOfSeq DEF Sent
<1> QED
  BY <1>1, <1>2, SchedulerAssumption DEF Task

\* A message leaves the channel; a task goes to the end of its queue.
LEMMA TryRecvStep ==
  ASSUME TInv, OrderInv, TryRecv
  PROVE  OrderInv'
<1> DEFINE msg == Head(channel)
<1>1. /\ msg \in Message
      /\ msg = channel[1]
      /\ Len(channel) \in Nat \ {0}
      /\ DOMAIN channel = 1 .. Len(channel)
      /\ DOMAIN channel' = 1 .. (Len(channel) - 1)
      /\ \A i \in 1 .. (Len(channel) - 1) : channel'[i] = channel[i + 1]
  BY ChannelShrinks DEF TryRecv
<1>2. UNCHANGED <<prio, last_task, dispatched, discarded, pc>>
  BY DEF TryRecv, schedulerVars
<1>3. \A i \in DOMAIN channel' :
        i + 1 \in DOMAIN channel /\ channel'[i] = channel[i + 1]
  BY <1>1
<1>4. last_task = None
  BY DEF TryRecv, OrderInv, LastInv
<1>5. ASSUME msg.kind = "PollTask"
      PROVE  OrderInv'
  <2>1. UNCHANGED queue
    BY <1>5 DEF TryRecv
  <2>2. FlightInv' /\ ChannelInv'
    BY <1>2, <1>3, <2>1 DEF OrderInv, FlightInv, ChannelInv, Pushed, Sent
  <2>3. SortedInv'
    BY <1>1, <1>3, <2>1 DEF OrderInv, SortedInv, Pushed
  <2>4. LastInv' /\ GoneInv' /\ AtMostOnce' /\ DispatchOrder'
    BY <1>2, <2>1
       DEF OrderInv, LastInv, GoneInv, AtMostOnce, DispatchOrder, WasDispatched
  <2>5. NothingLost'
    <3>1. ASSUME NEW n \in Task, InChannel(n) PROVE InChannel(n)'
      <4>1. PICK i \in DOMAIN channel : channel[i] = PushTask(n)
        BY <3>1 DEF InChannel
      <4>2. i # 1
        BY <1>1, <1>5, <4>1 DEF PushTask
      <4>3. i - 1 \in DOMAIN channel' /\ channel'[i - 1] = channel[i]
        BY <1>1, <4>1, <4>2
      <4> QED
        BY <4>1, <4>3 DEF InChannel
    <3>2. 1 .. Sent \subseteq Task
      BY SentTasks
    <3> QED
      BY <1>2, <2>1, <3>1, <3>2
         DEF OrderInv, NothingLost, InQueue, WasDispatched, Sent
  <2> QED
    BY <2>2, <2>3, <2>4, <2>5 DEF OrderInv
<1>6. ASSUME msg.kind = "PushTask"
      PROVE  OrderInv'
  <2> DEFINE new == msg.task
             q   == prio[new]
             end == Len(queue[q]) + 1
  <2>1. /\ Pushed(1)
        /\ new = channel[1].task
        /\ new \in 1 .. Sent
        /\ new \in Task
        /\ q \in Priority
    <3>1. Pushed(1) /\ new = channel[1].task /\ new \in 1 .. Sent
      BY <1>1, <1>6 DEF OrderInv, FlightInv, Pushed
    <3> QED
      BY <3>1, SentTasks
  <2>2. msg = PushTask(new)
    BY <1>1, <1>6 DEF Message, PushTask, PollTask
  <2>3. queue' = [queue EXCEPT ![q] = Append(queue[q], new)]
    BY <1>6 DEF TryRecv
  <2>4. /\ Len(queue[q]) \in Nat
        /\ DOMAIN queue[q] = 1 .. Len(queue[q])
        /\ DOMAIN queue'[q] = 1 .. end
        /\ \A i \in 1 .. Len(queue[q]) : queue'[q][i] = queue[q][i]
        /\ queue'[q][end] = new
    <3>1. queue[q] \in Seq(Task) /\ queue'[q] = Append(queue[q], new)
      BY <2>1, <2>3 DEF TInv, TypeOK
    <3> QED
      <4>1. new \in Task
        BY <2>1
      <4> HIDE DEF new, q
      <4> QED
        BY ONLY <3>1, <4>1, AppendProperties, LenProperties DEF end
  <2>5. \A p \in Priority \ {q} : queue'[p] = queue[p]
    BY <2>3 DEF TInv, TypeOK
  <2>6. \A p \in Priority : \A i \in DOMAIN queue'[p] :
          \/ i \in DOMAIN queue[p] /\ queue'[p][i] = queue[p][i]
          \/ p = q /\ i = end /\ queue'[p][i] = new
    BY <2>4, <2>5, SMTT(40)
  <2>7. FlightInv'
    BY <1>2, <1>3, <2>1, <2>6 DEF OrderInv, FlightInv, Pushed, Sent
  <2>8. SortedInv'
    <3>1. \A p \in Priority : \A i \in DOMAIN queue[p] : queue[p][i] < new
      BY <1>1, <2>1 DEF OrderInv, ChannelInv
    <3>2. \A p \in Priority : \A i, j \in DOMAIN queue'[p] :
            i < j => queue'[p][i] < queue'[p][j]
      <4> SUFFICES ASSUME NEW p \in Priority,
                          NEW i \in DOMAIN queue'[p], NEW j \in DOMAIN queue'[p],
                          i < j
                   PROVE  queue'[p][i] < queue'[p][j]
        OBVIOUS
      <4>1. CASE p # q
        BY <2>5, <4>1 DEF OrderInv, SortedInv
      <4>2. CASE p = q
        <5>1. i \in 1 .. Len(queue[q]) /\ j \in 1 .. end
          BY <2>4, <4>2
        <5>2. CASE j = end
          BY <2>1, <2>4, <3>1, <4>2, <5>1, <5>2
        <5>3. CASE j # end
          <6>1. i \in DOMAIN queue[q] /\ j \in DOMAIN queue[q]
            BY <2>4, <5>1, <5>3
          <6>2. queue[q][i] < queue[q][j]
            BY <2>1, <6>1 DEF OrderInv, SortedInv
          <6>3. queue'[q][i] = queue[q][i] /\ queue'[q][j] = queue[q][j]
            BY <2>4, <6>1
          <6> QED
            BY <4>2, <6>2, <6>3
        <5> QED
          BY <5>2, <5>3
      <4> QED
        BY <4>1, <4>2
    <3>3. \A i, j \in DOMAIN channel' :
            i < j /\ Pushed(i)' /\ Pushed(j)'
              => channel'[i].task < channel'[j].task
      BY <1>1, <1>3 DEF OrderInv, SortedInv, Pushed
    <3> QED
      BY <3>2, <3>3 DEF SortedInv
  <2>9. ChannelInv'
    <3>1. \A i \in DOMAIN channel' : Pushed(i)' => new < channel'[i].task
      BY <1>1, <1>3, <2>1 DEF OrderInv, SortedInv, Pushed
    <3> QED
      BY <1>2, <1>3, <2>6, <3>1 DEF OrderInv, ChannelInv, Pushed
  <2>10. LastInv' /\ AtMostOnce' /\ DispatchOrder'
    BY <1>2, <1>4 DEF OrderInv, LastInv, AtMostOnce, DispatchOrder
  <2>11. GoneInv'
    <3>1. \A i \in DOMAIN dispatched : dispatched[i] < new
      BY <1>1, <2>1 DEF OrderInv, ChannelInv
    <3>2. \A i \in DOMAIN dispatched : dispatched[i] # new
      BY <2>1, <3>1 DEF OrderInv, FlightInv
    <3> QED
      BY <1>2, <2>6, <3>2 DEF OrderInv, GoneInv
  <2>12. NothingLost'
    <3>1. ASSUME NEW n \in 1 .. Sent, InChannel(n)
          PROVE  InChannel(n)' \/ InQueue(prio[n], n)'
      <4>1. PICK i \in DOMAIN channel : channel[i] = PushTask(n)
        BY <3>1 DEF InChannel
      <4>2. CASE i = 1
        <5>1. n = new
          BY <1>1, <2>2, <4>1, <4>2 DEF PushTask
        <5>2. end \in DOMAIN queue'[q] /\ queue'[q][end] = n
          BY <2>4, <5>1
        <5>3. prio'[n] = q
          BY <1>2, <5>1
        <5> QED
          BY ONLY <5>2, <5>3 DEF InQueue
      <4>3. CASE i # 1
        <5>1. i - 1 \in DOMAIN channel' /\ channel'[i - 1] = channel[i]
          BY <1>1, <4>1, <4>3
        <5> QED
          BY <4>1, <5>1 DEF InChannel
      <4> QED
        BY <4>2, <4>3
    <3>2. ASSUME NEW n \in 1 .. Sent, InQueue(prio[n], n)
          PROVE  InQueue(prio[n], n)'
      <4>1. prio[n] \in Priority
        BY SentTasks
      <4>2. PICK i \in DOMAIN queue[prio[n]] : queue[prio[n]][i] = n
        BY <3>2 DEF InQueue
      <4>3. i \in DOMAIN queue'[prio[n]] /\ queue'[prio[n]][i] = n
        BY <2>4, <2>5, <4>1, <4>2, SMTT(40)
      <4> QED
        BY <1>2, <4>3 DEF InQueue
    <3> QED
      BY <1>2, <3>1, <3>2 DEF OrderInv, NothingLost, WasDispatched, Sent
  <2> QED
    BY <2>7, <2>8, <2>9, <2>10, <2>11, <2>12 DEF OrderInv
<1> QED
  BY <1>1, <1>5, <1>6, MessageForms

\* Ranks tell the priorities apart and are comparable.
LEMMA RankOrder ==
  ASSUME NEW p \in Priority, NEW q \in Priority
  PROVE  /\ Rank[p] \in Nat
         /\ Rank[p] = Rank[q] => p = q
BY DEF Rank, Priority

\* The next task by priority leaves its queue, unless one is still in hand.
LEMMA TakeTaskStep ==
  ASSUME TInv, OrderInv, TakeTask
  PROVE  OrderInv'
<1>1. UNCHANGED <<channel, prio, dispatched, discarded>>
  BY DEF TakeTask, clientVars
<1>2. pc = "serve" /\ pc' = "send"
  BY DEF TakeTask
<1>3. CASE last_task # None
  BY <1>1, <1>2, <1>3, QuietStep DEF TakeTask
<1>4. CASE last_task = None
  <2>1. PICK p \in Priority :
          /\ IsNextQueue(p)
          /\ last_task' = Head(queue[p])
          /\ queue' = [queue EXCEPT ![p] = Tail(queue[p])]
    BY <1>4 DEF TakeTask
  <2> DEFINE first == queue[p][1]
             size  == Len(queue[p])
  <2>2. /\ last_task' = first
        /\ size \in Nat \ {0}
        /\ DOMAIN queue[p] = 1 .. size
        /\ DOMAIN queue'[p] = 1 .. (size - 1)
        /\ \A i \in 1 .. (size - 1) : queue'[p][i] = queue[p][i + 1]
    <3>1. queue[p] \in Seq(Task) /\ queue[p] # <<>>
      BY <2>1 DEF TInv, TypeOK, IsNextQueue
    <3>2. queue'[p] = Tail(queue[p])
      BY <2>1 DEF TInv, TypeOK
    <3>3. size \in Nat \ {0} /\ DOMAIN queue[p] = 1 .. size
      BY <3>1, EmptySeq, LenProperties
    <3>4. /\ queue'[p] \in Seq(Task)
          /\ Len(queue'[p]) = size - 1
          /\ \A i \in 1 .. Len(queue'[p]) : queue'[p][i] = queue[p][i + 1]
      BY <3>1, <3>2, HeadTailProperties
    <3>5. DOMAIN queue'[p] = 1 .. (size - 1)
      BY <3>4, LenProperties
    <3>6. Head(queue[p]) = queue[p][1]
      BY <3>1
    <3> QED
      BY <2>1, <3>3, <3>4, <3>5, <3>6
  <2>3. \A r \in Priority \ {p} : queue'[r] = queue[r]
    BY <2>1 DEF TInv, TypeOK
  <2>4. \A r \in Priority : \A i \in DOMAIN queue'[r] :
          \/ i \in DOMAIN queue[r] /\ queue'[r][i] = queue[r][i]
          \/ r = p /\ i + 1 \in DOMAIN queue[p] /\ queue'[p][i] = queue[p][i + 1]
    BY <2>2, <2>3
  <2>5. /\ 1 \in DOMAIN queue[p]
        /\ first \in 1 .. Sent
        /\ prio[first] = p
    BY <2>2 DEF OrderInv, FlightInv
  <2>6. \A i \in DOMAIN queue[p] : i # 1 => first < queue[p][i]
    BY <2>2 DEF OrderInv, SortedInv
  <2>7. FlightInv'
    <3>1. \A r \in Priority : \A i \in DOMAIN queue'[r] :
            queue'[r][i] \in 1 .. Sent /\ prio[queue'[r][i]] = r
      BY <2>4 DEF OrderInv, FlightInv
    <3> QED
      BY <1>1, <2>2, <2>5, <3>1 DEF OrderInv, FlightInv, Pushed, Sent
  <2>8. SortedInv'
    <3>1. ASSUME NEW r \in Priority,
                 NEW i \in DOMAIN queue'[r], NEW j \in DOMAIN queue'[r], i < j
          PROVE  queue'[r][i] < queue'[r][j]
      <4>1. CASE r # p
        BY <2>3, <3>1, <4>1 DEF OrderInv, SortedInv
      <4>2. CASE r = p
        <5>1. /\ i + 1 \in DOMAIN queue[p] /\ j + 1 \in DOMAIN queue[p]
              /\ i + 1 < j + 1
          BY <2>2, <3>1, <4>2
        <5>2. queue[p][i + 1] < queue[p][j + 1]
          BY <5>1 DEF OrderInv, SortedInv
        <5>3. queue'[p][i] = queue[p][i + 1] /\ queue'[p][j] = queue[p][j + 1]
          BY <2>2, <4>2
        <5> QED
          BY <4>2, <5>2, <5>3
      <4> QED
        BY <4>1, <4>2
    <3> QED
      BY <1>1, <3>1 DEF OrderInv, SortedInv, Pushed
  <2>9. ChannelInv'
    BY <1>1, <2>2, <2>4, <2>5 DEF OrderInv, ChannelInv, Pushed
  <2>10. GoneInv'
    BY <1>1, <2>2, <2>4, <2>5, SMTT(40) DEF OrderInv, GoneInv
  <2>11. AtMostOnce' /\ DispatchOrder'
    BY <1>1 DEF OrderInv, AtMostOnce, DispatchOrder
  <2>12. NothingLost'
    <3>1. ASSUME NEW n \in 1 .. Sent, InQueue(prio[n], n)
          PROVE  InQueue(prio[n], n)' \/ n = last_task'
      <4>1. PICK i \in DOMAIN queue[prio[n]] : queue[prio[n]][i] = n
        BY <3>1 DEF InQueue
      <4>2. CASE prio[n] # p
        BY <1>1, <2>3, <3>1, <4>2, SentTasks DEF InQueue
      <4>3. CASE prio[n] = p /\ i = 1
        BY <2>2, <4>1, <4>3
      <4>4. CASE prio[n] = p /\ i # 1
        <5>1. i - 1 \in DOMAIN queue'[p] /\ queue'[p][i - 1] = n
          BY <2>2, <4>1, <4>4, SMTT(40)
        <5> QED
          BY <1>1, <4>4, <5>1 DEF InQueue
      <4> QED
        BY <4>2, <4>3, <4>4
    <3>2. \A n \in 1 .. Sent : n # last_task
      BY <1>4, SchedulerAssumption, SentTasks
    <3> QED
      BY <1>1, <1>2, <3>1, <3>2
         DEF OrderInv, NothingLost, InChannel, WasDispatched, Sent
  <2>13. LastInv'
    <3>1. \A i \in DOMAIN queue'[p] : first < queue'[p][i]
      BY <2>2, <2>6, SMTT(40)
    <3>2. ASSUME NEW n \in 1 .. (first - 1), Rank[prio[n]] <= Rank[p]
          PROVE  WasDispatched(n)
      <4>1. n \in 1 .. Sent /\ n < first /\ prio[n] \in Priority
        BY <2>5, SentTasks
      <4>2. ~ InChannel(n)
        BY <2>5, <4>1
           DEF OrderInv, ChannelInv, InChannel, Pushed, PushTask
      <4>3. ~ InQueue(prio[n], n)
        <5>1. CASE prio[n] = p
          <6>1. \A i \in DOMAIN queue[p] : queue[p][i] # n
            BY <2>5, <2>6, <4>1
          <6> QED
            BY <5>1, <6>1 DEF InQueue
        <5>2. CASE prio[n] # p
          <6>1. Rank[prio[n]] < Rank[p]
            BY <3>2, <4>1, <5>2, RankOrder
          <6>2. queue[prio[n]] = <<>>
            BY <2>1, <4>1, <6>1 DEF IsNextQueue
          <6> QED
            BY <6>2 DEF InQueue
        <5> QED
          BY <5>1, <5>2
      <4>4. n # last_task
        BY <1>4, <4>1, SchedulerAssumption
      <4> QED
        BY <1>2, <4>1, <4>2, <4>3, <4>4 DEF OrderInv, NothingLost
    <3> QED
      BY <1>1, <1>2, <2>2, <2>5, <3>1, <3>2 DEF LastInv, WasDispatched
  <2> QED
    BY <2>7, <2>8, <2>9, <2>10, <2>11, <2>12, <2>13 DEF OrderInv
<1> QED
  BY <1>3, <1>4

\* The task in hand is dispatched.
LEMMA SendOkStep ==
  ASSUME TInv, OrderInv, SendOk
  PROVE  OrderInv'
<1> DEFINE end == Len(dispatched) + 1
<1>1. /\ UNCHANGED <<channel, prio, queue, discarded>>
      /\ pc = "send" /\ pc' = "serve"
      /\ last_task' = None
      /\ dispatched' = Append(dispatched, last_task)
  BY DEF SendOk, clientVars
<1>2. last_task \in Task /\ last_task # None
  BY <1>1, SchedulerAssumption DEF TInv, Sending, Task
<1>3. last_task \in 1 .. Sent /\ prio[last_task] \in Priority
  BY <1>2, SentTasks DEF OrderInv, FlightInv
<1>4. /\ Len(dispatched) \in Nat
      /\ DOMAIN dispatched = 1 .. Len(dispatched)
      /\ DOMAIN dispatched' = 1 .. end
      /\ \A i \in 1 .. Len(dispatched) : dispatched'[i] = dispatched[i]
      /\ dispatched'[end] = last_task
  <2>1. dispatched \in Seq(Task)
    BY DEF TInv, TypeOK
  <2> QED
    BY <1>1, <1>2, <2>1, AppendProperties, LenProperties
<1>5. \A i \in DOMAIN dispatched' :
        \/ i \in DOMAIN dispatched /\ dispatched'[i] = dispatched[i]
        \/ i = end /\ dispatched'[i] = last_task
  BY <1>4
<1>6. FlightInv' /\ SortedInv'
  BY <1>1, <1>3, <1>5 DEF OrderInv, FlightInv, SortedInv, Pushed, Sent
<1>7. ChannelInv'
  BY <1>1, <1>2, <1>5 DEF OrderInv, ChannelInv, Pushed
<1>8. LastInv'
  BY <1>1 DEF LastInv
<1>9. GoneInv'
  <2>1. \A p \in Priority : \A j \in DOMAIN queue[p] : queue[p][j] # last_task
    <3> SUFFICES ASSUME NEW p \in Priority, NEW j \in DOMAIN queue[p],
                        queue[p][j] = last_task
                 PROVE  FALSE
      OBVIOUS
    <3>1. prio[last_task] = p
      BY DEF OrderInv, FlightInv
    <3>2. last_task < queue[p][j]
      BY <1>2, <3>1 DEF OrderInv, LastInv
    <3> QED
      BY <1>3, <3>2
  <2>2. \A i \in DOMAIN dispatched' : dispatched'[i] # None
    BY <1>3, <1>5, SchedulerAssumption DEF OrderInv, FlightInv
  <2> QED
    BY <1>1, <1>5, <2>1, <2>2 DEF OrderInv, GoneInv
<1>10. AtMostOnce'
  BY <1>4, <1>5 DEF OrderInv, AtMostOnce, GoneInv
<1>11. NothingLost'
  <2>1. \A n \in 1 .. Sent : WasDispatched(n) \/ n = last_task
                               => WasDispatched(n)'
    BY <1>4 DEF WasDispatched
  <2> QED
    BY <1>1, <2>1 DEF OrderInv, NothingLost, InChannel, InQueue, Sent
<1>12. DispatchOrder'
  <2> SUFFICES ASSUME NEW j \in DOMAIN dispatched',
                      NEW n \in 1 .. (dispatched'[j] - 1),
                      Rank[prio[n]] <= Rank[prio[dispatched'[j]]]
               PROVE  \E i \in 1 .. (j - 1) : dispatched'[i] = n
    BY <1>1 DEF DispatchOrder
  <2>1. CASE j = end
    <3>1. WasDispatched(n)
      BY <1>2, <1>4, <2>1 DEF OrderInv, LastInv
    <3> QED
      BY <1>4, <2>1, <3>1 DEF WasDispatched
  <2>2. CASE j # end
    <3>1. j \in DOMAIN dispatched /\ dispatched'[j] = dispatched[j]
      BY <1>5, <2>2
    <3>2. PICK i \in 1 .. (j - 1) : dispatched[i] = n
      BY <3>1 DEF OrderInv, DispatchOrder
    <3> QED
      BY <1>4, <3>1, <3>2
  <2> QED
    BY <2>1, <2>2
<1> QED
  BY <1>6, <1>7, <1>8, <1>9, <1>10, <1>11, <1>12 DEF OrderInv

\* No request is left: the task in hand, if any, goes back to the front of its
\* queue, in which all tasks are younger.
LEMMA ServedStep ==
  ASSUME TInv, OrderInv, Served
  PROVE  OrderInv'
<1>1. /\ UNCHANGED <<channel, prio, dispatched, discarded>>
      /\ pc = "serve" /\ pc' = "drain"
      /\ last_task' = None
  BY DEF Served, clientVars
<1>2. CASE last_task = None
  BY <1>1, <1>2, QuietStep DEF Served
<1>3. CASE last_task # None
  <2> DEFINE q    == prio[last_task]
             size == Len(queue[q])
  <2>1. last_task \in 1 .. Sent /\ last_task \in Task /\ q \in Priority
    BY <1>3, SentTasks DEF OrderInv, FlightInv
  <2>2. queue' = [queue EXCEPT ![q] = <<last_task>> \o queue[q]]
    BY <1>3 DEF Served
  <2>3. /\ size \in Nat
        /\ DOMAIN queue[q] = 1 .. size
        /\ DOMAIN queue'[q] = 1 .. (size + 1)
        /\ queue'[q][1] = last_task
        /\ \A i \in 2 .. (size + 1) : queue'[q][i] = queue[q][i - 1]
    <3>1. queue[q] \in Seq(Task) /\ <<last_task>> \in Seq(Task)
      BY <2>1 DEF TInv, TypeOK
    <3>2. queue'[q] = <<last_task>> \o queue[q]
      BY <2>1, <2>2 DEF TInv, TypeOK
    <3>3. size \in Nat /\ DOMAIN queue[q] = 1 .. size
      BY <3>1, LenProperties
    <3>4. Len(<<last_task>>) = 1 /\ <<last_task>>[1] = last_task
      OBVIOUS
    <3>5. /\ queue'[q] \in Seq(Task)
          /\ Len(queue'[q]) = 1 + size
          /\ \A i \in 1 .. (1 + size) :
               queue'[q][i] = IF i <= 1 THEN <<last_task>>[i]
                                        ELSE queue[q][i - 1]
      BY <3>1, <3>2, <3>4, ConcatProperties
    <3>6. DOMAIN queue'[q] = 1 .. (size + 1)
      BY <3>3, <3>5, LenProperties
    <3> QED
      BY <3>3, <3>4, <3>5, <3>6
  <2>4. \A p \in Priority \ {q} : queue'[p] = queue[p]
    BY <2>2 DEF TInv, TypeOK
  <2>5. \A p \in Priority : \A i \in DOMAIN queue'[p] :
          \/ i \in DOMAIN queue[p] /\ queue'[p][i] = queue[p][i]
          \/ p = q /\ i = 1 /\ queue'[p][i] = last_task
          \/ p = q /\ i - 1 \in DOMAIN queue[p] /\ queue'[p][i] = queue[p][i - 1]
    <3>1. \A i \in DOMAIN queue'[q] :
            \/ i = 1 /\ queue'[q][i] = last_task
            \/ i - 1 \in DOMAIN queue[q] /\ queue'[q][i] = queue[q][i - 1]
      BY <2>3
    <3> QED
      BY <2>4, <3>1
  <2>6. \A i \in DOMAIN queue[q] : last_task < queue[q][i]
    BY <1>3 DEF OrderInv, LastInv
  <2>7. FlightInv'
    <3>1. \A p \in Priority : \A i \in DOMAIN queue'[p] :
            queue'[p][i] \in 1 .. Sent /\ prio[queue'[p][i]] = p
      BY <2>1, <2>5 DEF OrderInv, FlightInv
    <3> QED
      BY <1>1, <3>1 DEF OrderInv, FlightInv, Pushed, Sent
  <2>8. SortedInv'
    <3>1. ASSUME NEW p \in Priority,
                 NEW i \in DOMAIN queue'[p], NEW j \in DOMAIN queue'[p], i < j
          PROVE  queue'[p][i] < queue'[p][j]
      <4>1. CASE p # q
        BY <2>4, <3>1, <4>1 DEF OrderInv, SortedInv
      <4>2. CASE p = q
        <5>1. i \in 1 .. (size + 1) /\ j \in 2 .. (size + 1)
          BY <2>3, <3>1, <4>2
        <5>2. j - 1 \in DOMAIN queue[q] /\ queue'[q][j] = queue[q][j - 1]
          BY <2>3, <5>1
        <5>3. CASE i = 1
          BY <2>3, <2>6, <4>2, <5>2, <5>3
        <5>4. CASE i # 1
          <6>1. i - 1 \in DOMAIN queue[q] /\ queue'[q][i] = queue[q][i - 1]
            BY <2>3, <5>1, <5>4, SMTT(40)
          <6>2. i - 1 < j - 1
            BY <3>1, <5>1
          <6>3. queue[q][i - 1] < queue[q][j - 1]
            BY <2>1, <5>2, <6>1, <6>2 DEF OrderInv, SortedInv
          <6> QED
            BY <4>2, <5>2, <6>1, <6>3
        <5> QED
          BY <5>3, <5>4
      <4> QED
        BY <4>1, <4>2
    <3> QED
      BY <1>1, <3>1 DEF OrderInv, SortedInv, Pushed
  <2>9. ChannelInv'
    <3>1. \A i \in DOMAIN channel : Pushed(i) =>
            \A p \in Priority : \A j \in DOMAIN queue'[p] :
              queue'[p][j] < channel[i].task
      BY <1>3, <2>5 DEF OrderInv, ChannelInv
    <3> QED
      BY <1>1, <3>1 DEF OrderInv, ChannelInv, Pushed
  <2>10. LastInv'
    BY <1>1 DEF LastInv
  <2>11. GoneInv'
    <3>1. \A i \in DOMAIN dispatched : dispatched[i] # None
      BY SchedulerAssumption DEF OrderInv, FlightInv
    <3> QED
      BY <1>1, <2>5, <3>1 DEF OrderInv, GoneInv
  <2>12. AtMostOnce' /\ DispatchOrder'
    BY <1>1 DEF OrderInv, AtMostOnce, DispatchOrder
  <2>13. NothingLost'
    <3>1. ASSUME NEW n \in 1 .. Sent, InQueue(prio[n], n) \/ n = last_task
          PROVE  InQueue(prio[n], n)'
      <4>1. CASE n = last_task
        BY <1>1, <2>3, <4>1 DEF InQueue
      <4>2. CASE n # last_task
        <5>1. PICK i \in DOMAIN queue[prio[n]] : queue[prio[n]][i] = n
          BY <3>1, <4>2 DEF InQueue
        <5>2. CASE prio[n] = q
          <6>1. i \in 1 .. size /\ queue[q][i] = n
            BY <2>3, <5>1, <5>2
          <6>2. /\ i + 1 \in 2 .. (size + 1)
                /\ (i + 1) - 1 = i
            BY <2>3, <6>1
          <6>3. queue'[q][i + 1] = queue[q][(i + 1) - 1]
            BY <2>3, <6>2
          <6>4. i + 1 \in DOMAIN queue'[q] /\ queue'[q][i + 1] = n
            BY <2>3, <6>1, <6>2, <6>3
          <6> QED
            BY <1>1, <5>2, <6>4 DEF InQueue
        <5>3. CASE prio[n] # q
          BY <1>1, <2>4, <5>1, <5>3, SentTasks DEF InQueue
        <5> QED
          BY <5>2, <5>3
      <4> QED
        BY <4>1, <4>2
    <3> QED
      BY <1>1, <3>1
         DEF OrderInv, NothingLost, InChannel, WasDispatched, Sent
  <2> QED
    BY <2>7, <2>8, <2>9, <2>10, <2>11, <2>12, <2>13 DEF OrderInv
<1> QED
  BY <1>2, <1>3

\* The scheduler stops, and its queues become the discarded tasks.
LEMMA DisconnectedStep ==
  ASSUME TInv, OrderInv, Disconnected
  PROVE  OrderInv'
<1>1. /\ UNCHANGED <<channel, prio, last_task, dispatched>>
      /\ channel = <<>>
      /\ pc = "drain" /\ pc' = "stopped"
      /\ queue' = [p \in Priority |-> <<>>]
  BY DEF Disconnected, clientVars
<1>2. last_task = None
  BY <1>1 DEF OrderInv, LastInv
<1>3. \A p \in Priority : DOMAIN queue'[p] = {}
  BY <1>1
<1>4. DOMAIN channel = {}
  BY <1>1
<1>5. FlightInv' /\ SortedInv' /\ ChannelInv'
  BY <1>1, <1>3, <1>4 DEF OrderInv, FlightInv, SortedInv, ChannelInv, Sent
<1>6. LastInv' /\ GoneInv' /\ AtMostOnce' /\ DispatchOrder'
  BY <1>1, <1>2, <1>3
     DEF OrderInv, LastInv, GoneInv, AtMostOnce, DispatchOrder
<1>7. NothingLost'
  <2>1. \A n \in 1 .. Sent : InQueue(prio[n], n) => n \in discarded'
    BY SentTasks DEF Disconnected, InQueue
  <2>2. \A n \in 1 .. Sent : ~ InChannel(n)
    BY <1>4 DEF InChannel
  <2> QED
    BY <1>1, <2>1, <2>2 DEF OrderInv, NothingLost, WasDispatched, Sent
<1> QED
  BY <1>5, <1>6, <1>7 DEF OrderInv

-----------------------------------------------------------------------------
(***************************************************************************)
(* The theorems.                                                           *)
(***************************************************************************)

\* Both invariants hold before the first step.
LEMMA InitInv == Init => TInv /\ OrderInv
<1> SUFFICES ASSUME Init PROVE TInv /\ OrderInv
  OBVIOUS
<1>1. TInv
  BY SchedulerAssumption
     DEF Init, TInv, TypeOK, Sending, Running, Sent
<1>2. /\ DOMAIN channel = {} /\ DOMAIN dispatched = {} /\ 1 .. Sent = {}
      /\ \A p \in Priority : DOMAIN queue[p] = {}
      /\ last_task = None
  BY DEF Init, Sent
<1>3. OrderInv
  BY <1>2 DEF OrderInv, FlightInv, SortedInv, ChannelInv, LastInv, GoneInv,
              NothingLost, AtMostOnce, DispatchOrder
<1> QED
  BY <1>1, <1>3

\* OrderInv is preserved by every step, action by action.
LEMMA OrderInvStep == TInv /\ OrderInv /\ [Next]_vars => OrderInv'
<1> SUFFICES ASSUME TInv, OrderInv, [Next]_vars PROVE OrderInv'
  OBVIOUS
<1>1. ASSUME NEW h \in Handlers, NEW p \in Priority, Send(h, p)
      PROVE  OrderInv'
  BY <1>1, SendStep
<1>2. ASSUME NEW w \in Pollers, Poll(w)
      PROVE  OrderInv'
  BY <1>2, PollStep
<1>3. ASSUME UNCHANGED <<channel, prio, queue, last_task, dispatched,
                         discarded, pc>>
      PROVE  OrderInv'
  BY <1>3, QuietStep DEF OrderInv, LastInv
<1>4. ASSUME NEW h \in Handlers, Close(h)
      PROVE  OrderInv'
  BY <1>3, <1>4 DEF Close, schedulerVars
<1>5. ASSUME NEW w \in Pollers, Receive(w) \/ Finish(w) \/ Panic(w) \/ Abandon(w)
      PROVE  OrderInv'
  BY <1>3, <1>5 DEF Receive, Finish, Panic, Abandon, schedulerVars, clientVars
<1>6. CASE TryRecv
  BY <1>6, TryRecvStep
<1>7. CASE Disconnected
  BY <1>7, DisconnectedStep
<1>8. CASE TakeTask
  BY <1>8, TakeTaskStep
<1>9. CASE SendOk
  BY <1>9, SendOkStep
<1>10. CASE Served
  BY <1>10, ServedStep
<1>11. CASE Drained
  BY <1>11, QuietStep DEF Drained, clientVars, OrderInv, LastInv
<1>12. CASE NoTask
  BY <1>12, QuietStep DEF NoTask, clientVars
<1>13. CASE SendErr
  BY <1>13, QuietStep DEF SendErr, clientVars
<1>14. CASE SkipPoll
  BY <1>3, <1>14 DEF SkipPoll, clientVars
<1>15. CASE UNCHANGED vars
  BY <1>3, <1>15 DEF vars
<1> QED
  BY <1>1, <1>2, <1>4, <1>5, <1>6, <1>7, <1>8, <1>9, <1>10, <1>11, <1>12,
     <1>13, <1>14, <1>15
     DEF Next, SchedulerStep, PollerStep

\* The types of TypeOK hold for any number of handlers, pollers and tasks
\* (scheduler.rs:34-43).
THEOREM TypeCorrect == Spec => []TypeOK
<1>1. Init => TInv
  BY InitInv
<1>2. TInv /\ [Next]_vars => TInv'
  BY TInvStep
<1>3. TInv => TypeOK
  BY DEF TInv
<1> QED
  BY <1>1, <1>2, <1>3, PTL DEF Spec

\* The invariant holds in every reachable state.
THEOREM OrderInvariant == Spec => [](TInv /\ OrderInv)
<1>1. Init => TInv /\ OrderInv
  BY InitInv
<1>2. TInv /\ OrderInv /\ [Next]_vars => (TInv /\ OrderInv)'
  BY TInvStep, OrderInvStep
<1> QED
  BY <1>1, <1>2, PTL DEF Spec

\* No task that was sent disappears before it reaches a poller, however many
\* pollers fail between asking and receiving (scheduler.rs:97-139).
THEOREM NoTaskIsLost == Spec => []NothingLost
<1>1. OrderInv => NothingLost
  BY DEF OrderInv
<1> QED
  BY <1>1, OrderInvariant, PTL

\* No task is sent to pollers twice (scheduler.rs:114-124).
THEOREM NoTaskIsRepeated == Spec => []AtMostOnce
<1>1. OrderInv => AtMostOnce
  BY DEF OrderInv
<1> QED
  BY <1>1, OrderInvariant, PTL

\* Tasks reach the pollers after all earlier ones of the same or a higher
\* priority (scheduler.rs:7-20).
THEOREM TasksAreOrdered == Spec => []DispatchOrder
<1>1. OrderInv => DispatchOrder
  BY DEF OrderInv
<1> QED
  BY <1>1, OrderInvariant, PTL

-----------------------------------------------------------------------------

\* Whoever still polls holds a handler, and the scheduler has stopped only if
\* nobody does.
HoldersInv ==
  /\ \A w \in Pollers : poller[w] # "gone" => w \in open
  /\ pc = "stopped" => open = {}

\* HoldersInv is preserved by every step: a handler is closed together with
\* its poller, and the scheduler stops when none is open.
LEMMA HoldersInvStep == TInv /\ HoldersInv /\ [Next]_vars => HoldersInv'
<1> SUFFICES ASSUME TInv, HoldersInv, [Next]_vars PROVE HoldersInv'
  OBVIOUS
<1> USE DEF HoldersInv
<1>1. poller \in [Pollers -> {"idle", "waiting", "running", "gone"}]
  BY DEF TInv, TypeOK
<1>2. ASSUME NEW h \in Handlers, NEW p \in Priority, Send(h, p) \/ Close(h)
      PROVE  HoldersInv'
  BY <1>2, SchedulerAssumption
     DEF Send, Close, schedulerVars, pollerVars
<1>3. ASSUME NEW w \in Pollers, PollerStep(w)
      PROVE  HoldersInv'
  BY <1>1, <1>3
     DEF PollerStep, Poll, Receive, Finish, schedulerVars, clientVars
<1>4. ASSUME NEW w \in Pollers, Panic(w) \/ Abandon(w)
      PROVE  HoldersInv'
  BY <1>1, <1>4 DEF Panic, Abandon, schedulerVars
<1>5. CASE SchedulerStep
  <2>1. UNCHANGED <<open, poller>>
    BY <1>5 DEF SchedulerStep, TryRecv, Drained, Disconnected, SkipPoll,
                TakeTask, NoTask, SendOk, SendErr, Served,
                clientVars, pollerVars
  <2>2. pc' = "stopped" => open = {}
    BY <1>5 DEF SchedulerStep, TryRecv, Drained, Disconnected, SkipPoll,
                TakeTask, NoTask, SendOk, SendErr, Served
  <2> QED
    BY <2>1, <2>2
<1>6. CASE UNCHANGED vars
  BY <1>6 DEF vars
<1> QED
  BY <1>2, <1>3, <1>4, <1>5, <1>6 DEF Next, Priority

\* A thread that waits for a task never waits on a stopped scheduler: it holds
\* a handler, and the scheduler stops only when all of them are gone
\* (scheduler.rs:80-94, worker.rs:15-27).
THEOREM NoPollerIsStranded == Spec => []NobodyStranded
<1>1. Init => HoldersInv
  BY DEF Init, HoldersInv
<1>2. Init => TInv
  BY InitInv
<1>3. HoldersInv => NobodyStranded
  BY DEF HoldersInv, NobodyStranded
<1> QED
  BY <1>1, <1>2, <1>3, HoldersInvStep, TInvStep, PTL DEF Spec

=============================================================================
