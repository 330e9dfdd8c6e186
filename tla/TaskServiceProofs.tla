-------------------------- MODULE TaskServiceProofs --------------------------
(***************************************************************************)
(* Proofs about TaskService: it is a system of TaskScheduler, so all that  *)
(* is proved of the scheduler holds for the filesystem; a request has an   *)
(* answer once it is over and not before; and nothing runs as long as the  *)
(* driver has no threads of its own.                                       *)
(***************************************************************************)
EXTENDS TaskService, TaskRequestProofs, NumberInduction

\* The one-line operators of the code are read as what they stand for.
USE DEF PushBack, PushFront, MayPoll, AllClosed, PollsLeft, TaskInHand, KeptTask

\* The filesystem takes no step that its scheduler and pollers do not take.
LEMMA ServiceStepSchedules == [ServiceNext]_serviceVars => [Next]_vars
<1> SUFFICES ASSUME [ServiceNext]_serviceVars PROVE [Next]_vars
  OBVIOUS
<1>1. ASSUME NEW h \in Handlers, NEW p \in Priority, NEW t \in Requests,
             SendRequest(h, p, t)
      PROVE  [Next]_vars
  BY <1>1 DEF SendRequest, Next
<1>2. CASE Daemonize \/ Update
  BY <1>2 DEF Daemonize, Update
<1>3. ASSUME NEW w \in Pollers, UpdatePolls(w) \/ RunTask(w) \/ DropTask(w)
      PROVE  [Next]_vars
  BY <1>3 DEF UpdatePolls, RunTask, DropTask, Next, PollerStep
<1>4. CASE SchedulerRuns /\ DropQueues
  BY <1>4 DEF DropQueues, Next, SchedulerStep
<1>5. CASE OtherStep
  BY <1>5 DEF OtherStep, Next, SchedulerStep, PollerStep
<1>6. CASE UNCHANGED serviceVars
  BY <1>6 DEF serviceVars
<1> QED
  BY <1>1, <1>2, <1>3, <1>4, <1>5, <1>6 DEF ServiceNext

\* TaskService implements TaskScheduler (driver.rs:31-40 runs the threads of
\* scheduler.rs and worker.rs and adds nothing to them).
THEOREM ServiceIsScheduled == ServiceSpec => Spec
<1>1. ServiceInit => Init
  BY DEF ServiceInit
<1> QED
  BY <1>1, ServiceStepSchedules, PTL DEF ServiceSpec, Spec

-----------------------------------------------------------------------------
(***************************************************************************)
(* Where a request can be, and where it cannot be any more.                *)
(***************************************************************************)

\* Pollers hold tasks that were sent to them, each its own; a scheduler that
\* has stopped holds nothing, and only such a one has discarded anything.
DeliveryInv ==
  /\ \A w \in Pollers : inbox[w] # None => WasDispatched(inbox[w])
  /\ \A v, w \in Pollers :
       inbox[v] # None /\ v # w => inbox[v] # inbox[w]
  /\ pc = "stopped" =>
       /\ channel = <<>>
       /\ \A p \in Priority : queue[p] = <<>>
       /\ last_task = None
  /\ pc # "stopped" => discarded = {}
  /\ \A n \in discarded : ~ WasDispatched(n)

\* All that is known of the scheduler and its pollers.
SchedulerInv ==
  TInv /\ OrderInv /\ RequestInv /\ HoldersInv /\ DeliveryInv

\* DeliveryInv is preserved by every step.
LEMMA DeliveryStep == SchedulerInv /\ [Next]_vars => DeliveryInv'
<1> SUFFICES ASSUME SchedulerInv, [Next]_vars PROVE DeliveryInv'
  OBVIOUS
<1> USE DEF SchedulerInv
<1>1. ASSUME UNCHANGED <<dispatched, discarded>>,
             \A w \in Pollers : inbox'[w] \in {inbox[w], None}
      PROVE  /\ \A w \in Pollers : inbox'[w] # None => WasDispatched(inbox[w])'
             /\ \A v, w \in Pollers :
                  inbox'[v] # None /\ v # w => inbox'[v] # inbox'[w]
             /\ \A n \in discarded' : ~ WasDispatched(n)'
  BY <1>1 DEF DeliveryInv, WasDispatched
<1>2. ASSUME NEW h \in Handlers, NEW p \in Priority, Send(h, p) \/ Close(h)
      PROVE  DeliveryInv'
  <2>1. UNCHANGED <<dispatched, discarded, inbox, pc, queue, last_task>>
    BY <1>2 DEF Send, Close, schedulerVars, pollerVars
  <2>2. pc = "stopped" => channel' = <<>>
    BY <1>2 DEF Send, Close, HoldersInv, DeliveryInv
  <2> QED
    BY <1>1, <2>1, <2>2 DEF DeliveryInv
<1>3. ASSUME NEW w \in Pollers,
             Poll(w) \/ Receive(w) \/ Finish(w) \/ Panic(w) \/ Abandon(w)
      PROVE  DeliveryInv'
  <2>1. /\ UNCHANGED <<dispatched, discarded, pc, queue, last_task>>
        /\ \A v \in Pollers : inbox'[v] \in {inbox[v], None}
    BY <1>3, RequestTypes
       DEF Poll, Receive, Finish, Panic, Abandon, schedulerVars
  <2>2. pc = "stopped" => channel' = <<>>
    BY <1>3 DEF Poll, Receive, Finish, Panic, Abandon, clientVars,
                HoldersInv, DeliveryInv
  <2> QED
    BY <1>1, <2>1, <2>2 DEF DeliveryInv
<1>4. CASE SendOk
  <2>1. /\ UNCHANGED <<discarded, channel, queue>>
        /\ pc = "send" /\ pc' = "serve"
        /\ inbox' = [inbox EXCEPT ![cur] = last_task]
        /\ dispatched' = Append(dispatched, last_task)
    BY <1>4 DEF SendOk, clientVars
  <2>2. cur \in Pollers /\ last_task \in Task /\ last_task # None
    BY <2>1, RequestTypes DEF TInv, Sending
  <2>3. /\ inbox'[cur] = last_task
        /\ \A w \in Pollers \ {cur} : inbox'[w] = inbox[w]
    BY <2>1, <2>2, RequestTypes
  <2>4. /\ Len(dispatched) \in Nat
        /\ DOMAIN dispatched = 1 .. Len(dispatched)
        /\ DOMAIN dispatched' = 1 .. (Len(dispatched) + 1)
        /\ \A i \in 1 .. Len(dispatched) : dispatched'[i] = dispatched[i]
        /\ dispatched'[Len(dispatched) + 1] = last_task
    BY <2>1, <2>2, DispatchGrows
  <2>5. ~ WasDispatched(last_task)
    BY DEF OrderInv, GoneInv, WasDispatched
  <2>6. \A w \in Pollers : inbox'[w] # None => WasDispatched(inbox[w])'
    BY <2>3, <2>4 DEF DeliveryInv, WasDispatched
  <2>7. \A v, w \in Pollers : inbox'[v] # None /\ v # w => inbox'[v] # inbox'[w]
    BY <2>2, <2>3, <2>5 DEF DeliveryInv
  <2> QED
    BY <2>1, <2>6, <2>7 DEF DeliveryInv
<1>5. CASE Disconnected
  <2>1. /\ UNCHANGED <<dispatched, inbox>>
        /\ pc = "drain" /\ pc' = "stopped"
        /\ channel' = <<>>
        /\ last_task' = None
        /\ \A p \in Priority : queue'[p] = <<>>
    BY <1>5 DEF Disconnected, clientVars, pollerVars, OrderInv, LastInv
  <2>2. \A n \in discarded' : ~ WasDispatched(n)
    BY <1>5 DEF Disconnected, OrderInv, GoneInv, WasDispatched
  <2> QED
    BY <2>1, <2>2 DEF DeliveryInv, WasDispatched
<1>6. CASE SchedulerStep /\ ~ SendOk /\ ~ Disconnected
  <2>1. /\ UNCHANGED <<dispatched, discarded, inbox>>
        /\ pc # "stopped" /\ pc' # "stopped"
    BY <1>6 DEF SchedulerStep, TryRecv, Drained, SkipPoll, TakeTask, NoTask,
                SendErr, Served, pollerVars
  <2> QED
    BY <1>1, <2>1 DEF DeliveryInv
<1>7. CASE UNCHANGED vars
  BY <1>1, <1>7 DEF vars, DeliveryInv
<1> QED
  BY <1>2, <1>3, <1>4, <1>5, <1>6, <1>7 DEF Next, PollerStep, Priority

\* The invariants of the scheduler hold together, at first and after each step.
LEMMA SchedulerInvHolds ==
  /\ Init => SchedulerInv
  /\ SchedulerInv /\ [Next]_vars => SchedulerInv'
<1>1. Init => HoldersInv /\ DeliveryInv
  BY DEF Init, HoldersInv, DeliveryInv
<1> QED
  BY <1>1, InitInv, RequestInit, TInvStep, OrderInvStep, RequestInvStep,
     HoldersInvStep, DeliveryStep DEF SchedulerInv

\* A request that was sent is in one place or has been sent to a poller, never
\* both; discarded requests are neither.
LEMMA Places ==
  ASSUME SchedulerInv, NEW n \in 1 .. Sent
  PROVE  (InChannel(n) \/ InQueue(prio[n], n) \/ n = last_task)
           <=> (~ WasDispatched(n) /\ n \notin discarded)
<1> USE DEF SchedulerInv
<1>1. n \in Task /\ n \in Nat /\ prio[n] \in Priority /\ n # None
  BY SentTasks, RequestTypes
<1>2. ASSUME InChannel(n)
      PROVE  ~ WasDispatched(n) /\ n \notin discarded
  <2>1. PICK i \in DOMAIN channel : channel[i] = PushTask(n)
    BY <1>2 DEF InChannel
  <2>2. Pushed(i) /\ channel[i].task = n
    BY <2>1 DEF Pushed, PushTask
  <2>3. \A j \in DOMAIN dispatched : dispatched[j] < n /\ dispatched[j] \in Nat
    BY <2>2, RequestTypes, SentTasks DEF OrderInv, ChannelInv, FlightInv
  <2> QED
    BY <1>1, <2>1, <2>3 DEF WasDispatched, DeliveryInv
<1>3. ASSUME InQueue(prio[n], n)
      PROVE  ~ WasDispatched(n) /\ n \notin discarded
  BY <1>1, <1>3 DEF InQueue, WasDispatched, OrderInv, GoneInv, DeliveryInv
<1>4. ASSUME n = last_task
      PROVE  ~ WasDispatched(n) /\ n \notin discarded
  BY <1>1, <1>4 DEF WasDispatched, OrderInv, GoneInv, DeliveryInv
<1>5. ASSUME ~ WasDispatched(n), n \notin discarded
      PROVE  InChannel(n) \/ InQueue(prio[n], n) \/ n = last_task
  BY <1>5 DEF OrderInv, NothingLost
<1> QED
  BY <1>2, <1>3, <1>4, <1>5

\* A request is over when its scheduler dropped it, or when it was sent to a
\* poller that is done with it.
Over(n) ==
  \/ n \in discarded
  \/ WasDispatched(n) /\ \A w \in Pollers : inbox[w] # n

\* Every request that was sent has a place for its answer, which is empty as
\* long as the request is not over.
AnswerInv ==
  /\ request \in Seq(Requests) /\ Len(request) = Sent
  /\ DOMAIN answer = 1 .. Sent
  /\ \A n \in 1 .. Sent : answer[n] = NoAnswer <=> ~ Over(n)

\* AnswerInv says of each request what AnsweredWhenOver says.
LEMMA AnswerInvSuffices == SchedulerInv /\ AnswerInv => AnsweredWhenOver
<1> SUFFICES ASSUME SchedulerInv, AnswerInv, NEW n \in 1 .. Sent
             PROVE  answer[n] = NoAnswer <=>
                      \/ InChannel(n) \/ InQueue(prio[n], n) \/ n = last_task
                      \/ \E w \in Pollers : inbox[w] = n
  BY DEF AnsweredWhenOver
<1>1. n # None
  BY SentTasks, RequestTypes DEF SchedulerInv
<1>2. \A w \in Pollers : inbox[w] = n => WasDispatched(n) /\ n \notin discarded
  BY <1>1 DEF SchedulerInv, DeliveryInv
<1> QED
  BY <1>2, Places DEF AnswerInv, Over

\* Neither an answer nor a closed channel is taken for waiting.
LEMMA AnswersAreAnswers ==
  ASSUME NEW w, NEW t \in Requests
  PROVE  Execute(w, t).reply # NoAnswer /\ Closed(t) # NoAnswer
<1>1. t.op \in Operations
  BY ServiceAssumption
<1>2. Execute(w, t) \in
        { DoReadFilesystemHeader(w, t), DoWriteFilesystemHeader(w, t),
          DoCreatePage(w, t), DoLinkPageForward(w, t), DoReadPageHeader(w, t),
          DoWritePageHeader(w, t), DoReadPage(w, t), DoWritePage(w, t) }
  BY <1>1 DEF Operations, Execute
<1>3. DOMAIN Execute(w, t).reply
        \in {{"page_size"}, {"none"}, {"page"}, {"header"}, {"bytes"}}
  BY <1>2 DEF DoReadFilesystemHeader, DoWriteFilesystemHeader, DoCreatePage,
              DoLinkPageForward, DoReadPageHeader, DoWritePageHeader,
              DoReadPage, DoWritePage, Done, NoReply
<1>4. DOMAIN NoAnswer = {"waiting"}
  BY DEF NoAnswer
<1>5. DOMAIN Closed(t) \in {{"bytes"}, {"closed"}}
  BY DEF Closed
<1> QED
  BY <1>3, <1>4, <1>5

\* A step that ends no request and answers none.
LEMMA AnswersStay ==
  ASSUME AnswerInv, UNCHANGED <<prio, request, answer, discarded, dispatched>>,
         UNCHANGED inbox
  PROVE  AnswerInv'
BY DEF AnswerInv, Over, WasDispatched, Sent

\* A request that is sent has no answer yet.
LEMMA SendRequestStep ==
  ASSUME SchedulerInv, AnswerInv, NEW h \in Handlers, NEW p \in Priority,
         NEW t \in Requests, SendRequest(h, p, t)
  PROVE  AnswerInv'
<1> DEFINE new == Sent + 1
<1> USE DEF SchedulerInv
<1>1. /\ h \in open
      /\ prio' = Append(prio, p)
      /\ request' = Append(request, t)
      /\ answer' = Append(answer, NoAnswer)
      /\ UNCHANGED <<dispatched, discarded, inbox>>
  BY DEF SendRequest, Send, schedulerVars, pollerVars
<1>2. prio \in Seq(Priority) /\ Sent \in Nat /\ Sent' = Sent + 1
  <2>1. prio \in Seq(Priority)
    BY DEF TInv, TypeOK
  <2> QED
    BY <1>1, <2>1, AppendProperties, LenProperties DEF Sent
<1>3. request' \in Seq(Requests) /\ Len(request') = Sent'
  BY <1>1, <1>2, AppendProperties DEF AnswerInv
<1>4. discarded = {} /\ ~ WasDispatched(new)
  <2>1. pc # "stopped"
    BY <1>1 DEF HoldersInv
  <2> QED
    BY <1>2, <2>1 DEF DeliveryInv, WasDispatched, OrderInv, FlightInv
<1>5. ASSUME NEW n \in 1 .. Sent
      PROVE  Over(n)' <=> Over(n)
  BY <1>1 DEF Over, WasDispatched
<1>6. \A n : n = new => ~ Over(n)'
  BY <1>1, <1>4 DEF Over, WasDispatched
<1> QED
  BY <1>1, <1>2, <1>3, <1>5, <1>6 DEF AnswerInv

\* A request that a poller is done with is over, and no other one is.
LEMMA DoneIsOver ==
  ASSUME SchedulerInv, NEW w \in Pollers, inbox[w] # None,
         inbox' = [inbox EXCEPT ![w] = None],
         UNCHANGED <<dispatched, discarded>>
  PROVE  \A n \in 1 .. Sent : Over(n)' <=> (Over(n) \/ n = inbox[w])
<1> USE DEF SchedulerInv
<1>1. /\ inbox'[w] = None
      /\ \A v \in Pollers \ {w} : inbox'[v] = inbox[v]
  BY RequestTypes
<1>2. WasDispatched(inbox[w]) /\ \A v \in Pollers \ {w} : inbox[v] # inbox[w]
  BY DEF DeliveryInv
<1>3. \A n \in 1 .. Sent : n # None
  BY SentTasks, RequestTypes
<1> QED
  BY <1>1, <1>2, <1>3 DEF Over, WasDispatched

\* The request in a poller's hands is answered: by its task, or by the channel
\* that the panic closes.
LEMMA RunOrDropStep ==
  ASSUME SchedulerInv, AnswerInv, NEW w \in Pollers, RunTask(w) \/ DropTask(w)
  PROVE  AnswerInv'
<1> DEFINE n == inbox[w]
<1> USE DEF SchedulerInv
<1>1. poller[w] = "running" /\ n # None
  BY RequestTypes DEF RunTask, DropTask, Finish, Panic, TInv, Running
<1>2. /\ inbox' = [inbox EXCEPT ![w] = None]
      /\ UNCHANGED <<prio, dispatched, discarded, request>>
  BY DEF RunTask, DropTask, Finish, Panic, clientVars, schedulerVars
<1>3. n \in 1 .. Sent
  BY <1>1 DEF RequestInv, HeldInv
<1>4. request[n] \in Requests
  BY <1>3, ElementOfSeq DEF AnswerInv
<1>5. PICK a : answer' = [answer EXCEPT ![n] = a] /\ a # NoAnswer
  <2>1. CASE RunTask(w)
    <3>1. answer' = [answer EXCEPT ![n] = Execute(worker, request[n]).reply]
      BY <2>1 DEF RunTask
    <3> QED
      BY <1>4, <3>1, AnswersAreAnswers
  <2>2. CASE DropTask(w)
    <3>1. answer' = [answer EXCEPT ![n] = Closed(request[n])]
      BY <2>2 DEF DropTask
    <3> QED
      BY <1>4, <3>1, AnswersAreAnswers
  <2> QED
    BY <2>1, <2>2
<1>6. /\ DOMAIN answer' = DOMAIN answer
      /\ \A m \in 1 .. Sent : answer'[m] = IF m = n THEN a ELSE answer[m]
  BY <1>5 DEF AnswerInv
<1>7. \A m \in 1 .. Sent : Over(m)' <=> (Over(m) \/ m = n)
  BY <1>1, <1>2, DoneIsOver
<1> QED
  BY <1>2, <1>5, <1>6, <1>7 DEF AnswerInv, Sent

\* The requests that the scheduler drops with its queues are answered by their
\* closed channels.
LEMMA DropQueuesStep ==
  ASSUME SchedulerInv, AnswerInv, DropQueues
  PROVE  AnswerInv'
<1> USE DEF SchedulerInv
<1>1. /\ UNCHANGED <<prio, dispatched, inbox, request>>
      /\ pc = "drain"
      /\ answer' = [n \in DOMAIN answer |->
                      IF n \in discarded' THEN Closed(request[n]) ELSE answer[n]]
  BY DEF DropQueues, Disconnected, clientVars, pollerVars
<1>2. discarded = {}
  BY <1>1 DEF DeliveryInv
<1>3. \A n \in 1 .. Sent : Over(n)' <=> (Over(n) \/ n \in discarded')
  BY <1>1, <1>2 DEF Over, WasDispatched
<1>4. \A n \in 1 .. Sent : request[n] \in Requests
  BY ElementOfSeq DEF AnswerInv
<1>5. \A n \in 1 .. Sent : Closed(request[n]) # NoAnswer
  BY <1>4, AnswersAreAnswers
<1> QED
  BY <1>1, <1>3, <1>5 DEF AnswerInv, Sent

\* A task that is sent to a poller is not over: it was nowhere else before.
LEMMA DispatchEndsNothing ==
  ASSUME SchedulerInv, AnswerInv, SendOk,
         UNCHANGED <<request, answer>>
  PROVE  AnswerInv'
<1> USE DEF SchedulerInv
<1>1. /\ UNCHANGED <<prio, discarded>>
      /\ pc = "send" /\ poller[cur] = "waiting"
      /\ inbox' = [inbox EXCEPT ![cur] = last_task]
      /\ dispatched' = Append(dispatched, last_task)
  BY DEF SendOk, clientVars, Connected
<1>2. cur \in Pollers /\ last_task \in Task /\ cur # None
  BY <1>1, RequestTypes DEF TInv, Sending
<1>3. /\ inbox[cur] = None
      /\ inbox'[cur] = last_task
      /\ \A w \in Pollers \ {cur} : inbox'[w] = inbox[w]
  BY <1>1, <1>2, RequestTypes DEF RequestInv, AskingInv, Asking
<1>4. \A n : WasDispatched(n)' <=> (WasDispatched(n) \/ n = last_task)
  <2>1. /\ Len(dispatched) \in Nat
        /\ DOMAIN dispatched = 1 .. Len(dispatched)
        /\ DOMAIN dispatched' = 1 .. (Len(dispatched) + 1)
        /\ \A i \in 1 .. Len(dispatched) : dispatched'[i] = dispatched[i]
        /\ dispatched'[Len(dispatched) + 1] = last_task
    BY <1>1, <1>2, DispatchGrows
  <2> QED
    BY <2>1 DEF WasDispatched
<1>5. \A n \in 1 .. Sent : n = last_task => ~ Over(n)
  BY Places DEF Over
<1>6. \A n \in 1 .. Sent : n # None
  BY SentTasks, RequestTypes
<1>7. \A n \in 1 .. Sent : Over(n)' <=> Over(n)
  <2> SUFFICES ASSUME NEW n \in 1 .. Sent
               PROVE  Over(n)' <=> Over(n)
    OBVIOUS
  <2>1. CASE n = last_task
    <3>1. n \notin discarded
      BY <2>1, Places
    <3> QED
      BY <1>1, <1>2, <1>3, <1>5, <2>1, <3>1 DEF Over
  <2>2. CASE n # last_task
    BY <1>1, <1>2, <1>3, <1>4, <1>6, <2>2 DEF Over
  <2> QED
    BY <2>1, <2>2
<1> QED
  BY <1>1, <1>7 DEF AnswerInv, Sent

\* AnswerInv is preserved by every step of the filesystem.
LEMMA AnswerInvStep ==
  SchedulerInv /\ AnswerInv /\ [ServiceNext]_serviceVars => AnswerInv'
<1> SUFFICES ASSUME SchedulerInv, AnswerInv, [ServiceNext]_serviceVars
             PROVE  AnswerInv'
  OBVIOUS
<1>1. ASSUME NEW h \in Handlers, NEW p \in Priority, NEW t \in Requests,
             SendRequest(h, p, t)
      PROVE  AnswerInv'
  BY <1>1, SendRequestStep
<1>2. CASE Daemonize \/ Update
  BY <1>2, AnswersStay DEF Daemonize, Update, vars
<1>3. ASSUME NEW w \in Pollers, UpdatePolls(w)
      PROVE  AnswerInv'
  BY <1>3, AnswersStay DEF UpdatePolls, Poll, schedulerVars
<1>4. ASSUME NEW w \in Pollers, RunTask(w) \/ DropTask(w)
      PROVE  AnswerInv'
  BY <1>4, RunOrDropStep
<1>5. CASE DropQueues
  BY <1>5, DropQueuesStep
<1>6. CASE OtherStep
  <2>1. UNCHANGED <<request, answer>>
    BY <1>6 DEF OtherStep
  <2>2. CASE SendOk
    BY <2>1, <2>2, DispatchEndsNothing
  <2>3. CASE ~ SendOk
    <3>1. UNCHANGED <<prio, discarded, dispatched, inbox>>
      BY <1>6, <2>3
         DEF OtherStep, Close, Poll, Receive, TryRecv, Drained, SkipPoll,
             TakeTask, NoTask, Served, clientVars, schedulerVars, pollerVars
    <3> QED
      BY <2>1, <3>1, AnswersStay
  <2> QED
    BY <2>2, <2>3
<1>7. CASE UNCHANGED serviceVars
  BY <1>7, AnswersStay DEF serviceVars, vars
<1> QED
  BY <1>1, <1>2, <1>3, <1>4, <1>5, <1>6, <1>7 DEF ServiceNext

\* A sender finds an answer, or its channel closed, exactly when its request is
\* over, whatever happens to the worker and whenever the scheduler ends: nobody
\* is answered too early, and nobody waits for a request that is gone
\* (page.rs:93-210, worker.rs:44-187).
THEOREM SendersWaitNoLonger == ServiceSpec => []AnsweredWhenOver
<1>1. ServiceInit => SchedulerInv /\ AnswerInv
  <2>1. ServiceInit => SchedulerInv
    BY SchedulerInvHolds DEF ServiceInit
  <2>2. ServiceInit => AnswerInv
    BY DEF ServiceInit, Init, AnswerInv, Sent
  <2> QED
    BY <2>1, <2>2
<1>2. SchedulerInv /\ AnswerInv /\ [ServiceNext]_serviceVars
        => (SchedulerInv /\ AnswerInv)'
  BY SchedulerInvHolds, ServiceStepSchedules, AnswerInvStep
<1> QED
  BY <1>1, <1>2, AnswerInvSuffices, PTL DEF ServiceSpec

-----------------------------------------------------------------------------
(***************************************************************************)
(* A driver without threads.                                               *)
(***************************************************************************)

\* As long as the driver has no threads no task is handed out: the first poll
\* blocks the thread that would have to serve it, and until then the scheduler
\* has nobody to serve.
InlineInv ==
  driver # "daemonized" =>
    /\ executed = {}
    /\ pc \in {"drain", "stopped"}
    /\ polls = <<>>
    /\ \A w \in Pollers : inbox[w] = None /\ poller[w] \in {"idle", "waiting"}
    /\ driver # "blocked" => \A i \in DOMAIN channel : ~ Asked(i)

\* InlineInv is preserved by every step of the filesystem.
LEMMA InlineInvStep ==
  SchedulerInv /\ InlineInv /\ [ServiceNext]_serviceVars => InlineInv'
<1> SUFFICES ASSUME SchedulerInv, InlineInv, [ServiceNext]_serviceVars
             PROVE  InlineInv'
  OBVIOUS
<1> USE DEF SchedulerInv
<1>1. CASE driver' = "daemonized"
  BY <1>1 DEF InlineInv
<1>2. CASE driver' # "daemonized"
  <2>1. driver # "daemonized"
    BY <1>2 DEF ServiceNext, SendRequest, Daemonize, Update, UpdatePolls,
                RunTask, DropTask, DropQueues, OtherStep, serviceVars
  <2>2. /\ executed = {}
        /\ pc \in {"drain", "stopped"}
        /\ polls = <<>>
        /\ \A w \in Pollers : inbox[w] = None /\ poller[w] \in {"idle", "waiting"}
        /\ driver # "blocked" => \A i \in DOMAIN channel : ~ Asked(i)
    BY <2>1 DEF InlineInv
  <2>3. ASSUME NEW h \in Handlers, NEW p \in Priority, NEW t \in Requests,
               SendRequest(h, p, t)
        PROVE  InlineInv'
    <3>1. Send(h, p) /\ UNCHANGED driver
      BY <2>3 DEF SendRequest
    <3>2. Sent + 1 \in Task
      BY <3>1, SentTasks, SchedulerAssumption DEF Send, Task
    <3>3. PushTask(Sent + 1) \in Message
      BY <3>2 DEF Message
    <3>4. /\ Len(channel) \in Nat
          /\ DOMAIN channel = 1 .. Len(channel)
          /\ DOMAIN channel' = 1 .. (Len(channel) + 1)
          /\ \A i \in 1 .. Len(channel) : channel'[i] = channel[i]
          /\ channel'[Len(channel) + 1] = PushTask(Sent + 1)
      BY <3>1, <3>3, ChannelGrows DEF Send
    <3>5. driver # "blocked" => \A i \in DOMAIN channel' : ~ Asked(i)'
      BY <2>2, <3>4 DEF Asked, PushTask
    <3> QED
      BY <2>2, <3>1, <3>5 DEF InlineInv, Send, schedulerVars, pollerVars
  <2>4. CASE Daemonize \/ Update
    BY <1>2, <2>2, <2>4 DEF Daemonize, Update, vars, InlineInv, Asked
  <2>5. ASSUME NEW w \in Pollers, UpdatePolls(w)
        PROVE  InlineInv'
    BY <2>2, <2>5, RequestTypes DEF UpdatePolls, Poll, schedulerVars, InlineInv
  <2>6. ASSUME NEW w \in Pollers, RunTask(w) \/ DropTask(w)
        PROVE  FALSE
    BY <2>2, <2>6 DEF RunTask, DropTask, Finish, Panic
  <2>7. CASE SchedulerRuns /\ DropQueues
    <3>1. channel = <<>> /\ UNCHANGED <<channel, executed, inbox, poller>>
      BY <2>7 DEF DropQueues, Disconnected, clientVars, pollerVars
    <3>2. DOMAIN channel = {}
      BY <3>1
    <3>3. pc' = "stopped" /\ polls' = <<>>
      BY <2>7 DEF DropQueues, Disconnected
    <3> QED
      BY <2>2, <3>1, <3>2, <3>3 DEF InlineInv
  <2>8. CASE OtherStep
    <3>1. UNCHANGED driver
      BY <2>8 DEF OtherStep
    <3>2. ASSUME NEW h \in Handlers, Close(h)
          PROVE  InlineInv'
      BY <2>2, <3>1, <3>2
         DEF Close, schedulerVars, pollerVars, InlineInv, Asked
    <3>3. ASSUME NEW w \in Pollers, Receive(w)
          PROVE  FALSE
      BY <2>2, <3>3 DEF Receive
    <3>4. CASE SchedulerRuns /\ TryRecv
      <4>1. driver # "blocked"
        BY <3>4 DEF SchedulerRuns
      <4>2. /\ Head(channel) = channel[1]
            /\ Len(channel) \in Nat \ {0}
            /\ DOMAIN channel = 1 .. Len(channel)
            /\ DOMAIN channel' = 1 .. (Len(channel) - 1)
            /\ \A i \in 1 .. (Len(channel) - 1) : channel'[i] = channel[i + 1]
        BY <3>4, ChannelShrinks DEF TryRecv
      <4>3. Head(channel).kind # "PollTask"
        BY <2>2, <4>1, <4>2 DEF Asked
      <4>4. UNCHANGED polls
        BY <3>4, <4>3 DEF TryRecv
      <4>5. \A i \in DOMAIN channel' : ~ Asked(i)'
        BY <2>2, <4>1, <4>2, SMTT(40) DEF Asked
      <4> QED
        BY <2>2, <3>1, <3>4, <4>4, <4>5 DEF TryRecv, pollerVars, InlineInv
    <3>5. ASSUME Drained \/ SkipPoll \/ TakeTask \/ NoTask \/ SendOk \/ Served
          PROVE  FALSE
      BY <2>2, <3>5 DEF Drained, SkipPoll, TakeTask, NoTask, SendOk, Served
    <3> QED
      BY <2>1, <2>8, <3>2, <3>3, <3>4, <3>5 DEF OtherStep
  <2>9. CASE UNCHANGED serviceVars
    BY <2>2, <2>9 DEF serviceVars, vars, InlineInv, Asked
  <2> QED
    BY <2>3, <2>4, <2>5, <2>6, <2>7, <2>8, <2>9 DEF ServiceNext
<1> QED
  BY <1>1, <1>2

\* However many requests are queued and however often update is called, nothing
\* is executed before daemonize (driver.rs:31-40, worker.rs:34-44).
THEOREM NothingRunsWithoutThreads == ServiceSpec => []NothingRunsInline
<1>1. ServiceInit => SchedulerInv /\ InlineInv
  <2>1. ServiceInit => SchedulerInv
    BY SchedulerInvHolds DEF ServiceInit
  <2>2. ServiceInit => InlineInv
    BY DEF ServiceInit, Init, InlineInv
  <2> QED
    BY <2>1, <2>2
<1>2. SchedulerInv /\ InlineInv /\ [ServiceNext]_serviceVars
        => (SchedulerInv /\ InlineInv)'
  BY SchedulerInvHolds, ServiceStepSchedules, InlineInvStep
<1>3. InlineInv => NothingRunsInline
  BY DEF InlineInv, NothingRunsInline
<1> QED
  BY <1>1, <1>2, <1>3, PTL DEF ServiceSpec

\* The driver starts one worker, and with one worker requests are executed one
\* at a time, in the order in which the scheduler hands them out
\* (driver.rs:16-23, worker.rs:193-205).
THEOREM RequestsRunOneAtATime ==
  ASSUME NEW CONSTANT w, Pollers = {w}
  PROVE  ServiceSpec => []OneAtATime
BY ServiceIsScheduled, OneWorkerRunsOneTask, PTL

-----------------------------------------------------------------------------
(***************************************************************************)
(* Requests of one priority and one worker: what they do is what they do   *)
(* one after the other.                                                    *)
(***************************************************************************)

\* The filesystem before the first request.
Start == Done(DriverNew(<<>>, Header), NoReply)

\* run[n] is the filesystem after the first n of the requests in asked, for n up
\* to m.
IsRun(run, m, asked) ==
  run = [n \in 0 .. m |->
           IF n = 0 THEN Start ELSE Execute(run[n - 1].worker, asked[n])]

\* Requests can be executed one after the other, however many there are.
LEMMA RunsExist ==
  ASSUME NEW asked, NEW m \in Nat
  PROVE  \E run : IsRun(run, m, asked)
<1> DEFINE A == {k \in Nat : \E run : IsRun(run, k, asked)}
<1>1. 0 \in A
  <2>1. IsRun([n \in 0 .. 0 |-> Start], 0, asked)
    BY DEF IsRun
  <2> QED
    BY <2>1
<1>2. ASSUME NEW k \in Nat, k \in A
      PROVE  k + 1 \in A
  <2>1. PICK run : IsRun(run, k, asked)
    BY <1>2
  <2> DEFINE step   == Execute(run[k].worker, asked[k + 1])
             longer == [n \in 0 .. (k + 1) |-> IF n = k + 1 THEN step ELSE run[n]]
             again  == [n \in 0 .. (k + 1) |->
                          IF n = 0 THEN Start
                          ELSE Execute(longer[n - 1].worker, asked[n])]
  <2>2. \A n \in 0 .. k :
          run[n] = IF n = 0 THEN Start
                   ELSE Execute(run[n - 1].worker, asked[n])
    BY <2>1 DEF IsRun
  <2>3. \A n \in 0 .. k : longer[n] = run[n]
    OBVIOUS
  <2>4. ASSUME NEW n \in 0 .. (k + 1)
        PROVE  longer[n] = again[n]
    <3>1. CASE n = 0
      BY <2>2, <3>1
    <3>2. CASE n # 0
      <4>1. n - 1 \in 0 .. k
        BY <3>2
      <4>2. longer[n - 1] = run[n - 1]
        BY <2>3, <4>1
      <4>3. again[n] = Execute(run[n - 1].worker, asked[n])
        BY <3>2, <4>2
      <4>4. CASE n = k + 1
        BY <4>3, <4>4
      <4>5. CASE n # k + 1
        BY <2>2, <3>2, <4>3, <4>5
      <4> QED
        BY <4>4, <4>5
    <3> QED
      BY <3>1, <3>2
  <2>5. longer = again
    BY <2>4
  <2>6. IsRun(longer, k + 1, asked)
    BY <2>5 DEF IsRun
  <2> QED
    BY <2>6
<1>3. Nat \subseteq A
  BY <1>1, <1>2, SetInduction
<1> QED
  BY <1>3

\* There is only one way to do so.
LEMMA RunIsUnique ==
  ASSUME NEW f, NEW g, NEW m \in Nat, NEW k \in Nat, m <= k,
         NEW asked, NEW more, \A n \in 1 .. m : more[n] = asked[n],
         IsRun(f, m, asked), IsRun(g, k, more)
  PROVE  \A n \in 0 .. m : f[n] = g[n]
<1> DEFINE A == {n \in Nat : n <= m => f[n] = g[n]}
<1>1. /\ \A n \in 0 .. m :
           f[n] = IF n = 0 THEN Start ELSE Execute(f[n - 1].worker, asked[n])
      /\ \A n \in 0 .. m :
           g[n] = IF n = 0 THEN Start ELSE Execute(g[n - 1].worker, more[n])
  BY DEF IsRun
<1>2. 0 \in A
  BY <1>1
<1>3. ASSUME NEW n \in Nat, n \in A
      PROVE  n + 1 \in A
  <2> SUFFICES ASSUME n + 1 <= m
               PROVE  f[n + 1] = g[n + 1]
    OBVIOUS
  <2>1. f[n] = g[n] /\ n + 1 \in 1 .. m /\ (n + 1) - 1 = n
    BY <1>3
  <2> QED
    BY <1>1, <2>1
<1>4. Nat \subseteq A
  BY <1>2, <1>3, SetInduction
<1> QED
  BY <1>4

\* InOrderOfSending is this run of the requests sent so far.
LEMMA InOrderIsRun ==
  ASSUME Sent \in Nat
  PROVE  IsRun(InOrderOfSending, Sent, request)
<1>1. \E run : IsRun(run, Sent, request)
  BY RunsExist
<1> QED
  BY <1>1 DEF IsRun, InOrderOfSending, Start

\* All requests so far have the same priority.
Uniform == \A m, n \in 1 .. Sent : prio[m] = prio[n]

\* How many of the tasks that were handed to w it has run.
Ran(w) == IF inbox[w] = None THEN Len(dispatched) ELSE Len(dispatched) - 1

\* Requests of one priority are handed out in the order of sending, and as long
\* as w lives it has run all of them but the one it holds.
ReplyInv(w) ==
  Uniform =>
    /\ \A j \in DOMAIN dispatched : dispatched[j] = j
    /\ \A n \in executed : WasDispatched(n) /\ answer[n] = InOrderOfSending[n].reply
    /\ poller[w] # "gone" =>
         /\ inbox[w] # None => inbox[w] = Len(dispatched)
         /\ \A n \in executed : n <= Ran(w)
         /\ worker = InOrderOfSending[Ran(w)].worker

\* Another request behind those sent changes nothing about them.
LEMMA SendRequestReplies ==
  ASSUME NEW CONSTANT w, Pollers = {w}, SchedulerInv, AnswerInv, ReplyInv(w),
         NEW h \in Handlers, NEW p \in Priority, NEW t \in Requests,
         SendRequest(h, p, t)
  PROVE  ReplyInv(w)'
<1> USE DEF SchedulerInv
<1>1. /\ prio' = Append(prio, p)
      /\ request' = Append(request, t)
      /\ answer' = Append(answer, NoAnswer)
      /\ UNCHANGED <<dispatched, executed, inbox, poller, worker>>
  BY DEF SendRequest, Send, schedulerVars, pollerVars
<1>2. /\ Sent \in Nat /\ Sent' = Sent + 1
      /\ \A n \in 1 .. Sent : prio'[n] = prio[n]
  <2>1. prio \in Seq(Priority)
    BY DEF TInv, TypeOK
  <2> QED
    BY <1>1, <2>1, AppendProperties, LenProperties DEF Sent
<1>3. \A n \in 1 .. Sent : request'[n] = request[n]
  BY <1>1, AppendProperties DEF AnswerInv
<1>4. \A n \in 1 .. Sent : answer'[n] = answer[n]
  BY <1>1, <1>2 DEF AnswerInv
<1>5. IsRun(InOrderOfSending, Sent, request)
  BY <1>2, InOrderIsRun
<1>6. IsRun(InOrderOfSending', Sent + 1, request')
  <2>1. (Sent \in Nat => IsRun(InOrderOfSending, Sent, request))'
    BY InOrderIsRun, PTL
  <2> QED
    BY <1>2, <2>1 DEF IsRun
<1>7. \A n \in 0 .. Sent : InOrderOfSending'[n] = InOrderOfSending[n]
  BY <1>2, <1>3, <1>5, <1>6, RunIsUnique
<1>8. Uniform' => Uniform
  BY <1>2 DEF Uniform
<1>9. \A i \in DOMAIN dispatched : dispatched[i] \in 1 .. Sent
  BY DEF OrderInv, FlightInv
<1>10. \A n \in executed : WasDispatched(n) => n \in 1 .. Sent
  BY <1>9 DEF WasDispatched
<1>11. Len(dispatched) \in Nat /\ DOMAIN dispatched = 1 .. Len(dispatched)
  <2>1. dispatched \in Seq(Task)
    BY DEF TInv, TypeOK
  <2> QED
    BY <2>1, LenProperties
<1>12. ASSUME Uniform, poller[w] # "gone"
       PROVE  Ran(w) \in 0 .. Sent
  <2>1. CASE Len(dispatched) = 0
    <3>1. inbox[w] = None
      BY <1>11, <1>12, <2>1 DEF ReplyInv, RequestInv, HeldInv
    <3> QED
      BY <1>2, <2>1, <3>1 DEF Ran
  <2>2. CASE Len(dispatched) # 0
    <3>1. Len(dispatched) \in DOMAIN dispatched
      BY <1>11, <2>2
    <3>2. dispatched[Len(dispatched)] = Len(dispatched)
      BY <1>12, <3>1 DEF ReplyInv
    <3>3. Len(dispatched) \in 1 .. Sent
      BY <1>9, <3>1, <3>2
    <3> QED
      BY <1>2, <3>3 DEF Ran
  <2> QED
    BY <2>1, <2>2
<1>13. Ran(w)' = Ran(w) /\ \A n : WasDispatched(n)' <=> WasDispatched(n)
  BY <1>1 DEF Ran, WasDispatched
<1>14. ASSUME Uniform'
       PROVE  /\ \A j \in DOMAIN dispatched' : dispatched'[j] = j
              /\ \A n \in executed' :
                   WasDispatched(n)' /\ answer'[n] = InOrderOfSending'[n].reply
  <2>1. Uniform
    BY <1>8, <1>14
  <2>2. \A n \in executed :
          WasDispatched(n) /\ answer[n] = InOrderOfSending[n].reply
    BY <2>1 DEF ReplyInv
  <2>3. \A n \in executed : n \in 0 .. Sent
    BY <1>2, <1>10, <2>2
  <2> QED
    BY <1>1, <1>4, <1>7, <1>10, <1>13, <2>1, <2>2, <2>3 DEF ReplyInv
<1>15. ASSUME Uniform', poller'[w] # "gone"
       PROVE  /\ inbox'[w] # None => inbox'[w] = Len(dispatched')
              /\ \A n \in executed' : n <= Ran(w)'
              /\ worker' = InOrderOfSending'[Ran(w)'].worker
  <2>1. Uniform /\ poller[w] # "gone"
    BY <1>1, <1>8, <1>15
  <2>2. Ran(w)' = Ran(w) /\ InOrderOfSending'[Ran(w)] = InOrderOfSending[Ran(w)]
    BY <1>7, <1>12, <1>13, <2>1
  <2> QED
    BY <1>1, <2>1, <2>2 DEF ReplyInv
<1> QED
  BY <1>14, <1>15 DEF ReplyInv

\* The next task to be handed out is the next one in the order of sending.
LEMMA NextInOrder ==
  ASSUME SchedulerInv, last_task \in 1 .. Sent, Uniform,
         \A j \in DOMAIN dispatched : dispatched[j] = j
  PROVE  last_task = Len(dispatched) + 1
<1> USE DEF SchedulerInv
<1>1. Len(dispatched) \in Nat /\ DOMAIN dispatched = 1 .. Len(dispatched)
  <2>1. dispatched \in Seq(Task)
    BY DEF TInv, TypeOK
  <2> QED
    BY <2>1, LenProperties
<1>2. last_task # None /\ Sent \in Nat /\ last_task \in Nat
  BY RequestTypes
<1>3. \A n \in 1 .. (last_task - 1) : n \in 1 .. Sent /\ prio[n] = prio[last_task]
  BY <1>2 DEF Uniform
<1>4. Rank[prio[last_task]] \in Nat
  BY SentTasks, RankOrder
<1>5. \A n \in 1 .. (last_task - 1) : WasDispatched(n)
  <2>1. \A n \in 1 .. (last_task - 1) : Rank[prio[n]] <= Rank[prio[last_task]]
    BY <1>3, <1>4
  <2> QED
    BY <1>2, <2>1 DEF OrderInv, LastInv
<1>6. \A n \in 1 .. (last_task - 1) : n \in DOMAIN dispatched
  BY <1>5 DEF WasDispatched
<1>7. last_task \notin DOMAIN dispatched
  BY DEF OrderInv, GoneInv
<1>8. last_task > Len(dispatched)
  BY <1>1, <1>2, <1>7
<1>9. ~ (last_task > Len(dispatched) + 1)
  <2> SUFFICES ASSUME last_task > Len(dispatched) + 1
               PROVE  FALSE
    OBVIOUS
  <2>1. Len(dispatched) + 1 \in 1 .. (last_task - 1)
    BY <1>1, <1>2
  <2> QED
    BY <1>1, <1>6, <2>1
<1> QED
  BY <1>1, <1>2, <1>8, <1>9

\* A task goes to the poller that has run all those before.
LEMMA DispatchReplies ==
  ASSUME NEW CONSTANT w, Pollers = {w}, SchedulerInv, ReplyInv(w),
         SendOk, UNCHANGED <<request, answer, worker>>
  PROVE  ReplyInv(w)'
<1> USE DEF SchedulerInv
<1>1. /\ UNCHANGED <<prio, poller, executed>>
      /\ pc = "send" /\ poller[cur] = "waiting"
      /\ inbox' = [inbox EXCEPT ![cur] = last_task]
      /\ dispatched' = Append(dispatched, last_task)
  BY DEF SendOk, clientVars, Connected
<1>2. cur = w /\ last_task \in Task /\ last_task # None /\ cur # None
  BY <1>1, RequestTypes DEF TInv, Sending
<1>3. inbox[w] = None /\ inbox'[w] = last_task /\ last_task \in 1 .. Sent
  BY <1>1, <1>2, RequestTypes
     DEF RequestInv, AskingInv, Asking, OrderInv, FlightInv
<1>4. /\ Len(dispatched) \in Nat
      /\ DOMAIN dispatched = 1 .. Len(dispatched)
      /\ DOMAIN dispatched' = 1 .. (Len(dispatched) + 1)
      /\ Len(dispatched') = Len(dispatched) + 1
      /\ \A i \in 1 .. Len(dispatched) : dispatched'[i] = dispatched[i]
      /\ dispatched'[Len(dispatched) + 1] = last_task
  BY <1>1, <1>2, DispatchGrows
<1>5. (Uniform' <=> Uniform) /\ InOrderOfSending' = InOrderOfSending
  BY <1>1 DEF Uniform, InOrderOfSending, Sent
<1> SUFFICES ASSUME Uniform
             PROVE  ReplyInv(w)'
  BY <1>5 DEF ReplyInv
<1>6. last_task = Len(dispatched) + 1
  BY <1>3, NextInOrder DEF ReplyInv
<1>7. Ran(w) = Len(dispatched) /\ Ran(w)' = Len(dispatched)
  BY <1>2, <1>3, <1>4 DEF Ran
<1>8. \A n : WasDispatched(n) => WasDispatched(n)'
  BY <1>4 DEF WasDispatched
<1>9. \A j \in DOMAIN dispatched' : dispatched'[j] = j
  BY <1>4, <1>6 DEF ReplyInv
<1> QED
  BY <1>1, <1>3, <1>4, <1>5, <1>6, <1>7, <1>8, <1>9 DEF ReplyInv

\* The worker runs the next task on what the earlier ones have left.
LEMMA RunTaskReplies ==
  ASSUME NEW CONSTANT w, Pollers = {w}, SchedulerInv, AnswerInv, ReplyInv(w),
         RunTask(w)
  PROVE  ReplyInv(w)'
<1> DEFINE n    == inbox[w]
           done == Execute(worker, request[n])
<1> USE DEF SchedulerInv
<1>1. /\ UNCHANGED <<prio, dispatched, request>>
      /\ poller[w] = "running" /\ poller'[w] = "idle"
      /\ inbox'[w] = None
      /\ executed' = executed \cup {n}
      /\ worker' = done.worker
      /\ answer' = [answer EXCEPT ![n] = done.reply]
  BY RequestTypes DEF RunTask, Finish, clientVars, schedulerVars
<1>2. n # None /\ n \in 1 .. Sent /\ Sent \in Nat /\ WasDispatched(n)
  BY <1>1, RequestTypes
     DEF TInv, Running, RequestInv, HeldInv, DeliveryInv
<1>3. (Uniform' <=> Uniform) /\ InOrderOfSending' = InOrderOfSending
  BY <1>1 DEF Uniform, InOrderOfSending, Sent
<1> SUFFICES ASSUME Uniform
             PROVE  ReplyInv(w)'
  BY <1>3 DEF ReplyInv
<1>4. n = Len(dispatched) /\ Ran(w) = n - 1 /\ Ran(w)' = n
  BY <1>1, <1>2 DEF ReplyInv, Ran
<1>5. worker = InOrderOfSending[n - 1].worker /\ n \notin executed
  BY <1>1, <1>2, <1>4 DEF ReplyInv
<1>6. done = InOrderOfSending[n]
  BY <1>2, <1>5, InOrderIsRun DEF IsRun
<1>7. /\ answer'[n] = done.reply
      /\ \A m \in executed : answer'[m] = answer[m]
  BY <1>1, <1>2, <1>5 DEF AnswerInv
<1>8. \A m \in executed' : m <= n
  <2>1. \A m \in executed : WasDispatched(m) /\ m <= n - 1
    BY <1>1, <1>4 DEF ReplyInv
  <2>2. \A m : WasDispatched(m) => m \in 1 .. Sent
    BY DEF OrderInv, FlightInv, WasDispatched
  <2>3. \A m \in executed : m <= n
    BY <1>2, <2>1, <2>2
  <2> QED
    BY <1>1, <1>2, <2>3
<1> QED
  BY <1>1, <1>2, <1>3, <1>4, <1>6, <1>7, <1>8 DEF ReplyInv, WasDispatched

\* A worker that panics has not run the task it held, and runs no other.
LEMMA DropTaskReplies ==
  ASSUME NEW CONSTANT w, Pollers = {w}, SchedulerInv, AnswerInv, ReplyInv(w),
         DropTask(w)
  PROVE  ReplyInv(w)'
<1> DEFINE n == inbox[w]
<1> USE DEF SchedulerInv
<1>1. /\ UNCHANGED <<prio, dispatched, request, executed>>
      /\ poller[w] = "running" /\ poller'[w] = "gone"
      /\ answer' = [answer EXCEPT ![n] = Closed(request[n])]
  BY RequestTypes DEF DropTask, Panic, schedulerVars
<1>2. n # None /\ n \in 1 .. Sent /\ Sent \in Nat
  BY <1>1, RequestTypes DEF TInv, Running, RequestInv, HeldInv
<1>3. (Uniform' <=> Uniform) /\ InOrderOfSending' = InOrderOfSending
  BY <1>1 DEF Uniform, InOrderOfSending, Sent
<1> SUFFICES ASSUME Uniform
             PROVE  ReplyInv(w)'
  BY <1>3 DEF ReplyInv
<1>4. n = Len(dispatched) /\ Ran(w) = n - 1
  BY <1>1, <1>2 DEF ReplyInv, Ran
<1>5. n \notin executed
  BY <1>1, <1>2, <1>4 DEF ReplyInv
<1>6. \A m \in executed : answer'[m] = answer[m]
  BY <1>1, <1>5
<1> QED
  BY <1>1, <1>3, <1>6 DEF ReplyInv, WasDispatched

\* ReplyInv is preserved by every step of the filesystem.
LEMMA ReplyInvStep ==
  ASSUME NEW CONSTANT w, Pollers = {w}, SchedulerInv, AnswerInv, ReplyInv(w),
         [ServiceNext]_serviceVars
  PROVE  ReplyInv(w)'
<1>1. ASSUME UNCHANGED <<prio, dispatched, executed, request, worker>>,
             \A n \in executed : WasDispatched(n) => answer'[n] = answer[n],
             /\ UNCHANGED inbox
             /\ poller[w] = "gone" => poller'[w] = "gone"
      PROVE  ReplyInv(w)'
  <2>1. (Uniform' <=> Uniform) /\ InOrderOfSending' = InOrderOfSending
    BY <1>1 DEF Uniform, InOrderOfSending, Sent
  <2>2. Ran(w)' = Ran(w) /\ \A n : WasDispatched(n)' <=> WasDispatched(n)
    BY <1>1 DEF Ran, WasDispatched
  <2> QED
    BY <1>1, <2>1, <2>2 DEF ReplyInv
<1>2. ASSUME NEW h \in Handlers, NEW p \in Priority, NEW t \in Requests,
             SendRequest(h, p, t)
      PROVE  ReplyInv(w)'
  BY <1>2, SendRequestReplies
<1>3. CASE Daemonize \/ Update
  BY <1>1, <1>3 DEF Daemonize, Update, vars
<1>4. ASSUME NEW v \in Pollers, UpdatePolls(v)
      PROVE  ReplyInv(w)'
  BY <1>1, <1>4, RequestTypes DEF UpdatePolls, Poll, schedulerVars, SchedulerInv
<1>5. ASSUME NEW v \in Pollers, RunTask(v) \/ DropTask(v)
      PROVE  ReplyInv(w)'
  BY <1>5, RunTaskReplies, DropTaskReplies
<1>6. CASE DropQueues
  <2>1. UNCHANGED <<prio, dispatched, executed, request, worker, inbox, poller>>
    BY <1>6 DEF DropQueues, Disconnected, clientVars, pollerVars
  <2>2. \A n \in discarded' : ~ WasDispatched(n)
    BY <1>6
       DEF DropQueues, Disconnected, SchedulerInv, OrderInv, GoneInv, WasDispatched
  <2>3. \A n \in DOMAIN answer : WasDispatched(n) => answer'[n] = answer[n]
    BY <1>6, <2>2 DEF DropQueues
  <2>4. \A n : WasDispatched(n) => n \in DOMAIN answer
    BY DEF WasDispatched, SchedulerInv, OrderInv, FlightInv, AnswerInv
  <2> QED
    BY <1>1, <2>1, <2>3, <2>4
<1>7. CASE OtherStep
  <2>1. UNCHANGED <<request, answer, worker>>
    BY <1>7 DEF OtherStep
  <2>2. CASE SendOk
    BY <2>1, <2>2, DispatchReplies
  <2>3. CASE ~ SendOk
    <3>1. /\ UNCHANGED <<prio, dispatched, executed, inbox>>
          /\ poller[w] = "gone" => poller'[w] = "gone"
      BY <1>7, <2>3, RequestTypes
         DEF OtherStep, Close, Poll, Receive, TryRecv, Drained, SkipPoll,
             TakeTask, NoTask, Served, clientVars, schedulerVars, pollerVars,
             SchedulerInv
    <3> QED
      BY <1>1, <2>1, <3>1
  <2> QED
    BY <2>2, <2>3
<1>8. CASE UNCHANGED serviceVars
  BY <1>1, <1>8 DEF serviceVars, vars
<1> QED
  BY <1>2, <1>3, <1>4, <1>5, <1>6, <1>7, <1>8 DEF ServiceNext

\* With one worker, requests of one priority are answered as if they were
\* executed one by one in the order of sending, whoever sent them, however far
\* scheduler and worker are behind, and if the worker fails, those it has
\* answered (handler.rs:33-36, worker.rs:44-187).
THEOREM RepliesAreInOrder ==
  ASSUME NEW CONSTANT w, Pollers = {w}
  PROVE  ServiceSpec => []RepliesInOrderOfSending
<1>1. ServiceInit => SchedulerInv /\ AnswerInv /\ ReplyInv(w)
  <2> SUFFICES ASSUME ServiceInit
               PROVE  SchedulerInv /\ AnswerInv /\ ReplyInv(w)
    OBVIOUS
  <2>1. SchedulerInv
    BY SchedulerInvHolds DEF ServiceInit
  <2>2. AnswerInv
    BY DEF ServiceInit, Init, AnswerInv, Sent
  <2>3. /\ dispatched = <<>> /\ executed = {} /\ inbox[w] = None /\ Sent = 0
        /\ worker = Start.worker
    BY DEF ServiceInit, Init, Sent, Start, Done
  <2>4. InOrderOfSending[0] = Start
    BY <2>3, InOrderIsRun DEF IsRun
  <2>5. Ran(w) = 0
    BY <2>3 DEF Ran
  <2>6. ReplyInv(w)
    BY <2>3, <2>4, <2>5 DEF ReplyInv
  <2> QED
    BY <2>1, <2>2, <2>6
<1>2. SchedulerInv /\ AnswerInv /\ ReplyInv(w) /\ [ServiceNext]_serviceVars
        => (SchedulerInv /\ AnswerInv /\ ReplyInv(w))'
  BY SchedulerInvHolds, ServiceStepSchedules, AnswerInvStep, ReplyInvStep
<1>3. ReplyInv(w) => RepliesInOrderOfSending
  BY DEF ReplyInv, RepliesInOrderOfSending, Uniform
<1> QED
  BY <1>1, <1>2, <1>3, PTL DEF ServiceSpec

=============================================================================
