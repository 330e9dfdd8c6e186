---------------------------- MODULE TaskScheduler ----------------------------
(***************************************************************************)
(* The tasks scheduler of animefs (src/filesystem/tasks/scheduler.rs) and  *)
(* its two ends: the handlers through which clients send tasks and the     *)
(* pollers that ask for one task at a time (handler.rs; the filesystem     *)
(* worker is a poller).                                                    *)
(*                                                                         *)
(* Everybody talks to the scheduler thread over one unbounded channel,     *)
(* which carries PushTask and PollTask messages.  The thread alternates    *)
(* between draining the channel into its queues and serving the pollers.   *)
(* A task is the number of its send: task n is the n-th PushTask put in    *)
(* the channel by anyone.  What a task does is left to TaskService.        *)
(***************************************************************************)
EXTENDS Naturals, Sequences

CONSTANTS
  Handlers,    \* clones of FilesystemTasksHandler held by client threads
  Pollers,     \* threads that call poll(); each holds a handler of its own
  Fallible,    \* the pollers whose thread may panic while it runs a task
  Impatient,   \* the pollers that may drop the receiving end of a PollTask
  MaxTasks,    \* bound: the number of tasks ever sent
  None         \* "no task", "nobody"

Priority == {"High", "Normal", "Low"}

ASSUME SchedulerAssumption ==
  /\ MaxTasks \in Nat
  /\ Fallible \subseteq Pollers
  /\ Impatient \subseteq Pollers
  /\ Handlers \cap Pollers = {}
  /\ None \notin Nat
  /\ None \notin Pollers

Task == 1 .. MaxTasks

VARIABLES
  channel,     \* the flume channel: a sequence of messages
  open,        \* the holders of a live sending end
  prio,        \* prio[n] is the priority task n was sent with
  queue,       \* tasks_high, tasks_normal and tasks_low
  polls,       \* tasks_polls: the pollers waiting for an answer
  pc,          \* where the scheduler thread is
  cur,         \* the poller that is being answered
  last_task,   \* the task taken for it
  poller,      \* what each polling thread is doing
  inbox,       \* the task sent to it, until it has run it
  mark,        \* history: tasks in the channel before its last PollTask
  dispatched,  \* history: the tasks sent to pollers, in order
  executed,    \* history: the tasks some poller has run to the end
  discarded    \* history: the tasks dropped together with the scheduler

vars == <<channel, open, prio, queue, polls, pc, cur, last_task, poller,
          inbox, mark, dispatched, executed, discarded>>

clientVars    == <<channel, open, prio>>
schedulerVars == <<queue, polls, pc, cur, last_task, dispatched, discarded>>
pollerVars    == <<poller, inbox, mark, executed>>

PushTask(n) == [kind |-> "PushTask", task |-> n]
PollTask(w) == [kind |-> "PollTask", poller |-> w]

Message == {PushTask(n) : n \in Task} \cup {PollTask(w) : w \in Pollers}

Sent == Len(prio)

(***************************************************************************)
(* The order in which FilesystemTasksScheduler::poll looks at the queues.  *)
(***************************************************************************)
Rank == [p \in Priority |-> CASE p = "High" -> 1
                              [] p = "Normal" -> 2
                              [] p = "Low" -> 3]

\* Mutant of IsNextQueue: the queues are looked at from Low to High.
IsLeastUrgentQueue(p) ==
  /\ queue[p] # <<>>
  /\ \A q \in Priority : Rank[q] > Rank[p] => queue[q] = <<>>

\* The queue that poll() takes the next task from.
IsNextQueue(p) ==
  /\ queue[p] # <<>>
  /\ \A q \in Priority : Rank[q] < Rank[p] => queue[q] = <<>>

\* Mutant of PushBack: the task goes to the front.
PushBackFirst(tasks, n) == <<n>> \o tasks

\* FilesystemTasksScheduler::push, on the queue of the task's priority.
PushBack(tasks, n) == Append(tasks, n)

\* Mutant of PushFront: the task goes to the back.
PushFrontLast(tasks, n) == Append(tasks, n)

\* FilesystemTasksScheduler::push_front
PushFront(tasks, n) == <<n>> \o tasks

NothingQueued == \A p \in Priority : queue[p] = <<>>

\* Sender::is_disconnected: the poller has dropped its receiving end.
Connected(w) == poller[w] = "waiting"

\* Mutant of MayPoll: the next task is asked for before the last one has run.
MayPollAhead(w) == poller[w] \in {"idle", "running"}

MayPoll(w) == poller[w] = "idle"

\* Mutant of AllClosed: only the clients' handlers keep the channel open.
AllClientsClosed == open \cap Handlers = {}

\* The channel is disconnected.
AllClosed == open = {}

\* Mutant of PollsLeft: the request that found no task is dropped.
PollsLeftBehind == Tail(polls)

\* tasks_polls when a request found no task and went back to the front.
PollsLeft == polls

\* Mutant of TaskInHand: the task is taken out of last_task before it is sent.
TaskInHandTaken == None

\* What is sent to the poller.
TaskInHand == last_task

\* Mutant of KeptTask: the task goes down with a failed send.
KeptTaskNever(sent) == None

\* Mutant of KeptTask: a task that was sent is kept.
KeptTaskAlways(sent) == last_task

\* last_task after a send.
KeptTask(sent) == IF sent THEN None ELSE last_task

-----------------------------------------------------------------------------

Init ==
  /\ channel = <<>>
  /\ open = Handlers \cup Pollers
  /\ prio = <<>>
  /\ queue = [p \in Priority |-> <<>>]
  /\ polls = <<>>
  /\ pc = "drain"
  /\ cur = None
  /\ last_task = None
  /\ poller = [w \in Pollers |-> "idle"]
  /\ inbox = [w \in Pollers |-> None]
  /\ mark = [w \in Pollers |-> 0]
  /\ dispatched = <<>>
  /\ executed = {}
  /\ discarded = {}

-----------------------------------------------------------------------------
(***************************************************************************)
(* Clients and pollers.                                                    *)
(***************************************************************************)

\* FilesystemTasksHandler::send.
Send(h, p) ==
  /\ h \in open
  /\ Sent < MaxTasks
  /\ prio' = Append(prio, p)
  /\ channel' = Append(channel, PushTask(Sent + 1))
  /\ UNCHANGED open
  /\ UNCHANGED schedulerVars
  /\ UNCHANGED pollerVars

\* A client drops its clone of the handler.
Close(h) ==
  /\ h \in open
  /\ open' = open \ {h}
  /\ UNCHANGED <<channel, prio>>
  /\ UNCHANGED schedulerVars
  /\ UNCHANGED pollerVars

\* FilesystemTasksHandler::poll up to recv(): the request is in the channel
\* and the thread blocks on its receiving end.
Poll(w) ==
  /\ MayPoll(w)
  /\ channel' = Append(channel, PollTask(w))
  /\ poller' = [poller EXCEPT ![w] = "waiting"]
  /\ mark' = [mark EXCEPT ![w] = Sent]
  /\ UNCHANGED <<open, prio, inbox, executed>>
  /\ UNCHANGED schedulerVars

\* recv() returns.
Receive(w) ==
  /\ poller[w] = "waiting"
  /\ inbox[w] # None
  /\ poller' = [poller EXCEPT ![w] = "running"]
  /\ UNCHANGED <<inbox, mark, executed>>
  /\ UNCHANGED clientVars
  /\ UNCHANGED schedulerVars

\* The poller has run the task and will poll again.
Finish(w) ==
  /\ poller[w] = "running"
  /\ poller' = [poller EXCEPT ![w] = "idle"]
  /\ inbox' = [inbox EXCEPT ![w] = None]
  /\ executed' = executed \cup {inbox[w]}
  /\ UNCHANGED mark
  /\ UNCHANGED clientVars
  /\ UNCHANGED schedulerVars

\* The thread ends in the middle of a task (an I/O error panics in storage.rs)
\* and its handler goes with it.
Panic(w) ==
  /\ w \in Fallible
  /\ poller[w] = "running"
  /\ poller' = [poller EXCEPT ![w] = "gone"]
  /\ inbox' = [inbox EXCEPT ![w] = None]
  /\ open' = open \ {w}
  /\ UNCHANGED <<channel, prio, mark, executed>>
  /\ UNCHANGED schedulerVars

\* The holder of a PollTask drops the receiving end before it has read the
\* answer.  poll() itself waits for the answer; the scheduler allows for
\* holders that do not.
Abandon(w) ==
  /\ w \in Impatient
  /\ poller[w] = "waiting"
  /\ poller' = [poller EXCEPT ![w] = "gone"]
  /\ inbox' = [inbox EXCEPT ![w] = None]
  /\ open' = open \ {w}
  /\ UNCHANGED <<channel, prio, mark, executed>>
  /\ UNCHANGED schedulerVars

-----------------------------------------------------------------------------
(***************************************************************************)
(* FilesystemTasksScheduler::update, the body of the scheduler thread.     *)
(***************************************************************************)

\* The first loop of update: one message leaves the channel.
TryRecv ==
  /\ pc = "drain"
  /\ channel # <<>>
  /\ channel' = Tail(channel)
  /\ LET msg == Head(channel) IN
       \/ /\ msg.kind = "PushTask"
          /\ queue' = [queue EXCEPT ![prio[msg.task]] = PushBack(@, msg.task)]
          /\ UNCHANGED polls
       \/ /\ msg.kind = "PollTask"
          /\ polls' = Append(polls, msg.poller)
          /\ UNCHANGED queue
  /\ UNCHANGED <<open, prio, pc, cur, last_task, dispatched, discarded>>
  /\ UNCHANGED pollerVars

\* TryRecvError::Empty, and somebody is waiting.  With nobody waiting update
\* returns and starts again, which changes nothing.
Drained ==
  /\ pc = "drain"
  /\ channel = <<>>
  /\ ~ AllClosed
  /\ polls # <<>>
  /\ pc' = "serve"
  /\ UNCHANGED <<queue, polls, cur, last_task, dispatched, discarded>>
  /\ UNCHANGED clientVars
  /\ UNCHANGED pollerVars

\* TryRecvError::Disconnected: update returns false, the thread of daemonize
\* ends and drops the scheduler with all it holds.
Disconnected ==
  /\ pc = "drain"
  /\ channel = <<>>
  /\ AllClosed
  /\ pc' = "stopped"
  /\ discarded' = {n \in Task : \E p \in Priority :
                                  \E i \in DOMAIN queue[p] : queue[p][i] = n}
  /\ queue' = [p \in Priority |-> <<>>]
  /\ polls' = <<>>
  /\ UNCHANGED <<cur, last_task, dispatched>>
  /\ UNCHANGED clientVars
  /\ UNCHANGED pollerVars

\* The second loop of update.  A request whose receiver is gone is skipped.
SkipPoll ==
  /\ pc = "serve"
  /\ polls # <<>>
  /\ ~ Connected(Head(polls))
  /\ polls' = Tail(polls)
  /\ UNCHANGED <<queue, pc, cur, last_task, dispatched, discarded>>
  /\ UNCHANGED clientVars
  /\ UNCHANGED pollerVars

\* A connected request gets the task left over from a failed send, or else
\* the next one of the queues.
TakeTask ==
  /\ pc = "serve"
  /\ polls # <<>>
  /\ Connected(Head(polls))
  /\ \/ /\ last_task # None
        /\ UNCHANGED <<last_task, queue>>
     \/ /\ last_task = None
        /\ \E p \in Priority :
             /\ IsNextQueue(p)
             /\ last_task' = Head(queue[p])
             /\ queue' = [queue EXCEPT ![p] = Tail(@)]
  /\ cur' = Head(polls)
  /\ polls' = Tail(polls)
  /\ pc' = "send"
  /\ UNCHANGED <<dispatched, discarded>>
  /\ UNCHANGED clientVars
  /\ UNCHANGED pollerVars

\* There is no task: the request goes back to the front of tasks_polls and
\* update returns.
NoTask ==
  /\ pc = "serve"
  /\ polls # <<>>
  /\ Connected(Head(polls))
  /\ last_task = None
  /\ NothingQueued
  /\ polls' = PollsLeft
  /\ pc' = "drain"
  /\ UNCHANGED <<queue, cur, last_task, dispatched, discarded>>
  /\ UNCHANGED clientVars
  /\ UNCHANGED pollerVars

\* sender.send(task) succeeds.
SendOk ==
  /\ pc = "send"
  /\ Connected(cur)
  /\ inbox' = [inbox EXCEPT ![cur] = TaskInHand]
  /\ dispatched' = Append(dispatched, TaskInHand)
  /\ last_task' = KeptTask(TRUE)
  /\ cur' = None
  /\ pc' = "serve"
  /\ UNCHANGED <<queue, polls, discarded, poller, mark, executed>>
  /\ UNCHANGED clientVars

\* sender.send(task) fails: the receiver went away after is_disconnected was
\* asked.  last_task keeps the task for the next request.
SendErr ==
  /\ pc = "send"
  /\ ~ Connected(cur)
  /\ last_task' = KeptTask(FALSE)
  /\ cur' = None
  /\ pc' = "serve"
  /\ UNCHANGED <<queue, polls, dispatched, discarded>>
  /\ UNCHANGED clientVars
  /\ UNCHANGED pollerVars

\* No request is left; a task nobody took goes back to the front of its queue.
Served ==
  /\ pc = "serve"
  /\ polls = <<>>
  /\ \/ /\ last_task # None
        /\ queue' = [queue EXCEPT ![prio[last_task]] = PushFront(@, last_task)]
     \/ /\ last_task = None
        /\ UNCHANGED queue
  /\ last_task' = None
  /\ pc' = "drain"
  /\ UNCHANGED <<polls, cur, dispatched, discarded>>
  /\ UNCHANGED clientVars
  /\ UNCHANGED pollerVars

-----------------------------------------------------------------------------

SchedulerStep ==
  \/ TryRecv  \/ Drained  \/ Disconnected
  \/ SkipPoll \/ TakeTask \/ NoTask
  \/ SendOk   \/ SendErr  \/ Served

PollerStep(w) ==
  \/ Poll(w) \/ Receive(w) \/ Finish(w)

Next ==
  \/ \E h \in Handlers :
       \/ \E p \in Priority : Send(h, p)
       \/ Close(h)
  \/ \E w \in Pollers :
       \/ PollerStep(w)
       \/ Panic(w)
       \/ Abandon(w)
  \/ SchedulerStep

Spec == Init /\ [][Next]_vars

(***************************************************************************)
(* Both threads run their loop for ever (daemonize in scheduler.rs and in  *)
(* worker.rs).  Nothing forces a client to send or to close, nor a poller  *)
(* to fail.                                                                *)
(***************************************************************************)
FairSpec ==
  /\ Spec
  /\ WF_vars(SchedulerStep)
  /\ \A w \in Pollers : WF_vars(PollerStep(w))

-----------------------------------------------------------------------------
(***************************************************************************)
(* Properties.                                                             *)
(***************************************************************************)

InChannel(n)     == \E i \in DOMAIN channel : channel[i] = PushTask(n)
InQueue(p, n)    == \E i \in DOMAIN queue[p] : queue[p][i] = n
WasDispatched(n) == \E i \in DOMAIN dispatched : dispatched[i] = n

\* Every variable has its type; scheduler.rs:35-43 declares the queues.
TypeOK ==
  /\ channel \in Seq(Message)
  /\ open \subseteq Handlers \cup Pollers
  /\ prio \in Seq(Priority)
  /\ Sent <= MaxTasks
  /\ queue \in [Priority -> Seq(Task)]
  /\ polls \in Seq(Pollers)
  /\ pc \in {"drain", "serve", "send", "stopped"}
  /\ cur \in Pollers \cup {None}
  /\ last_task \in Task \cup {None}
  /\ poller \in [Pollers -> {"idle", "waiting", "running", "gone"}]
  /\ inbox \in [Pollers -> Task \cup {None}]
  /\ mark \in [Pollers -> 0 .. MaxTasks]
  /\ dispatched \in Seq(Task)
  /\ executed \subseteq Task
  /\ discarded \subseteq Task

\* A task that was sent is in the channel, in the queue of its priority, kept
\* in last_task, sent to a poller, or dropped with the stopped scheduler: no
\* failed send and no return to the queue loses it (scheduler.rs:98-138).
NothingLost ==
  \A n \in 1 .. Sent :
    \/ InChannel(n)
    \/ InQueue(prio[n], n)
    \/ n = last_task
    \/ WasDispatched(n)
    \/ pc = "stopped" /\ n \in discarded

\* No task is sent to two pollers, or to one poller twice: last_task is the
\* only copy of a task that send() may have to repeat (scheduler.rs:114-124).
AtMostOnce ==
  \A i, j \in DOMAIN dispatched : dispatched[i] = dispatched[j] => i = j

\* When a task is sent to a poller, every task sent before it with the same
\* or a higher priority has been sent to a poller already.  Tasks of one
\* priority keep their order through failed sends and push_front
\* (scheduler.rs:9-19: "after earlier operations").
DispatchOrder ==
  \A j \in DOMAIN dispatched :
    \A n \in 1 .. (dispatched[j] - 1) :
      Rank[prio[n]] <= Rank[prio[dispatched[j]]]
        => \E i \in 1 .. (j - 1) : dispatched[i] = n

\* A poller is never handed a task while a more urgent one, which was in the
\* channel before the poller asked, is still waiting, whatever their order
\* (scheduler.rs:8-9: High "before all the other operations").
UrgentFirst ==
  \A w \in Pollers :
    inbox[w] # None =>
      \A n \in 1 .. mark[w] :
        Rank[prio[n]] < Rank[prio[inbox[w]]] => WasDispatched(n)

\* With one poller, the tasks run one at a time and in the order of dispatch:
\* the "finished" of scheduler.rs:12-14.  With several pollers they may not.
OneAtATime ==
  \A j \in DOMAIN dispatched :
    \A i \in 1 .. (j - 1) : dispatched[i] \in executed

\* The scheduler ends only when nobody is left to wait for it: a thread that
\* polls holds a handler, so it never waits on a stopped scheduler
\* (scheduler.rs:80, worker.rs:38-42).
NobodyStranded ==
  pc = "stopped" => \A w \in Pollers : poller[w] = "gone"

\* A task of any priority is eventually handed to a poller, unless no poller is
\* left, and as long as the tasks are finitely many: a request that found no
\* task is answered later (scheduler.rs:126-131).
EveryTaskDispatched ==
  \A n \in Task :
    (n <= Sent) ~> (WasDispatched(n) \/ \A w \in Pollers : poller[w] = "gone")

=============================================================================
