----------------------------- MODULE TaskService -----------------------------
(***************************************************************************)
(* The filesystem as its clients use it: requests sent to the scheduler    *)
(* (TaskScheduler), taken from it by the worker's thread and executed on   *)
(* its file (PageOps), answered over the channel each request carries.     *)
(*                                                                         *)
(* A sender that waits finds its channel closed when the request is        *)
(* dropped without an answer.  Everybody panics then, except Page::write   *)
(* (page.rs:241), for which a closed channel is also the normal answer: a  *)
(* WritePage whose bytes fit sends none (worker.rs:178-180).               *)
(*                                                                         *)
(* FilesystemDriver starts without threads of its own.  Its owner either   *)
(* daemonizes it, once, or calls update, which runs one round of the       *)
(* scheduler and then one task in the owner's thread (driver.rs:31-40).    *)
(***************************************************************************)
EXTENDS TaskScheduler, PageOps

CONSTANTS
  Requests,   \* the requests clients send
  Header      \* the default header of the filesystem

\* The variants of FilesystemTask.
Operations ==
  {"ReadFilesystemHeader", "WriteFilesystemHeader", "CreatePage",
   "LinkPageForward", "ReadPageHeader", "WritePageHeader", "ReadPage",
   "WritePage"}

ASSUME ServiceAssumption ==
  /\ Header \in FilesystemHeader(Nat \ {0})
  /\ \A t \in Requests : t.op \in Operations

VARIABLES
  driver,     \* FilesystemDriver: where its owner's thread is
  request,    \* request[n] is what task n asks for
  worker,     \* FilesystemWorker: the storage and the header
  answer      \* answer[n] is what the sender of task n has received

\* The sender is still waiting.
NoAnswer == [waiting |-> TRUE]

serviceVars == <<vars, driver, request, worker, answer>>

\* What recv() makes of a channel closed without an answer.
Closed(t) ==
  IF t.op = "WritePage" THEN [bytes |-> <<>>] ELSE [closed |-> TRUE]

ServiceInit ==
  /\ Init
  /\ driver = "attached"
  /\ request = <<>>
  /\ worker = DriverNew(<<>>, Header)
  /\ answer = <<>>

SendRequest(h, p, t) ==
  /\ Send(h, p)
  /\ request' = Append(request, t)
  /\ answer' = Append(answer, NoAnswer)
  /\ UNCHANGED <<driver, worker>>

\* FilesystemDriver::daemonize: the scheduler and the worker get threads.
Daemonize ==
  /\ driver = "attached"
  /\ driver' = "daemonized"
  /\ UNCHANGED vars
  /\ UNCHANGED <<request, worker, answer>>

\* FilesystemDriver::update is called; it begins with the scheduler's update.
Update ==
  /\ driver = "attached"
  /\ driver' = "updating"
  /\ UNCHANGED vars
  /\ UNCHANGED <<request, worker, answer>>

\* The scheduler's update has emptied the channel and has nobody to serve;
\* the worker polls, in the same thread, and blocks.
UpdatePolls(w) ==
  /\ driver = "updating"
  /\ pc = "drain"
  /\ channel = <<>>
  /\ polls = <<>>
  /\ Poll(w)
  /\ driver' = "blocked"
  /\ UNCHANGED <<request, worker, answer>>

\* FilesystemWorker::update has its task: the match runs to the end.
RunTask(w) ==
  /\ Finish(w)
  /\ LET n    == inbox[w]
         done == Execute(worker, request[n])
     IN  /\ worker' = done.worker
         /\ answer' = [answer EXCEPT ![n] = done.reply]
  /\ driver' = IF driver = "blocked" THEN "attached" ELSE driver
  /\ UNCHANGED request

\* The thread panics before the file is changed, and drops the request.
DropTask(w) ==
  /\ Panic(w)
  /\ LET n == inbox[w] IN
       answer' = [answer EXCEPT ![n] = Closed(request[n])]
  /\ UNCHANGED <<driver, request, worker>>

\* Mutant of DropQueues: the senders of the dropped requests wait for ever.
DropQueuesSilently ==
  /\ Disconnected
  /\ UNCHANGED <<driver, request, worker, answer>>

\* The scheduler's thread ends and drops the requests it holds.
DropQueues ==
  /\ Disconnected
  /\ answer' = [n \in DOMAIN answer |->
                  IF n \in discarded' THEN Closed(request[n]) ELSE answer[n]]
  /\ UNCHANGED <<driver, request, worker>>

\* Mutant of SchedulerRuns: it also runs while the owner's thread polls.
SchedulerAlwaysRuns == driver # "attached"

\* Some thread runs the scheduler: its own, or the owner's inside update.
SchedulerRuns == driver \in {"updating", "daemonized"}

OtherStep ==
  /\ \/ \E h \in Handlers : Close(h)
     \/ \E w \in Pollers :
          \/ driver = "daemonized" /\ Poll(w)
          \/ Receive(w)
     \/ /\ SchedulerRuns
        /\ \/ TryRecv  \/ Drained \/ SkipPoll
           \/ TakeTask \/ NoTask  \/ SendOk   \/ Served
  /\ UNCHANGED <<driver, request, worker, answer>>

ServiceNext ==
  \/ \E h \in Handlers, p \in Priority, t \in Requests : SendRequest(h, p, t)
  \/ Daemonize \/ Update
  \/ \E w \in Pollers : UpdatePolls(w) \/ RunTask(w) \/ DropTask(w)
  \/ SchedulerRuns /\ DropQueues
  \/ OtherStep

ServiceSpec == ServiceInit /\ [][ServiceNext]_serviceVars

-----------------------------------------------------------------------------
(***************************************************************************)
(* Properties.                                                             *)
(***************************************************************************)

\* The filesystem after the first n requests, had they been executed one by
\* one as they were sent, and the answer to the last of them.
InOrderOfSending ==
  LET after[n \in 0 .. Sent] ==
        IF n = 0 THEN Done(DriverNew(<<>>, Header), NoReply)
        ELSE Execute(after[n - 1].worker, request[n])
  IN  after

\* As long as all requests have the same priority, each is answered as if all
\* of them were executed one by one in the order of sending, whoever sent them
\* and however far the scheduler and the worker are behind.  Page, Book and
\* GenericBTree send everything with normal priority (handler.rs:33-36) and
\* rely on a request without an answer taking effect before the next one.
RepliesInOrderOfSending ==
  (\A m, n \in 1 .. Sent : prio[m] = prio[n]) =>
    \A n \in executed : answer[n] = InOrderOfSending[n].reply

\* A request is answered once it has been executed or dropped, never before:
\* while a request is on its way its sender waits (page.rs:159-190).
AnsweredWhenOver ==
  \A n \in 1 .. Sent :
    answer[n] = NoAnswer <=>
      \/ InChannel(n) \/ InQueue(prio[n], n) \/ n = last_task
      \/ \E w \in Pollers : inbox[w] = n

\* Without threads nothing is ever executed: update polls in the thread that
\* would have to run the scheduler to answer it, and does not come back,
\* whatever is queued (worker.rs:34-44, "Poll filesystem task from the scheduler
\* and execute it").
NothingRunsInline == executed # {} => driver = "daemonized"

\* When Page::write returns no remaining bytes, they have been written
\* (page.rs:222-223).
WriteIsDone ==
  \A n \in 1 .. Sent :
    (request[n].op = "WritePage" /\ answer[n] = [bytes |-> <<>>])
      => n \in executed

=============================================================================
