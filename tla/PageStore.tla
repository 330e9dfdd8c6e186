------------------------------ MODULE PageStore ------------------------------
(***************************************************************************)
(* The filesystem as its worker runs it, one task after the other, on a    *)
(* file it owns (src/filesystem/tasks/worker.rs).  Clients address pages   *)
(* by number: by the numbers CreatePage gave them, and by the numbers of   *)
(* Wild, which nobody gave them (the tests of page.rs, book.rs and         *)
(* entry.rs start from Page::new(0)).                                      *)
(*                                                                         *)
(* The process may end between two tasks, or between the two appends of    *)
(* CreatePage, and come back: FilesystemDriver::new opens the storage,     *)
(* FilesystemWorker::new reads the header, nothing repairs the file.       *)
(***************************************************************************)
EXTENDS PageOps, Functions

CONSTANTS
  Bytes,        \* the byte strings clients write
  Headers,      \* the headers clients write with WritePageHeader
  FsHeaders,    \* filesystem headers: the default one, and those clients write
  Wild,         \* page numbers used without having been created
  LateResize,   \* may the page size change once there are pages?
  MaxPages,     \* bound: pages created
  MaxCrashes    \* bound: how often the process ends

PageSizes == {h.page_size : h \in FsHeaders}
Data      == UNION {Range(bytes) : bytes \in Bytes}

ASSUME PageStoreAssumption ==
  /\ PageNo = 0 .. MaxPages
  /\ Wild \subseteq PageNo
  /\ NoPage \notin PageNo
  /\ Misread \in PageHeader
  /\ PageSizes \subseteq Nat \ {0}
  /\ FsHeaders \subseteq FilesystemHeader(PageSizes)
  /\ LateResize \in BOOLEAN
  /\ Headers \subseteq PageHeader
  /\ Bytes \subseteq Seq(Data)
  /\ Zero \notin PageHeader
  /\ {MaxPages, MaxCrashes} \subseteq Nat

VARIABLES
  worker,    \* FilesystemWorker: the storage and the header it cached
  down,      \* the storage could not be opened again
  reply,     \* the answer to the last task
  granted,   \* history: the pages CreatePage has returned, and for which parent
  kept,      \* history: the complete pages when a page was first torn, or NoPage
  crashes    \* history: how often the process has ended

vars == <<worker, down, reply, granted, kept, crashes>>

Granted     == {granted[i].page : i \in DOMAIN granted}
Addressable == Granted \cup Wild
Neighbour   == Addressable \cup {NoPage}

Init ==
  /\ worker \in {DriverNew(<<>>, h) : h \in FsHeaders}
  /\ down = FALSE
  /\ reply = NoReply
  /\ granted = <<>>
  /\ kept = NoPage
  /\ crashes = 0

-----------------------------------------------------------------------------

\* FilesystemWorker::update for the task t.
Perform(t) ==
  LET done == Execute(worker, t) IN
    /\ ~ down
    /\ worker' = done.worker
    /\ reply' = done.reply
    /\ UNCHANGED <<down, kept, crashes>>

ReadFilesystemHeader ==
  /\ Perform([op |-> "ReadFilesystemHeader"])
  /\ UNCHANGED granted

WriteFilesystemHeader(header) ==
  /\ LateResize \/ granted = <<>>
  /\ Perform([op |-> "WriteFilesystemHeader", header |-> header])
  /\ UNCHANGED granted

CreatePage(parent) ==
  /\ TotalPages(worker) < MaxPages
  /\ Perform([op |-> "CreatePage", parent |-> parent])
  /\ granted' = Append(granted, [page |-> reply'.page, parent |-> parent])

LinkPageForward(n, next) ==
  /\ Perform([op |-> "LinkPageForward", page |-> n, next |-> next])
  /\ UNCHANGED granted

ReadPageHeader(n) ==
  /\ Perform([op |-> "ReadPageHeader", page |-> n])
  /\ UNCHANGED granted

WritePageHeader(n, header) ==
  /\ Perform([op |-> "WritePageHeader", page |-> n, header |-> header])
  /\ UNCHANGED granted

ReadPage(n, offset, length) ==
  /\ Perform([op |-> "ReadPage", page |-> n,
              offset |-> offset, length |-> length])
  /\ UNCHANGED granted

WritePage(n, offset, bytes) ==
  /\ Perform([op |-> "WritePage", page |-> n,
              offset |-> offset, bytes |-> bytes])
  /\ UNCHANGED granted

\* The process ends in the state w of its worker and starts again on the file.
\* With a buffer it cannot, while the file is shorter than that.
Reopen(w) ==
  /\ ~ down
  /\ crashes < MaxCrashes
  /\ crashes' = crashes + 1
  /\ \/ /\ BufOpens(w.io.file)
        /\ worker' = DriverNew(w.io.file, w.header)
        /\ UNCHANGED down
     \/ /\ ~ BufOpens(w.io.file)
        /\ worker' = w
        /\ down' = TRUE
  /\ reply' = NoReply
  /\ UNCHANGED granted

\* Between two tasks.
Restart ==
  /\ Reopen(worker)
  /\ UNCHANGED kept

\* After the first append of CreatePage, whose sender gets no answer.
CrashInCreatePage(parent) ==
  /\ TotalPages(worker) < MaxPages
  /\ Reopen(AppendPageHeader(worker, parent))
  /\ kept' = IF kept = NoPage THEN TotalPages(worker) ELSE kept

Next ==
  \/ ReadFilesystemHeader
  \/ \E header \in FsHeaders : WriteFilesystemHeader(header)
  \/ Restart
  \/ \E parent \in Neighbour : CreatePage(parent) \/ CrashInCreatePage(parent)
  \/ \E n \in Addressable :
       \/ \E next \in Addressable : LinkPageForward(n, next)
       \/ ReadPageHeader(n)
       \/ \E header \in Headers : WritePageHeader(n, header)
       \/ \E offset \in 0 .. worker.header.page_size :
            \/ \E length \in 0 .. worker.header.page_size + 1 :
                 ReadPage(n, offset, length)
            \/ \E bytes \in Bytes : WritePage(n, offset, bytes)

Spec == Init /\ [][Next]_vars

-----------------------------------------------------------------------------
(***************************************************************************)
(* Properties.                                                             *)
(***************************************************************************)

PageOf(w, n) == [header |-> ReadHeaderOf(w, n), body |-> ReadBodyOf(w, n)]

\* The worker has a header to work with, the file has its cells from the first
\* page on, and the buffer keeps to its size (worker.rs:8-22, buf.rs:151-162).
TypeOK ==
  /\ worker.header \in FsHeaders
  /\ \A i \in 2 .. Len(worker.io.file) :
       worker.io.file[i] \in Data \cup {Zero} \cup PageHeader
  /\ Len(worker.io.buf) <= BufSize
  /\ Granted \subseteq PageNo
  /\ kept \in Granted \cup PageNo \cup {NoPage}
  /\ crashes \in 0 .. MaxCrashes

EncodingIsInjective ==
  \A g, h \in FilesystemHeader(PageSizes) :
    FsHeaderToCell(g) = FsHeaderToCell(h) => g = h

\* The header that a worker started on this file would work with is the one the
\* present worker works with, settings for names included, and no two headers
\* look the same in the file (header.rs:51-127, worker.rs:55-59).
HeaderSurvives ==
  /\ FsHeaderFromCell(worker.io.file[1]) = worker.header
  /\ EncodingIsInjective

\* The buffer holds the first cells of the file, as many as it has room for,
\* however writes in place, appends and restarts follow each other: a read
\* cannot tell whether there is a buffer (buf.rs:5-6, and 238-239 of its test).
BufferHoldsPrefix ==
  worker.io.buf = Take(worker.io.file, BufSize)

\* A task, and a crash in the middle of one, changes at most one of the pages
\* that were given out, and of that page the header or the body: no write spills
\* over into a neighbour, no page lands on another, and a torn page harms none of
\* the complete ones (worker.rs:61-183).
ChangesOnePartOfOnePage ==
  [][ LET Header == {n \in Granted :
                       ReadHeaderOf(worker, n) # ReadHeaderOf(worker', n)}
          Body   == {n \in Granted :
                       ReadBodyOf(worker, n) # ReadBodyOf(worker', n)}
      IN  /\ Header = {} \/ Body = {}
          /\ \A m, n \in Header \cup Body : m = n
          /\ TotalPages(worker') # TotalPages(worker) =>
               Header \cup Body = {} ]_vars

\* What CreatePage returns is a number nobody holds yet, and the page behind
\* it has the parent asked for, no next page and an empty body (tasks.rs:16-28:
\* "assigned to the next available number", and linked with its parent alone).
CreatedPageIsFresh ==
  [][ granted' # granted =>
        LET new == granted'[Len(granted')] IN
          /\ new.page \notin Granted
          /\ PageOf(worker', new.page) =
               [header |-> [prev |-> new.parent, next |-> NoPage],
                body   |-> Zeros(worker.header.page_size)] ]_vars

\* The pages there are, without those that came after a torn one.
Promised == IF kept = NoPage THEN TotalPages(worker) ELSE kept

\* Pages and answers as the holder of page numbers sees them.
Table ==
  INSTANCE PageTable WITH
    pages     <- [i \in 1 .. Promised |-> PageOf(worker, i - 1)],
    page_size <- worker.header.page_size,
    whole     <- kept = NoPage,
    Beyond    <- PageNo

\* Clients that keep to the numbers they were given see a table of pages: the
\* worker's arithmetic on one file, read and written through the buffer,
\* implements PageTable across restarts.
ImplementsPageTable == Table!Spec

=============================================================================
