# animefs in TLA+

Models of [animefs](https://github.com/krypt0nn/animefs), an experimental
filesystem in one file, checked with TLC and proved about with TLAPS. File and
line references are to `src/` of the repository.

Run a model with `tlc -workers 2 -config <run>.cfg <MC module>.tla`, check the
proofs of a module with `tlapm <component>Proofs.tla`. `PROJECT.json` lists the runs,
the lines each definition models, the hazards, the findings, the mutants and the
theorems.

## The system

Clients hold page numbers, books or trees and turn every operation into *tasks*.
Tasks travel over one channel to the scheduler, which queues them by priority;
the worker polls the scheduler for one task at a time and executes it on the
file it owns. Most tasks carry a one-shot channel for their answer.

| component | state | operations | talks to |
|---|---|---|---|
| `TasksScheduler` (scheduler.rs) | three queues, pending polls, the receiving end of the channel | `update` (drain, then serve), `push`, `push_front`, `poll` | handlers and pollers, over the channel |
| `TasksHandler` (handler.rs) | a sending end of the channel; clones freely | `send` with a priority, `poll` | scheduler |
| `FilesystemTask` (tasks.rs) | eight kinds of task, with a sender for the answer | | |
| `FilesystemWorker` (worker.rs) | the storage, the cached filesystem header, a handler | `update`: poll, then one arm per kind of task | scheduler, storage |
| `StorageIO` (storage.rs) | a file | `read`, `write`, `append`, `len` | |
| `BufStorageIO` (buf.rs) | a file and a buffer of its first bytes | the same | storage |
| `FilesystemDriver` (driver.rs) | the worker until it is daemonized, a handler | `new`, `update`, `daemonize`, `read_header`, `write_header` | scheduler, worker |
| `Page` (page.rs) | a page number, a handler | `read`, `write`, headers, `create_next_page` | scheduler |
| `Book` (book.rs) | the first page, the page size it was opened with | `read`, `write`, `pages` | pages |
| `GenericBTree` (tree.rs, record.rs) | the root page, the page size | `insert`, `max_records` | scheduler |
| `FilesystemTree` (entry.rs) | a book, the address of the last entry | `insert_child`, `insert_sibling`, readers | book |
| `FilesystemHeader` (header.rs), `checksum.rs`, `compression.rs` | none | codecs | |
| `error_code.rs` | not compiled (lib.rs:4-5) | | |

The behaviours that are hard to test:

* *Threads.* The scheduler and the worker run in threads of their own, clients in
  any number of others. A poller can go away between `is_disconnected` and
  `send`; a client's operation is a sequence of tasks between which others run.
* *Order.* Several tasks have no answer, and clients rely on the worker running
  them before what they send next. Priorities reorder tasks, failed sends put
  them back.
* *Failure.* I/O errors panic the worker's thread with a task in hand. The
  process can die between the two appends of `CreatePage` and between the tasks
  of one operation.
* *Arithmetic.* Pages are found by multiplication and numbered by division of
  the file's length; records overlap their neighbours by four bytes.
* *Liveness.* Polls that wait for a task, loops that follow links.
* *Copies.* The buffer of the storage, the header the worker caches, the page size
  a book was opened with, the buffer of a reader of entries and the last address
  each clone of a tree remembers: all copies of something on disk.

What makes each component correct: the scheduler loses, repeats and reorders
nothing and strands nobody; the worker's arithmetic gives a table of independent
pages, across restarts and whether there is a buffer or not; a book is one array of
bytes over a chain of pages that stays a chain; a tree finds what was inserted and
`insert` returns; entries keep what is linked under them.

## The modules

| module | models | correspondence |
|---|---|---|
| `TaskScheduler` | scheduler.rs, handler.rs, the threads that poll | `channel`, `queue`, `polls`, `last_task` are the variables of the code. `update` is cut where another thread can come between: one `try_recv` (`TryRecv`), its two ends (`Drained`, `Disconnected`), `is_disconnected` and the choice of a task (`SkipPoll`, `TakeTask`, `NoTask`), `send` (`SendOk`, `SendErr`), the end of the loop (`Served`). A task is the number of its send |
| `StorageIO` | storage.rs | reads, writes and appends as functions on a sequence of cells; one cell is one byte, or one whole header, which the code always reads and writes in one call |
| `BufStorageIO` | buf.rs | the same on a record of file and buffer, and `new`, which panics on a file shorter than the buffer (`BufOpens`) |
| `FsHeader` | header.rs | the header and both directions of its encoding, bit by bit for the flags |
| `PageOps` | worker.rs, `FilesystemDriver::new` | the eight arms of the match as functions from the worker's state to its next state and the answer; `DriverNew` opens a file |
| `PageStore` | the worker executing tasks one after the other | one action per task; `Restart` between two tasks, `CrashInCreatePage` between the two appends of `CreatePage` |
| `PageTable` | tasks.rs, the promise | the abstract specification: numbered pages with a header and a body, no offsets |
| `TaskService` | driver, scheduler, worker and file together | composes `TaskScheduler` and `PageOps`: `RunTask` is the poller's `Finish` plus the execution of the request, `DropTask` its `Panic`, `DropQueues` the end of the scheduler. `driver` says whose thread runs the scheduler: `Daemonize`, or `Update` and `UpdatePolls` without threads |
| `BookClients` | book.rs, `create_next_page` | one action per task of `read`, `write` and `create_next_page`; clients interleave; extends `PageTable` |
| `BTree` | tree.rs, record.rs | one action per task of `insert`; extends `PageTable` |
| `EntryTree` | entry.rs, and the pages of its book | one action per access to the book: `WriteEntry`, `Count`, `Link` and `Place` are the writes of the two insertions, which `pc` orders differently; `Step` and the actions on `NoMore` are one `next` of a reader with its buffer. An access that goes beyond the linked pages waits until its call has added one: `Missing` finds that there is no next page, `Extend` creates and links one, and other clones come between. Clones share the book and each has its `last`; `Crash` opens it again |
| `TaskSchedulerProofs`, `TaskRequestProofs` | | theorems about `TaskScheduler`: the way of the tasks, and that of the polls |
| `TaskServiceProofs`, `PageStoreProofs`, `BookClientsProofs`, `EntryTreeProofs`, `BTreeProofs` | | theorems about the module of that name |
| `NumberInduction` | | induction on the natural numbers, for the proofs |
| `MC*` | | values of the constants for TLC |

The layers fit together through three facts. `PageStore` implements `PageTable`
(run `pages`), so that books and trees can be modelled on the table.
Requests of one priority take effect in the order of sending (run `service`), so
that one step of a client can be "send a task and have it executed": everything
in page.rs, book.rs and tree.rs is sent with normal priority. Tasks are
eventually executed (`EveryTaskDispatched`), which is the fairness of the clients.

Data is abstract: bytes are model values, a header is a record in one cell, an
address of a record is a cell. What the code tells apart is kept: a header
without flags is read from zeros; data read as a header gives some other header
(`Misread`); an address is set or not by a flag in the record, once for each of
the two records that share the cell. Because a header is one cell, the end of the
buffer of buf.rs falls between cells; the code copies byte by byte, and nothing in
it depends on where a header begins. `EntryTree` counts addresses in entries instead
of bytes. An access to the book is one step there when all it needs is on linked pages,
although it is several tasks when the entry lies across two pages; one that needs
another page, a read as well as a write, first adds it in two steps (`Missing`,
`Extend`). When two clones add a page behind the same one, the second link unlinks the
first page (`book_race`): `Extend` sets `raced`, empties what was on that page, and the
model ends there.

A crash is a restart of the process on the same file. Between two tasks it must not
be seen at all, so `PageTable!Restart` changes nothing. When it comes inside
`CreatePage` the file ends with a torn page; the complete pages are then kept
(`kept`, `whole`): no step changes them. No answer is promised any more, though, to
tasks on these pages either: the table does not know which page an answer is about.
A file shorter than the buffer cannot be opened again (buf.rs:24): `down` is set and no
task runs any more.

## The runs

Passing runs. Every property also has a mutant of the code under which TLC finds
it violated; the mutants stand before the definitions they change.

| run | what it asks | bounds, and why they are enough |
|---|---|---|
| `scheduler_two_pollers` | nothing lost, repeated, reordered; more urgent tasks first; nobody stranded; every task dispatched unless no poller is left | 3 tasks of any priority: two that keep their order and one that returns to the front. 2 pollers, both of which may panic and one of which may also go away while it waits: a failed send needs a second one to take the task over, and the scheduler stops when both are gone |
| `service` | tasks of one priority take effect and are answered in the order of sending; one at a time; a sender waits just as long as its request is on its way; nothing is executed without threads | 3 requests out of create, write and read of one page and a change of the page size, whose answers tell the order; driven by `update` or daemonized, at any time |
| `pages` | the file arithmetic implements the table of pages, through the buffer and across a restart; the buffer is the start of the file; the header in the file is the one in use; a step changes one part of one page that was given out | 2 pages of 1 or 2 bytes, all offsets and lengths to one beyond the page, byte strings that fit and that do not: a neighbour on either side of every boundary. A buffer of 3 cells ends inside page 0 or right behind it. One restart or torn `CreatePage` at any time, tasks before and after it. Two filesystem headers that differ in everything; that the encoding tells headers apart is evaluated for all of them |
| `book` | links agree, the chain ends, reads are never short, reads return what was written when calls do not overlap, calls return | 2 clients, 3 calls over 3 bytes in pages of 1 and of 2 bytes: two clients at the same last page and one call that follows; reads and writes inside a page, across a boundary, beyond the end |
| `btree` | until a left address is overwritten, keys are found with their last value, and once, and `insert` returns; pages used; `max_records` | one record per page and 3 keys in any order with repetition; two records per page and the same, 4 keys in every order and 5 in the orders of the tests; three records per page and 4 or 5 keys; pages with an overhang and 2 keys with repetition or 3 without. Up to 5 pages, trees of several levels, and overwritten addresses in some of the runs |
| `entries` | until a page is unlinked: links lead to entries; new addresses are not those of linked entries; an undisturbed reader follows the links; calls return | 2 clones, 4 calls, pages and a buffer of 2 entries, a crash at any step: enough for a clone with an old `last`, for an insertion after a crash inside another one, for chains that leave the buffer forwards and backwards, and for two clones that add a page at the same place |

Runs that show a disagreement (`findings` in `PROJECT.json` quotes the lines):

| run | property | what happens |
|---|---|---|
| `entries_lost` | `EntriesStay` | a reader never returns an entry without a successor (entry.rs:180-194), against entry.rs:100-107 and the test of entry.rs:405-408. For the only entry there is it returns nothing: `insert_sibling` takes the entry for absent (entry.rs:371) and writes the new one over it, and `insert_child` puts the second child in place of the first (entry.rs:323) |
| `btree_two_records` | `EveryKeyIsFound` | rewriting a record zeroes the left address of the next one (tree.rs:142-148); its subtree is lost, and the search goes to page 0 instead |
| `btree_overhang` | `EveryInsertReturns` | tree.rs:174 finds room that the scan does not; `insert` writes and reads the same page for ever |
| `book_race` | `ReturnedIsLinked` | two concurrent `create_next_page` on one page; the page of the first caller is unlinked by the second |
| `service_panic` | `WriteIsDone` | a worker that panics looks like a finished write to `Page::write` (page.rs:241) |
| `pages_wild` | `CreatedPageIsFresh` | page 0 used before it was created, as in the tests; the next `CreatePage` returns its number and lands behind its bytes |

One disagreement is a property of a passing run: `NothingRunsInline` in `service`
shows that `FilesystemDriver::update` never executes a task, contrary to
driver.rs:31 and worker.rs:34.

The other properties of `EntryTree` say what holds besides `EntriesStay`, and under
which conditions. `LinksLeadToEntries` holds for any clones until a page is unlinked
(`raced`); afterwards an entry may have been written to the page that was lost, and its
link leads to zeros. It is enough for this that one clone writes while another reads,
since reads add pages as well; `book_race` shows the race itself. `NewEntryIsNew` and
`CallsReturn` also need `sole`: one clone alone is written through, and no crash comes
between the link and the counter of `insert_sibling`. Each condition is needed: without it TLC finds an insertion that takes
the address of an entry in the tree, which is hazard and not property, as nothing in the
repository promises otherwise. `NewEntryIsNew` is about new addresses; the arm of
`insert_sibling` that takes none is the subject of `EntriesStay`. `ReadFollowsLinks` says
that a reader leaves out none *but possibly* the last entry: it holds of the code as it
is, and would of a reader that returns the last one. Sibling links come from
callers only (`Edit`, the public `write`), for want of any that `insert_child` makes.

`spoilt` of `BTree` becomes true when a record is written with another address, or none,
over a left address of the record behind it that is in use: what `btree_two_records` runs
into. The first three of the row `btree` hold until then, for every order of keys.

Deadlock is checked in `pages_wild`, where the worker can always take another task.
In `pages` it stops when the storage cannot be opened again, in
`entries` when a page is unlinked. The others stop when the bounded number of tasks,
calls or keys is used up.

### Fairness

`FairSpec` of `TaskScheduler`: weak fairness of the scheduler's thread as a whole
and of each poller's thread (poll, receive, finish), because both run a loop
without end (`daemonize` in scheduler.rs:67-75 and worker.rs:193-205) and block
only in `recv`. Nothing makes a client send or close, nor a poller fail. No fairness
is put on single steps of the scheduler: they exclude one another.
`FairBookSpec` and `FairTreeSpec`: weak fairness of a client inside a call. Its
tasks are answered, by `EveryTaskDispatched`, and the code between is straight.
`FairSpec` of `EntryTree`: the same, for calls of the book, which return by
`EveryCallReturns`. `MaxWalk` stops a reader that has returned as many entries as
there are addresses: it runs in a cycle, and counts as a call that never returns.

## What is proved

Every theorem holds for all values of the constants that the named assumption of
its module allows; the assumptions say what kind of thing a constant is (numbers,
sequences, values that are no numbers) and nothing about how many there are. The
bounds (`MaxTasks`, `MaxCalls` and so on) are constants like the others: nothing
depends on their size. Hypotheses that go further are in the statements.

### The scheduler (`TaskSchedulerProofs`, `TaskRequestProofs`)

For any number of handlers, pollers and tasks, and for any sets of fallible and
impatient pollers:

| theorem | property |
|---|---|
| `TypeCorrect` | `TypeOK` |
| `NoTaskIsLost` | `NothingLost` |
| `NoTaskIsRepeated` | `AtMostOnce` |
| `TasksAreOrdered` | `DispatchOrder` |
| `NoPollerIsStranded` | `NobodyStranded` |
| `UrgentTasksFirst` | `UrgentFirst` |
| `OneWorkerRunsOneTask` | `OneAtATime`, for one poller, which is what the driver has |

`TypeOK` alone is not inductive: `SendOk` sends `last_task`, which is a task only
because of where `pc` is. `TInv` adds that (`cur` and `last_task` are set when
`pc = "send"`) and what the pollers hold. For the order, think of the way from the
clients to the pollers as one line for every priority: dispatched tasks, the task
in hand, the queue, the channel. `OrderInv` says that along this line the tasks
appear in the order of their numbers, each once, and that together these places
hold all of them:

* `FlightInv`: whatever is in one of the places was sent, and a task in a queue has
  the priority of that queue;
* `SortedInv`: the channel and every queue ascend;
* `ChannelInv`: the tasks in the channel are younger than all that have left it;
* `LastInv`: the task in hand is older than its queue, and the older tasks of its
  priority and of the higher ones have been dispatched;
* `GoneInv`: a dispatched task is neither in hand nor in a queue;
* and the three properties themselves, which a step preserves only together with
  these.

Each action moves one element along the line (`TryRecvStep`, `TakeTaskStep`,
`SendOkStep`, `ServedStep`) or none (`QuietStep`, `ChannelGrows`); `ServedStep` is
where `push_front` rather than `push_back` is needed. `NothingLost`, `AtMostOnce`
and `DispatchOrder` are read off `OrderInv`. `NobodyStranded` needs `HoldersInv`
only: a poller's handler is open until the poller is gone, and the thread stops
only when none is open.

The polls take the same way. `RequestInv`: who has a request under way waits or is
gone (`AskingInv`), has only one (`SingleInv`), and every task that is in the channel
behind the request was sent after it (`MarkInv`); no queue holds a more urgent task
than the one in hand (`HandInv`). A more urgent task that was sent before the poll
has therefore left the channel when the poll is served, and from the queues the
scheduler takes the most urgent one. `OneAtATime` follows from `RunInv`: the one
poller asks again only when it has run what it got.

### The service (`TaskServiceProofs`)

| theorem | property |
|---|---|
| `ServiceIsScheduled` | every behaviour of the service is one of `TaskScheduler`, so that all of the above holds for it |
| `SendersWaitNoLonger` | `AnsweredWhenOver` |
| `NothingRunsWithoutThreads` | `NothingRunsInline` |
| `RequestsRunOneAtATime` | `OneAtATime`, for one poller |
| `RepliesAreInOrder` | `RepliesInOrderOfSending`, for one poller |

`DeliveryInv` adds to the scheduler's invariants that pollers hold dispatched tasks,
each its own, and that nothing is left in a stopped scheduler. A request is `Over`
when it was discarded, or dispatched and not in a poller's hands any more; `AnswerInv`
says that exactly these have an answer. `InlineInv`: while the driver has no threads
nothing leaves the scheduler, and the first `poll` blocks the thread that would serve
it. For the order of replies, `ReplyInv` compares with the run that executes the
requests in the order of sending: when all have one priority, what was dispatched is
an initial part of it, and the worker is where that run is after the tasks it has
executed. That such a run exists is an induction on its length
(`NumberInduction!SetInduction`).

### The pages (`PageStoreProofs`)

| theorem | property | hypothesis |
|---|---|---|
| `StoreTypeCorrect` | `TypeOK` | |
| `HeaderIsKept` | `HeaderSurvives` | |
| `BufferIsPrefix` | `BufferHoldsPrefix` | `Orderly` |
| `ImplementsTable` | `ImplementsPageTable`, the refinement of `PageTable` | `Orderly` |
| `OnePartOfOnePage` | `ChangesOnePartOfOnePage` | `Orderly` |

For any number of pages, any page sizes and headers, any size of the buffer and any
number of restarts and of crashes inside `CreatePage`. `Orderly` is `Wild = {}` and
`~ LateResize`: clients use the page numbers they were given, and the page size is
chosen before the first page. The code checks neither, and both are needed: in
`pages_wild` a wild number breaks `CreatedPageIsFresh`, and another page size moves
all pages. The buffer needs the first as well: a write that begins behind the size of the
buffer while the file is shorter than that (buf.rs:98) makes the file grow and not the
buffer, and the next append goes to different places in the two. With `Wild = {0}`,
`BufSize = 3` and two pages TLC finds `BufferHoldsPrefix` violated and, one `CreatePage`
later, a read of page 0 that answers with the header of page 1. `HeaderIsKept` needs no such rule: no client reaches the header of the
file by way of a page, and what is written as a header is read as that header
(`FilesystemHeaderCodec`).

`StoreInv` says that the worker is sound: the first cell of the file is the header it
has cached, the cells behind it are cells of pages. `PlaceInv` says where the pages
are: the buffer is the start of the file; every page that was given out lies in the
file; before the first torn page the file ends with the last page and the pages were
given out in their order; afterwards the `kept` ones are still there. On this rest the
lemmas about the parts of a worker's arithmetic: a write at an offset changes the file
and the buffer alike (`SoundWrite`, `SoundAppend`), two parts of pages do not overlap
(`PagesAscend` and the lemmas on positions), writing a header or a body changes the
view of one page alone (`HeaderEffect`, `BodyEffect`), an appended page changes none
and is blank (`Growth`, `NewPageInView`). For the refinement, `View` is what the
mapping gives for a worker; each task is shown to be the operation of `PageTable` on the
`View`, and a crash inside `CreatePage` to be a `Restart` of it.

The attempt to prove `ChangesOnePartOfOnePage` showed that it was false as first
stated, about all pages that are complete in the file: after two crashes in
`CreatePage` the two torn headers can have the length of a page, which the run, with
one crash, did not reach. It is now about the pages that were given out.

### Books (`BookClientsProofs`)

| theorem | property |
|---|---|
| `BookTypeCorrect` | `BookTypeOK` |
| `ChainLinksAgree` | `LinksAgree` |
| `ChainLeadsForward` | `ChainHasNoLoop` |
| `ReadsAreComplete` | `ReadIsComplete` |
| `BookIsAnArray` | `ReadsWhatWasWritten` |

For any number of clients, calls and bytes, any page sizes and byte strings.
`LinksAgree` is not inductive by itself: between the creation of a page and the link
to it, the page must know its parent and be younger (`PendingInv`), also when other
clients link pages to that parent meanwhile. `ReadInv` counts what a read has and what
it lacks. `BookIsAnArray` is about calls that do not overlap; `ArrayInv` holds until
the first ones do. `Position` is the offset in the book that a call has come to;
`RowInv`: the chain goes through the pages in their order, so that a step along a
link is a step of one page in the book; `TailInv`, `WantInv`: what is left to write
and what was read so far agree with `expected` at that position; `BodyInv`: all bytes of
the book but those still to be written are the expected ones.

### Entries (`EntryTreeProofs`)

| theorem | property |
|---|---|
| `EntriesTypeCorrect` | `EntriesTypeOK` |
| `LinksAreBacked` | `LinksLeadToEntries` |
| `ReadsFollowLinks` | `ReadFollowsLinks` |
| `NewEntriesAreNew` | `NewEntryIsNew` |

For any number of clones, calls, crashes and names, any size of the buffer and of a page.
The last three are about what comes before a page is unlinked (`~ raced`, which `quiet`
includes).
`TreeInv` follows every link on its way into the book: those in an entry that a call
holds, has in its buffer or has read lead to entries that were written, but for
the one that `insert_sibling` is about to write (`SolidInv`, `OrderInv`). `FollowInv`
compares the buffer and the entries read with the book while nobody writes; a chain is
left at an entry without a link, or before one, which is all that `ReadFollowsLinks`
claims of its end. `SoleInv` is what holds while one clone alone writes: links lead to
addresses that the counter has passed or the clone is about to count (`SettledInv`), and
a new address is beyond the counter (`OwnInv`). Adding a page behind the last one changes
no entry (`GrowEntries`), so that all of the above stays until one is unlinked (`PagedInv`,
`SolePagedInv`). `ReachableStaysIn`, by induction, takes this from single links to
everything that can be reached.

### The B-tree (`BTreeProofs`)

| theorem | property | hypothesis |
|---|---|---|
| `TreeTypeCorrect` | `TreeTypeOK` | |
| `MaxRecordsCount` | `MaxRecordsFit` | |
| `KeysAreFound` | `FoundUnlessSpoilt` | `RoomForRecords` |
| `KeysAreOnce` | `OnceUnlessSpoilt` | `RoomForRecords` |

For any keys in any order, any values, any number of pages and any number of records in
a page. The first two hold for every page size of at least two cells, calls that never
return included. `TreeInv`: where a page has addresses, it has zeros or numbers of pages,
and where it has the rest of a record, zeros or the rest of a record; a call writes
records at even offsets only, so that this stays so although records overlap
(`PutKeeps`). `OffsetsCounted` counts the offsets of a scan by a bijection.

`RoomForRecords` says that a page has room for a record at all: `max_records` is
positive for every page size in use. What remains is the descent with all its
interruptions: a record is read by one task and written by a later one, a page is
created by one task and linked by the next, and neighbouring records share an address.
The properties hold until `spoilt`: the code does overwrite addresses that are in use,
and they are false then (`btree_two_records`). So the theorems say that this overlap is
the *only* way in which the tree loses or repeats a key: not the order of insertions,
nor the filling of pages, nor where a call was interrupted. Pages whose
size lets tree.rs:174 write behind the last record are included: the call never returns
there (`btree_overhang`), but nothing is lost.

The argument has a part about one page and a part about the tree. In a page, the records
with a key come first and ascend (`Ordered`); what the scan of `insert` finds is then the
same as what order alone defines, namely where key `k` goes from page `n` (`Way`,
`Scanned`, `BetweenIsWay`). A write of one record changes that record and the address it
shares with either neighbour, and unless that address was in use all other ways stay
(`AtRecord`, `WayNew`, `WayLinked`, `WaySame`).

The properties are about searches from page 0. `FoundInv` therefore names, for every page
`n`, the set `R[n]` of the keys that a search brings to it (`Divided`): page 0 has all of
them; the keys in a page are in its set; a page sends every other key in its set either
nowhere or to a later page that has it in its set; and when two pages both have a key in
their sets, the earlier one sends it on. The last part is what an insertion could break: a
new page takes the keys that its parent sent nowhere, and no page behind the parent has
one of these (`LinkChildFound`). `Arrived` and `Decided` tie the call to the table: it is
at a page that has its key in the set, and what it read still stands. From `Divided`
follows that a search can end in one page only (`OneEnd`), hence that keys are apart
(`KeysApart`), and that the search for a key passes by the page that has it
(`SearchFinds`); that the recursive `SearchPath` is a path at all is an induction
(`NumberInduction!IterationExists`). `Remembered` relates the pages to the history: each
key has its last value.

## What is checked by TLC only

* Liveness, which is out of the reach of the prover: `EveryTaskDispatched`,
  `EveryCallReturns`, `InsertReturns`, `CallsReturn`.
* `PagesUsed`: that ascending keys fill every page and descending ones take a page
  each, for up to 5 keys in pages of up to three records.

## What is not modelled

* Several clients of one B-tree, and page sizes changed while pages exist: the code
  protects neither. `PageStore!LateResize` allows the second.
* A single `write` or `append` that is done in part, and 64-bit overflow of
  offsets (a page number of 32 bits times a page size below 2^31 stays in range).
* What is lost of a file's last writes when the machine, and not only the process,
  stops: the code calls `flush`, which for a `File` does nothing.
* The inode of an entry, which nothing in entry.rs looks at, and names whose hash is 0.
* Accesses to a book that overlap inside one entry: `EntryTree` takes an access to
  linked pages as one step. A reader's buffer is filled in one step as well, though it
  may come from several pages.
* What calls on entries do after a page of their book was unlinked: `EntryTree` ends
  there.
* Checksums and compression, which nothing calls; `error_code.rs`, which is not
  compiled.

## Plan

`PagesUsed` for keys in ascending order and every page size, as in tree.rs:280-296; the
properties of entries after a page was unlinked, for the clones that stay on linked
pages.
