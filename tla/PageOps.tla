------------------------------- MODULE PageOps -------------------------------
(***************************************************************************)
(* What one filesystem task does to the file: the eight arms of            *)
(* FilesystemWorker::update (src/filesystem/tasks/worker.rs).              *)
(*                                                                         *)
(* The file holds the filesystem header and then the pages, each a page    *)
(* header followed by page_size cells of body.  Page n is found by         *)
(* arithmetic alone; nothing on disk says how many pages there are.        *)
(*                                                                         *)
(* The worker owns the file, so a task is a function from a worker state   *)
(* [io, header] to the next one and the answer its sender receives.        *)
(***************************************************************************)
EXTENDS BufStorageIO, FsHeader

CONSTANTS
  PageNo,    \* page numbers a header can hold
  NoPage,    \* has_prev / has_next is not set
  Misread    \* the header that a cell of data is parsed as

\* One cell each: FilesystemHeader::LENGTH and PageHeader::LENGTH.
FsHeaderLength   == 1
PageHeaderLength == 1

PageHeader == [prev : PageNo \cup {NoPage}, next : PageNo \cup {NoPage}]
BlankHeader == [prev |-> NoPage, next |-> NoPage]

\* PageHeader::to_bytes: a header with no flag set is nine zero bytes.
HeaderToCell(h) == IF h = BlankHeader THEN Zero ELSE h

\* PageHeader::from_bytes
CellToHeader(c) ==
  IF c = Zero THEN BlankHeader
  ELSE IF c \in PageHeader THEN c ELSE Misread

PageLength(w) == PageHeaderLength + w.header.page_size

\* page_pos, the offset of the header of page n.
PagePos(w, n) == FsHeaderLength + n * PageLength(w)

\* Mutant of BodyPos: the body is written over the header of its page.
BodyPosAtHeader(w, n) == PagePos(w, n)

BodyPos(w, n) == PagePos(w, n) + PageHeaderLength

\* The number CreatePage gives to the page it is about to append.
TotalPages(w) ==
  LET len == BufLen(w.io) IN
    IF len > FsHeaderLength
      THEN (len - FsHeaderLength) \div PageLength(w)
      ELSE 0

ReadHeaderOf(w, n) == CellToHeader(BufRead(w.io, PagePos(w, n), 1)[1])
ReadBodyOf(w, n)   == BufRead(w.io, BodyPos(w, n), w.header.page_size)

WriteAt(w, position, cells) == [w EXCEPT !.io = BufWrite(@, position, cells)]

WriteHeaderOf(w, n, h) == WriteAt(w, PagePos(w, n), <<HeaderToCell(h)>>)

\* FilesystemDriver::new, which writes the default header to a new file, and
\* FilesystemWorker::new, which reads it back.
DriverNew(file, default) ==
  LET opened == BufOpen(file)
      io     == IF BufLen(opened) < FsHeaderLength
                  THEN BufWrite(opened, 0, <<FsHeaderToCell(default)>>)
                  ELSE opened
  IN  [io |-> io, header |-> FsHeaderFromCell(BufRead(io, 0, FsHeaderLength)[1])]

-----------------------------------------------------------------------------
(***************************************************************************)
(* The arms of the match.  A WritePage that drops its response_sender      *)
(* answers no bytes: Page::write reads a closed channel as an empty tail.  *)
(***************************************************************************)

NoReply == [none |-> TRUE]

Done(w, reply) == [worker |-> w, reply |-> reply]

\* The settings for names are left out of the answer.
DoReadFilesystemHeader(w, t) == Done(w, [page_size |-> w.header.page_size])

\* Mutant of DoWriteFilesystemHeader: the header is cached but not written.
DoCacheFilesystemHeader(w, t) == Done([w EXCEPT !.header = t.header], NoReply)

DoWriteFilesystemHeader(w, t) ==
  Done([WriteAt(w, 0, <<FsHeaderToCell(t.header)>>) EXCEPT !.header = t.header],
       NoReply)

\* The first append of CreatePage, and the second.
AppendPageHeader(w, parent) ==
  [w EXCEPT !.io =
     BufAppend(@, <<HeaderToCell([prev |-> parent, next |-> NoPage])>>)]
AppendPageBody(w) == [w EXCEPT !.io = BufAppend(@, Zeros(w.header.page_size))]

DoCreatePage(w, t) ==
  Done(AppendPageBody(AppendPageHeader(w, t.parent)), [page |-> TotalPages(w)])

DoLinkPageForward(w, t) ==
  LET header == [ReadHeaderOf(w, t.page) EXCEPT !.next = t.next]
  IN  Done(WriteHeaderOf(w, t.page, header), NoReply)

DoReadPageHeader(w, t) == Done(w, [header |-> ReadHeaderOf(w, t.page)])

DoWritePageHeader(w, t) == Done(WriteHeaderOf(w, t.page, t.header), NoReply)

DoReadPage(w, t) ==
  LET available == w.header.page_size - t.offset
      length    == IF t.length > available THEN available ELSE t.length
  IN  IF t.offset >= w.header.page_size \/ t.length = 0
        THEN Done(w, [bytes |-> <<>>])
        ELSE Done(w, [bytes |->
               BufRead(w.io, BodyPos(w, t.page) + t.offset, length)])

\* Mutant of Fitting: the bytes are not split at the end of the page.
FittingAll(w, t) == Len(t.bytes)

\* How many of the bytes to write fit in the page.
Fitting(w, t) ==
  IF t.offset + Len(t.bytes) > w.header.page_size
    THEN w.header.page_size - t.offset ELSE Len(t.bytes)

DoWritePage(w, t) ==
  IF t.offset >= w.header.page_size \/ t.bytes = <<>>
    THEN Done(w, [bytes |-> t.bytes])
    ELSE LET split == Fitting(w, t) IN
           Done(WriteAt(w, BodyPos(w, t.page) + t.offset,
                        SubSeq(t.bytes, 1, split)),
                [bytes |-> SubSeq(t.bytes, split + 1, Len(t.bytes))])

\* FilesystemWorker::update once it has a task.
Execute(w, t) ==
  CASE t.op = "ReadFilesystemHeader"  -> DoReadFilesystemHeader(w, t)
    [] t.op = "WriteFilesystemHeader" -> DoWriteFilesystemHeader(w, t)
    [] t.op = "CreatePage"            -> DoCreatePage(w, t)
    [] t.op = "LinkPageForward"       -> DoLinkPageForward(w, t)
    [] t.op = "ReadPageHeader"        -> DoReadPageHeader(w, t)
    [] t.op = "WritePageHeader"       -> DoWritePageHeader(w, t)
    [] t.op = "ReadPage"              -> DoReadPage(w, t)
    [] t.op = "WritePage"             -> DoWritePage(w, t)

=============================================================================
