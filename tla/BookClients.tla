----------------------------- MODULE BookClients -----------------------------
(***************************************************************************)
(* Books: a chain of pages used as one growing array of bytes              *)
(* (src/pages/book.rs), and Page::create_next_page (src/pages/page.rs),    *)
(* which finds or makes the next page of the chain.                        *)
(*                                                                         *)
(* Clients in threads of their own read and write one book, each through a *)
(* clone of it.  One step is one task: all of them are sent with normal    *)
(* priority, so the worker runs them in the order in which they are sent   *)
(* (TaskService!RepliesInOrderOfSending), and the pages are those of       *)
(* PageTable, which the worker implements.                                 *)
(***************************************************************************)
EXTENDS PageTable, FiniteSets

CONSTANTS
  Clients,   \* threads that hold a clone of the book
  Reach,     \* bound: the bytes of the book that clients use
  Counts,    \* numbers of bytes that reads ask for
  MaxOps     \* bound: calls of read and write

ASSUME BookAssumption ==
  /\ NoPage \notin Nat
  /\ PageSizes \subseteq Nat \ {0}
  /\ \A bytes \in Bytes : bytes \in Seq({bytes[i] : i \in DOMAIN bytes})
  /\ Reach \in Nat
  /\ Counts \subseteq Nat
  /\ MaxOps \in Nat

VARIABLES
  pc,        \* what a client's call does next
  page,      \* its cursor: the page it has come to
  offset,    \* the offset still to go from the start of page
  length,    \* reads: the number of bytes still to read
  tail,      \* writes: the bytes still to write
  buf,       \* reads: the bytes read so far
  new,       \* create_next_page: the page it has created
  call,      \* history: the call as it was made
  expected,  \* history: the array as the calls so far should have left it
  overlapped,\* history: two calls were under way at the same time
  returned,  \* history: <<p, q>> create_next_page of the present or last call,
             \*          on p, has returned q
  ops        \* history: the number of calls

clientVars  == <<pc, page, offset, length, tail, buf, new, call>>
historyVars == <<expected, overlapped, returned, ops>>
bookVars    == <<vars, clientVars, historyVars>>

Idle == [kind |-> "none"]

\* The bytes from offset on, as many as asked for.
Slice(array, from, count) == [i \in 1 .. count |-> array[from + i - 1]]

BookInit ==
  /\ page_size \in PageSizes
  /\ pages = << [header |-> [prev |-> NoPage, next |-> NoPage],
                 body   |-> [i \in 1 .. page_size |-> Zero]] >>
  /\ whole = TRUE
  /\ reply = NoReply
  /\ pc = [c \in Clients |-> "idle"]
  /\ page = [c \in Clients |-> 0]
  /\ offset = [c \in Clients |-> 0]
  /\ length = [c \in Clients |-> 0]
  /\ tail = [c \in Clients |-> <<>>]
  /\ buf = [c \in Clients |-> <<>>]
  /\ new = [c \in Clients |-> 0]
  /\ call = [c \in Clients |-> Idle]
  /\ expected = [i \in 0 .. (Reach - 1) |-> Zero]
  /\ overlapped = FALSE
  /\ returned = [c \in Clients |-> <<>>]
  /\ ops = 0

-----------------------------------------------------------------------------

\* Where a call continues: behind the page at hand, or in it.
Seek(at) == IF at >= page_size THEN "next" ELSE "body"

\* Book::read and Book::write up to their first task.
Begin(c, at, count, bytes) ==
  /\ pc[c] = "idle"
  /\ ops < MaxOps
  /\ ops' = ops + 1
  /\ overlapped' = (overlapped \/ \E d \in Clients : pc[d] # "idle")
  /\ pc' = [pc EXCEPT ![c] = Seek(at)]
  /\ page' = [page EXCEPT ![c] = 0]
  /\ offset' = [offset EXCEPT ![c] = at]
  /\ length' = [length EXCEPT ![c] = count]
  /\ tail' = [tail EXCEPT ![c] = bytes]
  /\ buf' = [buf EXCEPT ![c] = <<>>]
  /\ returned' = [returned EXCEPT ![c] = <<>>]
  /\ UNCHANGED new
  /\ UNCHANGED vars

Read(c, at, count) ==
  /\ at + count <= Reach
  /\ Begin(c, at, count, <<>>)
  /\ call' = [call EXCEPT ![c] =
                [kind |-> "read", count |-> count,
                 want |-> Slice(expected, at, count)]]
  /\ UNCHANGED expected

Write(c, at, bytes) ==
  /\ at + Len(bytes) <= Reach
  /\ Begin(c, at, 0, bytes)
  /\ call' = [call EXCEPT ![c] = [kind |-> "write"]]
  /\ expected' = [i \in DOMAIN expected |->
                    IF i - at + 1 \in 1 .. Len(bytes)
                      THEN bytes[i - at + 1] ELSE expected[i]]

-----------------------------------------------------------------------------
(***************************************************************************)
(* Page::create_next_page, called from the loops of read and write.        *)
(***************************************************************************)

\* It returns q.  A call that is still seeking its offset has one page less
\* to go; one that is past it continues at the start of q.
Arrive(c, q) ==
  LET left == IF offset[c] >= page_size THEN offset[c] - page_size ELSE 0 IN
    /\ page' = [page EXCEPT ![c] = q]
    /\ offset' = [offset EXCEPT ![c] = left]
    /\ pc' = [pc EXCEPT ![c] = Seek(left)]
    /\ new' = [new EXCEPT ![c] = 0]
    /\ returned' = [returned EXCEPT ![c] = <<page[c], q>>]
    /\ UNCHANGED <<length, tail, buf, call, expected, overlapped, ops>>

\* read_next_page: the header says that there is a next page.
NextExists(c) ==
  /\ pc[c] = "next"
  /\ GetHeader(page[c])
  /\ reply'.header.next # NoPage
  /\ Arrive(c, reply'.header.next)

\* Mutant of NoNextPage: the call waits for somebody to create the page.
NoNextPageWaits == "next"

\* What follows when there is no next page.
NoNextPage == "create"

\* read_next_page: there is none.
NextMissing(c) ==
  /\ pc[c] = "next"
  /\ GetHeader(page[c])
  /\ reply'.header.next = NoPage
  /\ pc' = [pc EXCEPT ![c] = NoNextPage]
  /\ UNCHANGED <<page, offset, length, tail, buf, new, call>>
  /\ UNCHANGED historyVars

\* Mutant of ParentOf: the new page is not given its parent.
NoParent(c) == NoPage

ParentOf(c) == page[c]

\* Mutant of Answered: pages are counted from 1.
AnsweredFromOne == reply'.page + 1

\* The page that CreatePage answers with.
Answered == reply'.page

\* The CreatePage task and its answer.
CreateNext(c) ==
  /\ pc[c] = "create"
  /\ Create(ParentOf(c))
  /\ pc' = [pc EXCEPT ![c] = "link"]
  /\ new' = [new EXCEPT ![c] = Answered]
  /\ UNCHANGED <<page, offset, length, tail, buf, call>>
  /\ UNCHANGED historyVars

\* Mutant of LinkNext: the two page numbers are swapped.
LinkNextSwapped(c) ==
  /\ pc[c] = "link"
  /\ Link(new[c], page[c])
  /\ Arrive(c, new[c])

\* The LinkPageForward task, which has no answer to wait for.
LinkNext(c) ==
  /\ pc[c] = "link"
  /\ Link(page[c], new[c])
  /\ Arrive(c, new[c])

-----------------------------------------------------------------------------

\* Mutant of Rest: one page is dealt with, however much is left.
NoRest(more) == "idle"

\* What follows a page of the loops of read and write.
Rest(more) == IF more THEN "next" ELSE "idle"

\* The end of a round of these loops; a call that returns forgets its page.
Round(c, more) ==
  /\ pc' = [pc EXCEPT ![c] = Rest(more)]
  /\ offset' = [offset EXCEPT ![c] = 0]
  /\ page' = [page EXCEPT ![c] = IF more THEN @ ELSE 0]

\* Page::read, and the rest of Book::read's loop around it.
ReadBody(c) ==
  /\ pc[c] = "body"
  /\ call[c].kind = "read"
  /\ Get(page[c], offset[c], length[c])
  /\ LET left == length[c] - Len(reply'.bytes) IN
       /\ length' = [length EXCEPT ![c] = left]
       /\ Round(c, left > 0)
  /\ buf' = [buf EXCEPT ![c] = @ \o reply'.bytes]
  /\ UNCHANGED <<tail, new, call>>
  /\ UNCHANGED historyVars

\* Page::write, and the rest of Book::write's loop around it.
WriteBody(c) ==
  /\ pc[c] = "body"
  /\ call[c].kind = "write"
  /\ Put(page[c], offset[c], tail[c])
  /\ tail' = [tail EXCEPT ![c] = reply'.bytes]
  /\ Round(c, reply'.bytes # <<>>)
  /\ UNCHANGED <<length, buf, new, call>>
  /\ UNCHANGED historyVars

ClientStep(c) ==
  \/ NextExists(c) \/ NextMissing(c) \/ CreateNext(c) \/ LinkNext(c)
  \/ ReadBody(c)   \/ WriteBody(c)

BookNext ==
  \E c \in Clients :
    \/ \E at \in 0 .. (Reach - 1) :
         \/ \E count \in Counts : Read(c, at, count)
         \/ \E bytes \in Bytes : Write(c, at, bytes)
    \/ ClientStep(c)

BookSpec == BookInit /\ [][BookNext]_bookVars

\* A client that is inside a call goes on with it: every task is answered
\* (TaskScheduler!EveryTaskDispatched) and the code between two tasks is
\* straight.
FairBookSpec == BookSpec /\ \A c \in Clients : WF_bookVars(ClientStep(c))

-----------------------------------------------------------------------------
(***************************************************************************)
(* Properties.                                                             *)
(***************************************************************************)

Successor(n)   == pages[n + 1].header.next
Predecessor(n) == pages[n + 1].header.prev

\* Cursors and links name pages that exist.
BookTypeOK ==
  /\ \A n \in Number : {Successor(n), Predecessor(n)} \subseteq Neighbour
  /\ pc \in [Clients -> {"idle", "next", "create", "link", "body"}]
  /\ \A c \in Clients : page[c] \in Number /\ new[c] \in Number
  /\ \A c \in Clients : returned[c] # <<>> => returned[c] \in Number \X Number

\* The links of the chain agree in both directions, however calls of
\* create_next_page interleave (page.rs:159-190: the parent's number goes into
\* the new header, and the forward link is a task of its own).
LinksAgree ==
  \A n \in Number : Successor(n) # NoPage => Predecessor(Successor(n)) = n

\* Every link leads to a younger page, so a walk along the chain ends
\* (book.rs:108-120 counts pages by such a walk).
ChainHasNoLoop ==
  \A n \in Number : Successor(n) # NoPage => Successor(n) > n

\* Book::read returns exactly as many bytes as it was asked for (book.rs:52-81).
ReadIsComplete ==
  \A c \in Clients :
    (pc[c] = "idle" /\ call[c].kind = "read") => Len(buf[c]) = call[c].count

\* As long as calls come one after the other, from whichever clone of the book,
\* reads return what writes put there, and zeros where nothing was written,
\* whichever pages the bytes are spread over (book.rs:49-51, "will return zeros
\* if there's no content on given offset").
ReadsWhatWasWritten ==
  \A c \in Clients :
    (pc[c] = "idle" /\ call[c].kind = "read" /\ ~ overlapped)
      => buf[c] = call[c].want

\* The page that create_next_page returned is linked with the one it was called
\* on: page.rs:157-158, "Read next page if it exists or create a new one and
\* link it with the current one."
ReturnedIsLinked ==
  \A c \in Clients :
    returned[c] # <<>> => Successor(returned[c][1]) = returned[c][2]

\* Every call of read and write returns.
EveryCallReturns ==
  \A c \in Clients : pc[c] # "idle" ~> pc[c] = "idle"

=============================================================================
