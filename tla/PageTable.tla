------------------------------ MODULE PageTable ------------------------------
(***************************************************************************)
(* What the filesystem promises to those who hold page numbers: a table of *)
(* pages numbered from 0, each with a header and a body of page_size       *)
(* bytes, that grows by one page at a time and in which an operation on    *)
(* one page is seen in that page alone.  tasks.rs:7-82 words it task by    *)
(* task.  There are no offsets here; PageStore shows that the arithmetic   *)
(* of the worker gives this.                                               *)
(***************************************************************************)
EXTENDS Naturals, Sequences

CONSTANTS
  NoPage,     \* no neighbour
  Zero,       \* a zero byte
  Bytes,      \* the byte strings clients write
  Headers,    \* the page headers clients write
  PageSizes,  \* the page sizes a header may name
  Beyond      \* numbers of pages that are made after one was lost half made

VARIABLES
  pages,      \* page n is pages[n + 1]
  page_size,
  whole,      \* no page was lost half made
  reply       \* the answer to the last operation

NoReply == [none |-> TRUE]

vars == <<pages, page_size, whole, reply>>

Number == 0 .. (Len(pages) - 1)
Neighbour == Number \cup {NoPage}
Linkable == IF whole THEN Number ELSE Number \cup Beyond

Init ==
  /\ pages = <<>>
  /\ page_size \in PageSizes
  /\ whole = TRUE
  /\ reply = NoReply

\* The page size may be chosen as long as there are no pages.
Format(size) ==
  /\ pages = <<>>
  /\ page_size' = size
  /\ reply' = NoReply
  /\ UNCHANGED <<pages, whole>>

Describe ==
  /\ reply' = [page_size |-> page_size]
  /\ UNCHANGED <<pages, page_size, whole>>

\* The new page has the number after the last one and an empty body.
Create(parent) ==
  /\ pages' = Append(pages,
                [header |-> [prev |-> parent, next |-> NoPage],
                 body   |-> [i \in 1 .. page_size |-> Zero]])
  /\ reply' = [page |-> Len(pages)]
  /\ UNCHANGED <<page_size, whole>>

Link(n, next) ==
  /\ pages' = [pages EXCEPT ![n + 1].header.next = next]
  /\ reply' = NoReply
  /\ UNCHANGED <<page_size, whole>>

GetHeader(n) ==
  /\ reply' = [header |-> pages[n + 1].header]
  /\ UNCHANGED <<pages, page_size, whole>>

SetHeader(n, header) ==
  /\ pages' = [pages EXCEPT ![n + 1].header = header]
  /\ reply' = NoReply
  /\ UNCHANGED <<page_size, whole>>

\* As many of the bytes asked for as the body has.
Get(n, offset, length) ==
  /\ LET available == page_size - offset
         taken     == IF length < available THEN length ELSE available
     IN  reply' = [bytes |->
                     SubSeq(pages[n + 1].body, offset + 1, offset + taken)]
  /\ UNCHANGED <<pages, page_size, whole>>

\* As many of the bytes given as the body takes; the others come back.
Put(n, offset, bytes) ==
  /\ pages' = [pages EXCEPT ![n + 1].body =
       [i \in 1 .. page_size |->
          IF i - offset \in 1 .. Len(bytes) THEN bytes[i - offset] ELSE @[i]]]
  /\ reply' = [bytes |-> [i \in 1 .. ((offset + Len(bytes)) - page_size) |->
                            bytes[i + (page_size - offset)]]]
  /\ UNCHANGED <<page_size, whole>>

\* The process ends and starts again; it may have been about to add a page.
Restart ==
  /\ reply' = NoReply
  /\ whole' \in {whole, FALSE}
  /\ UNCHANGED <<pages, page_size>>

\* Once a page was lost half made no answer to any task is promised any more, not
\* even to one that reads a page that was complete: later pages may lie elsewhere
\* than their numbers say, and the table does not know which page an answer is
\* about.  What is promised is that a step of this kind changes none of the pages
\* that were there.
Unpromised ==
  /\ ~ whole
  /\ UNCHANGED <<pages, page_size, whole>>

Next ==
  \/ Restart
  \/ Unpromised
  \/ \E size \in PageSizes : Format(size)
  \/ Describe
  \/ \E parent \in Neighbour : Create(parent)
  \/ \E n \in Number :
       \/ \E next \in Linkable : Link(n, next)
       \/ GetHeader(n)
       \/ \E header \in Headers : SetHeader(n, header)
       \/ \E offset \in 0 .. page_size, length \in 0 .. page_size + 1 :
            Get(n, offset, length)
       \/ \E offset \in 0 .. page_size, bytes \in Bytes : Put(n, offset, bytes)

Spec == Init /\ [][Next]_vars

=============================================================================
