-------------------------- MODULE BookClientsProofs --------------------------
(***************************************************************************)
(* Proofs about books: the links of the chain agree and lead forward,      *)
(* however the calls of create_next_page of several clients interleave,    *)
(* and a read returns as many bytes as it was asked for.                   *)
(***************************************************************************)
EXTENDS BookClients, SequenceTheorems, TLAPS

\* The one-line operators of the code are read as what they stand for.
USE DEF NoNextPage, ParentOf, Answered

-----------------------------------------------------------------------------
(***************************************************************************)
(* The table of pages.                                                     *)
(***************************************************************************)

\* What a byte of the book can be.
Cell == {Zero} \cup UNION {{bytes[i] : i \in DOMAIN bytes} : bytes \in Bytes}

Page == [header : [prev : Nat \cup {NoPage}, next : Nat \cup {NoPage}],
         body   : [1 .. page_size -> Cell]]

TableInv ==
  /\ page_size \in Nat \ {0}
  /\ pages \in Seq(Page)
  /\ Len(pages) > 0

\* What is at hand in every proof about the table: its pages are pages.
LEMMA PagesArePages ==
  ASSUME TableInv
  PROVE  /\ Len(pages) \in Nat
         /\ DOMAIN pages = 1 .. Len(pages)
         /\ 0 \in Number
         /\ \A n \in Number : n \in Nat /\ n + 1 \in DOMAIN pages
         /\ \A n \in Number : pages[n + 1] \in Page
         /\ \A n \in Number :
              {Successor(n), Predecessor(n)} \subseteq Nat \cup {NoPage}
<1>1. Len(pages) \in Nat /\ DOMAIN pages = 1 .. Len(pages)
  BY LenProperties DEF TableInv
<1>2. /\ 0 \in Number
      /\ \A n \in Number : n \in Nat /\ n + 1 \in DOMAIN pages
  BY <1>1 DEF Number, TableInv
<1>3. \A n \in Number : pages[n + 1] \in Page
  BY <1>1, <1>2, ElementOfSeq DEF TableInv
<1> QED
  BY <1>1, <1>2, <1>3 DEF Page, Successor, Predecessor

\* The bytes that clients write are cells of the book.
LEMMA BytesAreCells == Bytes \subseteq Seq(Cell)
<1> SUFFICES ASSUME NEW bytes \in Bytes PROVE bytes \in Seq(Cell)
  OBVIOUS
<1> DEFINE own == {bytes[i] : i \in DOMAIN bytes}
<1>1. bytes \in Seq(own) /\ own \subseteq Cell
  BY BookAssumption DEF Cell
<1> HIDE DEF own
<1> QED
  BY <1>1, SeqMonotonic

\* Create adds one page behind the others, which it leaves alone.
LEMMA CreateGrows ==
  ASSUME TableInv, NEW parent \in Nat \cup {NoPage}, Create(parent)
  PROVE  /\ TableInv'
         /\ Len(pages') = Len(pages) + 1
         /\ \A n \in Number : pages'[n + 1] = pages[n + 1]
         /\ pages'[Len(pages) + 1].header = [prev |-> parent, next |-> NoPage]
         /\ pages'[Len(pages) + 1].body = [i \in 1 .. page_size |-> Zero]
         /\ reply'.page = Len(pages)
<1> DEFINE blank == [header |-> [prev |-> parent, next |-> NoPage],
                     body   |-> [i \in 1 .. page_size |-> Zero]]
<1>1. /\ pages' = Append(pages, blank)
      /\ page_size' = page_size
      /\ reply' = [page |-> Len(pages)]
  BY DEF Create
<1>2. blank \in Page
  BY DEF Page, Cell
<1>3. pages \in Seq(Page) /\ Len(pages) \in Nat
  BY PagesArePages DEF TableInv
<1>4. /\ blank.header = [prev |-> parent, next |-> NoPage]
      /\ blank.body = [i \in 1 .. page_size |-> Zero]
  OBVIOUS
<1> HIDE DEF blank
<1>5. /\ pages' \in Seq(Page)
      /\ Len(pages') = Len(pages) + 1
      /\ \A i \in 1 .. Len(pages) : pages'[i] = pages[i]
      /\ pages'[Len(pages) + 1] = blank
  BY <1>1, <1>2, <1>3, AppendProperties
<1>6. Page' = Page
  BY <1>1 DEF Page
<1>7. TableInv'
  BY <1>1, <1>3, <1>5, <1>6 DEF TableInv
<1> QED
  BY <1>1, <1>3, <1>4, <1>5, <1>7 DEF Number

\* A page that is replaced by another page leaves a table.
LEMMA PageReplaced ==
  ASSUME TableInv, NEW n \in Number, NEW fresh \in Page,
         pages' = [pages EXCEPT ![n + 1] = fresh], UNCHANGED page_size
  PROVE  /\ TableInv'
         /\ Len(pages') = Len(pages)
         /\ pages'[n + 1] = fresh
         /\ \A m \in Number : m # n => pages'[m + 1] = pages[m + 1]
<1>1. n + 1 \in 1 .. Len(pages) /\ pages \in Seq(Page) /\ Len(pages) \in Nat
  BY PagesArePages DEF TableInv
<1>2. pages' \in Seq(Page) /\ Len(pages') = Len(pages)
  BY <1>1, ExceptSeq
<1>3. Page' = Page
  BY DEF Page
<1>4. \A m \in Number : m # n => pages'[m + 1] = pages[m + 1]
  BY PagesArePages
<1> QED
  BY <1>1, <1>2, <1>3, <1>4, PagesArePages DEF TableInv

\* Link changes one forward link and nothing else.
LEMMA LinkSets ==
  ASSUME TableInv, NEW n \in Number, NEW next \in Nat, Link(n, next)
  PROVE  /\ TableInv'
         /\ Len(pages') = Len(pages)
         /\ pages'[n + 1].header.next = next
         /\ pages'[n + 1].header.prev = pages[n + 1].header.prev
         /\ pages'[n + 1].body = pages[n + 1].body
         /\ \A m \in Number : m # n => pages'[m + 1] = pages[m + 1]
<1> DEFINE fresh == [pages[n + 1] EXCEPT !.header.next = next]
<1>1. pages' = [pages EXCEPT ![n + 1] = fresh] /\ page_size' = page_size
  BY DEF Link
<1>2. pages[n + 1] \in Page
  BY PagesArePages
<1>3. /\ fresh \in Page
      /\ fresh.header.next = next
      /\ fresh.header.prev = pages[n + 1].header.prev
      /\ fresh.body = pages[n + 1].body
  BY <1>2 DEF Page
<1> HIDE DEF fresh
<1> QED
  BY <1>1, <1>3, PageReplaced

\* What Put leaves in the body of its page.
LEMMA PutSets ==
  ASSUME TableInv, NEW n \in Number, NEW from \in Nat,
         NEW bytes \in Seq(Cell), Put(n, from, bytes)
  PROVE  /\ TableInv'
         /\ Len(pages') = Len(pages)
         /\ pages'[n + 1].header = pages[n + 1].header
         /\ pages'[n + 1].body =
              [i \in 1 .. page_size |->
                 IF i - from \in 1 .. Len(bytes)
                   THEN bytes[i - from] ELSE pages[n + 1].body[i]]
         /\ \A m \in Number : m # n => pages'[m + 1] = pages[m + 1]
<1> DEFINE body == [i \in 1 .. page_size |->
                      IF i - from \in 1 .. Len(bytes)
                        THEN bytes[i - from] ELSE pages[n + 1].body[i]]
           fresh  == [pages[n + 1] EXCEPT !.body = body]
<1>1. page_size' = page_size
  BY DEF Put
<1>2. pages[n + 1] \in Page /\ DOMAIN pages = 1 .. Len(pages)
  BY PagesArePages
<1>3. pages' = [pages EXCEPT ![n + 1] = fresh]
  BY <1>2 DEF Put
<1>4. body \in [1 .. page_size -> Cell]
  <2>1. \A i \in 1 .. Len(bytes) : bytes[i] \in Cell
    BY ElementOfSeq
  <2> QED
    BY <1>2, <2>1 DEF Page
<1> HIDE DEF body
<1>5. /\ fresh \in Page
      /\ fresh.header = pages[n + 1].header
      /\ fresh.body = body
  BY <1>2, <1>4 DEF Page
<1> HIDE DEF fresh
<1>6. /\ TableInv'
      /\ Len(pages') = Len(pages)
      /\ pages'[n + 1] = fresh
      /\ \A m \in Number : m # n => pages'[m + 1] = pages[m + 1]
  BY <1>1, <1>3, <1>5, PageReplaced
<1> QED
  BY <1>5, <1>6 DEF body

-----------------------------------------------------------------------------
(***************************************************************************)
(* The inductive invariant.                                                *)
(***************************************************************************)

Call == [kind : {"none", "write"}]
          \cup [kind : {"read"}, count : Nat, want : Seq(Cell)]

CursorInv ==
  /\ page \in [Clients -> Nat] /\ new \in [Clients -> Nat]
  /\ offset \in [Clients -> Nat] /\ length \in [Clients -> Nat]
  /\ tail \in [Clients -> Seq(Cell)] /\ buf \in [Clients -> Seq(Cell)]
  /\ call \in [Clients -> Call]
  /\ expected \in [0 .. (Reach - 1) -> Cell]
  /\ returned \in [Clients -> {<<>>} \cup (Nat \X Nat)]
  /\ \A c \in Clients : pc[c] = "body" => offset[c] < page_size

LinkInv == LinksAgree /\ ChainHasNoLoop

\* A page that waits for the link to it knows its parent, which is older.
PendingInv ==
  \A c \in Clients : pc[c] = "link" =>
    /\ new[c] > page[c]
    /\ Predecessor(new[c]) = page[c]

\* What a read has and what it lacks are what it was asked for.
ReadInv ==
  \A c \in Clients : call[c].kind = "read" =>
    /\ Len(buf[c]) + length[c] = call[c].count
    /\ pc[c] = "idle" => length[c] = 0

BookInv ==
  /\ TableInv
  /\ BookTypeOK
  /\ CursorInv
  /\ LinkInv
  /\ PendingInv
  /\ ReadInv

\* The types that the steps below need.
LEMMA BookTypes ==
  ASSUME BookInv
  PROVE  /\ page \in [Clients -> Number] /\ new \in [Clients -> Number]
         /\ pc \in [Clients -> {"idle", "next", "create", "link", "body"}]
         /\ Number \subseteq Nat
         /\ \A c \in Clients : offset[c] \in Nat /\ length[c] \in Nat
         /\ \A c \in Clients : tail[c] \in Seq(Cell) /\ buf[c] \in Seq(Cell)
         /\ \A c \in Clients : Len(buf[c]) \in Nat
         /\ page_size \in Nat \ {0}
<1>1. Number \subseteq Nat
  BY PagesArePages DEF BookInv
<1>2. \A c \in Clients : tail[c] \in Seq(Cell) /\ buf[c] \in Seq(Cell)
  BY DEF BookInv, CursorInv
<1> QED
  BY <1>1, <1>2, LenProperties DEF BookInv, BookTypeOK, CursorInv, TableInv

\* The invariant holds initially.
LEMMA BookInitInv == BookInit => BookInv
<1> SUFFICES ASSUME BookInit PROVE BookInv
  OBVIOUS
<1> DEFINE blank == [header |-> [prev |-> NoPage, next |-> NoPage],
                     body   |-> [i \in 1 .. page_size |-> Zero]]
<1>1. page_size \in Nat \ {0}
  BY BookAssumption DEF BookInit
<1>2. /\ blank \in Page
      /\ blank.header.prev = NoPage /\ blank.header.next = NoPage
  BY DEF Page, Cell
<1>3. pages = <<blank>>
  BY DEF BookInit
<1> HIDE DEF blank
<1>4. /\ pages \in Seq(Page) /\ Len(pages) = 1 /\ pages[1] = blank
  BY <1>2, <1>3
<1>5. Number = {0} /\ Successor(0) = NoPage /\ Predecessor(0) = NoPage
  BY <1>2, <1>4 DEF Number, Successor, Predecessor
<1>6. TableInv
  BY <1>1, <1>4 DEF TableInv
<1>7. BookTypeOK
  BY <1>5 DEF BookInit, BookTypeOK, Neighbour
<1>8. CursorInv
  BY BookAssumption DEF BookInit, CursorInv, Call, Idle, Cell
<1>9. LinkInv
  BY <1>5 DEF LinkInv, LinksAgree, ChainHasNoLoop
<1>10. PendingInv /\ ReadInv
  BY DEF BookInit, PendingInv, ReadInv, Idle
<1> QED
  BY <1>6, <1>7, <1>8, <1>9, <1>10 DEF BookInv

\* A client begins a call.
LEMMA BeginKeeps ==
  ASSUME BookInv, NEW c \in Clients, NEW at \in Nat, NEW count \in Nat,
         NEW bytes \in Seq(Cell), NEW this \in Call,
         Begin(c, at, count, bytes),
         call' = [call EXCEPT ![c] = this],
         this.kind = "read" => this.count = count,
         expected' \in [0 .. (Reach - 1) -> Cell]
  PROVE  BookInv'
<1>1. /\ UNCHANGED <<pages, page_size, new>>
      /\ pc' = [pc EXCEPT ![c] = Seek(at)]
      /\ page' = [page EXCEPT ![c] = 0]
      /\ offset' = [offset EXCEPT ![c] = at]
      /\ length' = [length EXCEPT ![c] = count]
      /\ tail' = [tail EXCEPT ![c] = bytes]
      /\ buf' = [buf EXCEPT ![c] = <<>>]
      /\ returned' = [returned EXCEPT ![c] = <<>>]
  BY DEF Begin, vars
<1>2. /\ Seek(at) \in {"next", "body"}
      /\ Seek(at) = "body" => at < page_size
  BY BookTypes DEF Seek
<1>3. Number' = Number /\ Page' = Page /\ 0 \in Number
  BY <1>1, PagesArePages DEF Number, Page, BookInv
<1>4. TableInv' /\ LinkInv'
  BY <1>1, <1>3
     DEF BookInv, TableInv, LinkInv, LinksAgree, ChainHasNoLoop,
         Successor, Predecessor
<1>5. BookTypeOK'
  BY <1>1, <1>2, <1>3
     DEF BookInv, BookTypeOK, Successor, Predecessor, Neighbour
<1>6. CursorInv'
  <2>1. <<>> \in Seq(Cell) /\ Cell' = Cell
    BY DEF Cell
  <2>2. /\ page' \in [Clients -> Nat] /\ new' \in [Clients -> Nat]
        /\ offset' \in [Clients -> Nat] /\ length' \in [Clients -> Nat]
        /\ call' \in [Clients -> Call]
        /\ returned' \in [Clients -> {<<>>} \cup (Nat \X Nat)]
    BY <1>1 DEF BookInv, CursorInv
  <2>3. tail' \in [Clients -> Seq(Cell)] /\ buf' \in [Clients -> Seq(Cell)]
    BY <1>1, <2>1 DEF BookInv, CursorInv
  <2>4. \A d \in Clients : pc'[d] = "body" => offset'[d] < page_size'
    BY <1>1, <1>2, BookTypes DEF BookInv, CursorInv
  <2> QED
    BY <2>1, <2>2, <2>3, <2>4 DEF CursorInv, Call
<1>7. PendingInv'
  BY <1>1, <1>2, BookTypes DEF BookInv, PendingInv, Predecessor
<1>8. ReadInv'
  <2>1. Len(<<>>) + count = count
    OBVIOUS
  <2> QED
    BY <1>1, <1>2, <2>1, BookTypes DEF BookInv, ReadInv, CursorInv
<1> QED
  BY <1>4, <1>5, <1>6, <1>7, <1>8 DEF BookInv

\* A client calls read.
LEMMA ReadKeeps ==
  ASSUME BookInv, NEW c \in Clients, NEW at \in 0 .. (Reach - 1),
         NEW count \in Counts, Read(c, at, count)
  PROVE  BookInv'
<1> DEFINE this == [kind |-> "read", count |-> count,
                    want |-> Slice(expected, at, count)]
<1>1. count \in Nat /\ at \in Nat /\ Reach \in Nat /\ at + count <= Reach
  BY BookAssumption DEF Read
<1>2. Slice(expected, at, count) \in Seq(Cell)
  <2>1. expected \in [0 .. (Reach - 1) -> Cell]
    BY DEF BookInv, CursorInv
  <2>2. \A i \in 1 .. count : expected[at + i - 1] \in Cell
    BY <1>1, <2>1
  <2> QED
    BY <1>1, <2>2 DEF Slice
<1>3. this \in Call /\ this.kind = "read" /\ this.count = count
  BY <1>1, <1>2 DEF Call
<1>4. <<>> \in Seq(Cell)
  OBVIOUS
<1>5. expected' \in [0 .. (Reach - 1) -> Cell]
  BY DEF Read, BookInv, CursorInv
<1>6. Begin(c, at, count, <<>>) /\ call' = [call EXCEPT ![c] = this]
  BY DEF Read
<1> HIDE DEF this
<1> QED
  BY <1>1, <1>3, <1>4, <1>5, <1>6, BeginKeeps

\* A client calls write.
LEMMA WriteKeeps ==
  ASSUME BookInv, NEW c \in Clients, NEW at \in 0 .. (Reach - 1),
         NEW bytes \in Bytes, Write(c, at, bytes)
  PROVE  BookInv'
<1> DEFINE this == [kind |-> "write"]
<1>1. bytes \in Seq(Cell) /\ at \in Nat
  BY BytesAreCells, BookAssumption
<1>2. \A i \in 1 .. Len(bytes) : bytes[i] \in Cell
  BY <1>1, ElementOfSeq
<1>3. expected' \in [0 .. (Reach - 1) -> Cell]
  BY <1>2 DEF Write, BookInv, CursorInv
<1>4. this \in Call /\ this.kind # "read"
  BY DEF Call
<1>5. Begin(c, at, 0, bytes) /\ call' = [call EXCEPT ![c] = this]
  BY DEF Write
<1> HIDE DEF this
<1> QED
  BY <1>1, <1>3, <1>4, <1>5, BeginKeeps

\* create_next_page returns q: the call goes on with one page less to go.
LEMMA ArriveKeeps ==
  ASSUME BookInv, NEW c \in Clients, NEW q \in Number, Arrive(c, q),
         TableInv', Len(pages') = Len(pages), UNCHANGED page_size,
         \A n \in Number : pages'[n + 1].header.prev = pages[n + 1].header.prev,
         \A n \in Number : Successor(n)' \in Neighbour,
         LinkInv'
  PROVE  BookInv'
<1> DEFINE left == IF offset[c] >= page_size THEN offset[c] - page_size ELSE 0
<1>1. /\ page' = [page EXCEPT ![c] = q]
      /\ offset' = [offset EXCEPT ![c] = left]
      /\ pc' = [pc EXCEPT ![c] = Seek(left)]
      /\ new' = [new EXCEPT ![c] = 0]
      /\ returned' = [returned EXCEPT ![c] = <<page[c], q>>]
      /\ UNCHANGED <<length, tail, buf, call, expected, overlapped, ops>>
  BY DEF Arrive
<1>2. left \in Nat
  BY BookTypes
<1> HIDE DEF left
<1>3. /\ Seek(left) \in {"next", "body"}
      /\ Seek(left) = "body" => left < page_size
  BY <1>2, BookTypes DEF Seek
<1>4. Number' = Number /\ Neighbour' = Neighbour /\ 0 \in Number
  BY PagesArePages DEF Number, Neighbour, BookInv
<1>5. BookTypeOK'
  <2>1. \A n \in Number : {Successor(n)', Predecessor(n)'} \subseteq Neighbour
    BY DEF BookInv, BookTypeOK, Predecessor
  <2>2. pc' \in [Clients -> {"idle", "next", "create", "link", "body"}]
    BY <1>1, <1>3, BookTypes
  <2>3. \A d \in Clients : page'[d] \in Number /\ new'[d] \in Number
    BY <1>1, <1>4, BookTypes
  <2>4. \A d \in Clients : returned'[d] # <<>> => returned'[d] \in Number \X Number
    BY <1>1, BookTypes DEF BookInv, BookTypeOK, CursorInv
  <2> QED
    BY <1>4, <2>1, <2>2, <2>3, <2>4 DEF BookTypeOK
<1>6. CursorInv'
  <2>1. /\ page' \in [Clients -> Nat] /\ new' \in [Clients -> Nat]
        /\ offset' \in [Clients -> Nat]
        /\ returned' \in [Clients -> {<<>>} \cup (Nat \X Nat)]
    BY <1>1, <1>2, BookTypes DEF BookInv, CursorInv
  <2>2. \A d \in Clients : pc'[d] = "body" => offset'[d] < page_size
    BY <1>1, <1>3, BookTypes DEF BookInv, CursorInv
  <2> QED
    BY <1>1, <2>1, <2>2 DEF BookInv, CursorInv
<1>7. PendingInv'
  BY <1>1, <1>3, BookTypes DEF BookInv, PendingInv, Predecessor
<1>8. ReadInv'
  BY <1>1, <1>3, BookTypes DEF BookInv, ReadInv
<1> QED
  BY <1>5, <1>6, <1>7, <1>8 DEF BookInv

\* The header names the next page.
LEMMA NextExistsKeeps ==
  ASSUME BookInv, NEW c \in Clients, NextExists(c)
  PROVE  BookInv'
<1> DEFINE q == Successor(page[c])
<1>1. UNCHANGED <<pages, page_size>> /\ Arrive(c, q) /\ q # NoPage
  BY DEF NextExists, GetHeader, Successor
<1>2. q \in Number /\ \A n \in Number : Successor(n) \in Neighbour
  BY <1>1, BookTypes DEF BookInv, BookTypeOK, Neighbour
<1>3. TableInv' /\ LinkInv'
  BY <1>1 DEF BookInv, TableInv, Page, LinkInv, LinksAgree, ChainHasNoLoop,
              Number, Successor, Predecessor
<1>4. \A n \in Number : Successor(n)' \in Neighbour
  BY <1>1, <1>2 DEF Successor
<1> HIDE DEF q
<1> QED
  BY <1>1, <1>2, <1>3, <1>4, ArriveKeeps

\* The header names no next page.
LEMMA NextMissingKeeps ==
  ASSUME BookInv, NEW c \in Clients, NextMissing(c)
  PROVE  BookInv'
<1>1. /\ UNCHANGED <<pages, page_size, page, offset, length, tail, buf, new,
                     call, expected, returned>>
      /\ pc' = [pc EXCEPT ![c] = "create"]
      /\ pc[c] = "next"
  BY DEF NextMissing, GetHeader, historyVars
<1>2. TableInv' /\ LinkInv'
  BY <1>1 DEF BookInv, TableInv, Page, LinkInv, LinksAgree, ChainHasNoLoop,
              Number, Successor, Predecessor
<1>3. BookTypeOK'
  BY <1>1 DEF BookInv, BookTypeOK, Number, Neighbour, Successor, Predecessor
<1>4. CursorInv' /\ PendingInv' /\ ReadInv'
  BY <1>1, BookTypes
     DEF BookInv, CursorInv, PendingInv, ReadInv, Predecessor
<1> QED
  BY <1>2, <1>3, <1>4 DEF BookInv

\* The filesystem makes a page that nothing leads to yet.
LEMMA CreateNextKeeps ==
  ASSUME BookInv, NEW c \in Clients, CreateNext(c)
  PROVE  BookInv'
<1> DEFINE q == Len(pages)
<1>1. /\ Create(page[c])
      /\ pc' = [pc EXCEPT ![c] = "link"]
      /\ new' = [new EXCEPT ![c] = reply'.page]
      /\ UNCHANGED <<page_size, page, offset, length, tail, buf, call,
                     expected, returned>>
      /\ pc[c] = "create"
  BY DEF CreateNext, Create, historyVars
<1>2. page[c] \in Number /\ page[c] \in Nat
  BY BookTypes
<1>3. /\ TableInv'
      /\ Len(pages') = q + 1
      /\ \A n \in Number : pages'[n + 1] = pages[n + 1]
      /\ pages'[q + 1].header = [prev |-> page[c], next |-> NoPage]
      /\ reply'.page = q
  BY <1>1, <1>2, CreateGrows DEF BookInv
<1>4. /\ q \in Nat
      /\ Number' = Number \cup {q}
      /\ \A n \in Number : n < q
      /\ q \notin Number
  BY <1>3, PagesArePages DEF BookInv, Number
<1>5. /\ \A n \in Number : /\ Successor(n)' = Successor(n)
                           /\ Predecessor(n)' = Predecessor(n)
      /\ pages'[q + 1].header.next = NoPage
      /\ pages'[q + 1].header.prev = page[c]
  BY <1>3 DEF Successor, Predecessor
<1>6. BookTypeOK'
  <2>1. \A n \in Number' :
          {Successor(n)', Predecessor(n)'} \subseteq Neighbour'
    <3>1. \A n \in Number : {Successor(n)', Predecessor(n)'} \subseteq Neighbour'
      BY <1>4, <1>5 DEF BookInv, BookTypeOK, Neighbour
    <3>2. {page[c], NoPage} \subseteq Neighbour'
      BY <1>2, <1>4 DEF Neighbour
    <3> QED
      BY <1>4, <1>5, <3>1, <3>2 DEF Successor, Predecessor
  <2>2. pc' \in [Clients -> {"idle", "next", "create", "link", "body"}]
    BY <1>1, BookTypes
  <2>3. \A d \in Clients : page'[d] \in Number' /\ new'[d] \in Number'
    BY <1>1, <1>3, <1>4, BookTypes
  <2>4. \A d \in Clients :
          returned'[d] # <<>> => returned'[d] \in Number' \X Number'
    BY <1>1, <1>4 DEF BookInv, BookTypeOK
  <2> QED
    BY <2>1, <2>2, <2>3, <2>4 DEF BookTypeOK
<1>7. CursorInv'
  <2>1. new' \in [Clients -> Nat]
    BY <1>1, <1>3, <1>4 DEF BookInv, CursorInv
  <2> QED
    BY <1>1, <2>1, BookTypes DEF BookInv, CursorInv
<1>8. LinkInv'
  <2>1. \A n \in Number' : Successor(n)' # NoPage => n \in Number
    BY <1>4, <1>5 DEF Successor
  <2>2. \A n \in Number : Successor(n) # NoPage => Successor(n) \in Number
    BY DEF BookInv, BookTypeOK, Neighbour
  <2>3. LinksAgree'
    BY <1>3, <1>5, <2>1, <2>2
       DEF BookInv, LinkInv, LinksAgree, Successor, Predecessor
  <2>4. ChainHasNoLoop'
    BY <1>5, <2>1 DEF BookInv, LinkInv, ChainHasNoLoop
  <2> QED
    BY <2>3, <2>4 DEF LinkInv
<1>9. PendingInv'
  <2> SUFFICES ASSUME NEW d \in Clients, pc'[d] = "link"
               PROVE  /\ new'[d] > page'[d]
                      /\ pages'[new'[d] + 1].header.prev = page'[d]
    BY DEF PendingInv, Predecessor
  <2>1. CASE d = c
    BY <1>1, <1>2, <1>3, <1>4, <1>5, <2>1, BookTypes
  <2>2. CASE d # c
    BY <1>1, <1>3, <2>2, BookTypes DEF BookInv, PendingInv, Predecessor
  <2> QED
    BY <2>1, <2>2
<1>10. ReadInv'
  BY <1>1, BookTypes DEF BookInv, ReadInv
<1> QED
  BY <1>3, <1>6, <1>7, <1>8, <1>9, <1>10 DEF BookInv

\* The link to the new page: another call may have linked its parent to a page
\* of its own before, which then loses its link and keeps its parent.
LEMMA LinkNextKeeps ==
  ASSUME BookInv, NEW c \in Clients, LinkNext(c)
  PROVE  BookInv'
<1> DEFINE p == page[c]
           q == new[c]
<1>1. Link(p, q) /\ Arrive(c, q) /\ pc[c] = "link" /\ page_size' = page_size
  BY DEF LinkNext, Link
<1>2. p \in Number /\ q \in Number /\ q \in Nat
  BY BookTypes
<1>3. q > p /\ Predecessor(q) = p
  BY <1>1 DEF BookInv, PendingInv
<1>4. /\ TableInv'
      /\ Len(pages') = Len(pages)
      /\ pages'[p + 1].header.next = q
      /\ pages'[p + 1].header.prev = pages[p + 1].header.prev
      /\ \A m \in Number : m # p => pages'[m + 1] = pages[m + 1]
  BY <1>1, <1>2, LinkSets DEF BookInv
<1>5. Number' = Number
  BY <1>4 DEF Number
<1>6. /\ \A n \in Number : Predecessor(n)' = Predecessor(n)
      /\ \A n \in Number : n # p => Successor(n)' = Successor(n)
      /\ \A n \in Number : n = p => Successor(n)' = q
  BY <1>4 DEF Successor, Predecessor
<1>7. \A n \in Number : Successor(n) \in Neighbour
  BY DEF BookInv, BookTypeOK
<1>8. \A n \in Number : Successor(n)' \in Neighbour
  BY <1>2, <1>6, <1>7 DEF Neighbour
<1>9. LinksAgree'
  <2> SUFFICES ASSUME NEW n \in Number, Successor(n)' # NoPage
               PROVE  pages'[Successor(n)' + 1].header.prev = n
    BY <1>5 DEF LinksAgree, Predecessor
  <2>1. CASE n = p
    BY <1>2, <1>3, <1>6, <2>1 DEF Predecessor
  <2>2. CASE n # p
    <3>1. Successor(n)' = Successor(n) /\ Successor(n) \in Number
      BY <1>6, <1>7, <2>2 DEF Neighbour
    <3> QED
      BY <1>6, <3>1 DEF BookInv, LinkInv, LinksAgree, Predecessor
  <2> QED
    BY <2>1, <2>2
<1>10. ChainHasNoLoop'
  BY <1>3, <1>5, <1>6 DEF BookInv, LinkInv, ChainHasNoLoop
<1>11. \A n \in Number : pages'[n + 1].header.prev = pages[n + 1].header.prev
  BY <1>6 DEF Predecessor
<1>12. LinkInv'
  BY <1>9, <1>10 DEF LinkInv
<1> HIDE DEF p, q
<1> QED
  BY <1>1, <1>2, <1>4, <1>8, <1>11, <1>12, ArriveKeeps

\* A round of the loops of read and write on the page at hand: the table keeps
\* its links, and c has left bytes to go.
LEMMA RoundKeeps ==
  ASSUME BookInv, NEW c \in Clients, NEW more \in BOOLEAN,
         Round(c, more), pc[c] = "body",
         TableInv', Len(pages') = Len(pages), UNCHANGED page_size,
         \A n \in Number : pages'[n + 1].header = pages[n + 1].header,
         tail' \in [Clients -> Seq(Cell)], buf' \in [Clients -> Seq(Cell)],
         length' \in [Clients -> Nat],
         ReadInv', UNCHANGED <<new, call>>, UNCHANGED historyVars
  PROVE  BookInv'
<1>1. /\ pc' = [pc EXCEPT ![c] = Rest(more)]
      /\ offset' = [offset EXCEPT ![c] = 0]
      /\ page' = [page EXCEPT ![c] = IF more THEN page[c] ELSE 0]
      /\ UNCHANGED <<expected, returned>>
  BY DEF Round, historyVars
<1>2. Rest(more) \in {"next", "idle"}
  BY DEF Rest
<1>3. Number' = Number /\ Neighbour' = Neighbour /\ 0 \in Number
  BY PagesArePages DEF Number, Neighbour, BookInv
<1>4. \A n \in Number : /\ Successor(n)' = Successor(n)
                        /\ Predecessor(n)' = Predecessor(n)
  BY DEF Successor, Predecessor
<1>5. BookTypeOK'
  <2>1. pc' \in [Clients -> {"idle", "next", "create", "link", "body"}]
    BY <1>1, <1>2, BookTypes
  <2>2. \A d \in Clients : page'[d] \in Number /\ new'[d] \in Number
    BY <1>1, <1>3, BookTypes
  <2> QED
    BY <1>1, <1>3, <1>4, <2>1, <2>2 DEF BookInv, BookTypeOK
<1>6. CursorInv'
  <2>1. page' \in [Clients -> Nat] /\ offset' \in [Clients -> Nat]
    BY <1>1, BookTypes DEF BookInv, CursorInv
  <2>2. \A d \in Clients : pc'[d] = "body" => offset'[d] < page_size
    BY <1>1, <1>2, BookTypes DEF BookInv, CursorInv
  <2> QED
    BY <1>1, <2>1, <2>2 DEF BookInv, CursorInv
<1>7. LinkInv'
  <2>1. \A n \in Number : Successor(n) # NoPage => Successor(n) \in Number
    BY DEF BookInv, BookTypeOK, Neighbour
  <2>2. LinksAgree'
    <3>1. \A n \in Number : Successor(n) # NoPage => Predecessor(Successor(n)) = n
      BY DEF BookInv, LinkInv, LinksAgree
    <3>2. \A n \in Number :
            Successor(n)' # NoPage => Predecessor(Successor(n))' = n
      BY ONLY <1>4, <2>1, <3>1 DEF Predecessor
    <3> QED
      BY ONLY <1>3, <3>2 DEF LinksAgree
  <2>3. ChainHasNoLoop'
    BY <1>3, <1>4 DEF BookInv, LinkInv, ChainHasNoLoop
  <2> QED
    BY <2>2, <2>3 DEF LinkInv
<1>8. PendingInv'
  BY <1>1, <1>2, <1>4, BookTypes DEF BookInv, PendingInv, Predecessor
<1> QED
  BY <1>5, <1>6, <1>7, <1>8 DEF BookInv

\* What Get answers: bytes of the body at hand, not more than asked for.
LEMMA GetTakes ==
  ASSUME TableInv, NEW n \in Number, NEW from \in Nat, from < page_size,
         NEW count \in Nat, Get(n, from, count)
  PROVE  LET available == page_size - from
             taken     == IF count < available THEN count ELSE available
         IN  /\ UNCHANGED <<pages, page_size>>
             /\ reply'.bytes \in Seq(Cell)
             /\ Len(reply'.bytes) = taken
             /\ taken \in Nat /\ taken <= count
             /\ \A i \in 1 .. taken :
                  reply'.bytes[i] = pages[n + 1].body[from + i]
<1> DEFINE available == page_size - from
           taken     == IF count < available THEN count ELSE available
           body      == pages[n + 1].body
<1>1. /\ UNCHANGED <<pages, page_size>>
      /\ reply'.bytes = SubSeq(body, from + 1, from + taken)
  BY DEF Get
<1>2. body \in [1 .. page_size -> Cell]
  BY PagesArePages DEF Page
<1>3. page_size \in Nat /\ taken \in Nat /\ taken <= count /\ from + taken <= page_size
  BY DEF TableInv
<1> HIDE DEF body, taken
<1>4. \A i \in (from + 1) .. (from + taken) : body[i] \in Cell
  BY <1>2, <1>3
<1>5. /\ SubSeq(body, from + 1, from + taken) \in Seq(Cell)
      /\ Len(SubSeq(body, from + 1, from + taken)) = taken
      /\ \A i \in 1 .. taken :
           SubSeq(body, from + 1, from + taken)[i] = body[from + i]
  <2>1. /\ from + 1 \in Int /\ from + taken \in Int
        /\ (from + taken) - (from + 1) + 1 = taken
        /\ (from + 1 <= from + taken) <=> taken # 0
        /\ \A i \in 1 .. taken : (from + 1) + i - 1 = from + i
    BY <1>3
  <2> QED
    BY <1>3, <1>4, <2>1, SubSeqProperties
<1> QED
  BY <1>1, <1>3, <1>5 DEF body, taken

\* A read takes bytes from the page at hand.
LEMMA ReadBodyKeeps ==
  ASSUME BookInv, NEW c \in Clients, ReadBody(c)
  PROVE  BookInv'
<1> DEFINE bytes == reply'.bytes
           left  == length[c] - Len(bytes)
<1>1. /\ pc[c] = "body"
      /\ Get(page[c], offset[c], length[c])
      /\ length' = [length EXCEPT ![c] = left]
      /\ Round(c, left > 0)
      /\ buf' = [buf EXCEPT ![c] = buf[c] \o bytes]
      /\ UNCHANGED <<tail, new, call>> /\ UNCHANGED historyVars
  BY DEF ReadBody
<1>2. /\ page[c] \in Number /\ offset[c] \in Nat /\ length[c] \in Nat
      /\ offset[c] < page_size /\ TableInv
  BY <1>1, BookTypes DEF BookInv, CursorInv
<1>3. /\ UNCHANGED <<pages, page_size>>
      /\ bytes \in Seq(Cell)
      /\ Len(bytes) \in Nat /\ Len(bytes) <= length[c]
  BY <1>1, <1>2, GetTakes
<1> HIDE DEF bytes
<1>4. /\ buf[c] \o bytes \in Seq(Cell)
      /\ Len(buf[c] \o bytes) = Len(buf[c]) + Len(bytes)
  BY <1>3, BookTypes, ConcatProperties
<1>5. left \in Nat /\ (left > 0) \in BOOLEAN
  BY <1>2, <1>3
<1>6. length' \in [Clients -> Nat] /\ buf' \in [Clients -> Seq(Cell)]
  BY <1>1, <1>4, <1>5 DEF BookInv, CursorInv
<1>7. TableInv' /\ tail' \in [Clients -> Seq(Cell)]
  BY <1>1, <1>3 DEF BookInv, TableInv, Page, CursorInv
<1>8. ReadInv'
  <2> SUFFICES ASSUME NEW d \in Clients, call[d].kind = "read"
               PROVE  /\ Len(buf'[d]) + length'[d] = call[d].count
                      /\ pc'[d] = "idle" => length'[d] = 0
    BY <1>1 DEF ReadInv
  <2>1. CASE d = c
    <3>1. Len(buf'[c]) + length'[c] = call[c].count
      <4>1. Len(buf[c]) + length[c] = call[c].count
        BY <2>1 DEF BookInv, ReadInv
      <4>2. /\ Len(buf'[c]) = Len(buf[c]) + Len(bytes)
            /\ length'[c] = length[c] - Len(bytes)
        BY <1>1, <1>4 DEF BookInv, CursorInv
      <4>3. Len(buf[c]) \in Nat
        BY BookTypes
      <4> QED
        BY <1>2, <1>3, <4>1, <4>2, <4>3
    <3>2. pc'[c] = "idle" => left = 0
      BY <1>1, <1>5, BookTypes DEF Round, Rest
    <3> QED
      BY <1>1, <2>1, <3>1, <3>2 DEF BookInv, CursorInv
  <2>2. CASE d # c
    BY <1>1, <2>2, BookTypes DEF BookInv, ReadInv, CursorInv, Round
  <2> QED
    BY <2>1, <2>2
<1> HIDE DEF left
<1> QED
  BY <1>1, <1>3, <1>5, <1>6, <1>7, <1>8, RoundKeeps

\* A write puts bytes into the page at hand.
LEMMA WriteBodyKeeps ==
  ASSUME BookInv, NEW c \in Clients, WriteBody(c)
  PROVE  BookInv'
<1> DEFINE rest == reply'.bytes
<1>1. /\ pc[c] = "body"
      /\ call[c].kind = "write"
      /\ Put(page[c], offset[c], tail[c])
      /\ tail' = [tail EXCEPT ![c] = rest]
      /\ Round(c, rest # <<>>)
      /\ UNCHANGED <<length, buf, new, call>> /\ UNCHANGED historyVars
  BY DEF WriteBody
<1>2. /\ page[c] \in Number /\ offset[c] \in Nat /\ tail[c] \in Seq(Cell)
      /\ offset[c] < page_size /\ TableInv
  BY <1>1, BookTypes DEF BookInv, CursorInv
<1>3. /\ TableInv'
      /\ Len(pages') = Len(pages)
      /\ \A n \in Number : pages'[n + 1].header = pages[n + 1].header
      /\ page_size' = page_size
  BY <1>1, <1>2, PutSets DEF Put
<1>4. rest \in Seq(Cell)
  <2> DEFINE over == (offset[c] + Len(tail[c])) - page_size
  <2>1. rest = [i \in 1 .. over |-> tail[c][i + (page_size - offset[c])]]
    BY <1>1 DEF Put
  <2>2. Len(tail[c]) \in Nat /\ page_size \in Nat
    BY <1>2, LenProperties DEF TableInv
  <2>3. \A i \in 1 .. over : tail[c][i + (page_size - offset[c])] \in Cell
    <3>1. \A i \in 1 .. over : i + (page_size - offset[c]) \in 1 .. Len(tail[c])
      BY <1>2, <2>2
    <3> QED
      BY <1>2, <3>1, ElementOfSeq
  <2>4. CASE over \in Nat
    BY <2>1, <2>3, <2>4
  <2>5. CASE over \notin Nat
    <3>1. 1 .. over = 1 .. 0
      BY <1>2, <2>2, <2>5
    <3>2. rest = [i \in 1 .. 0 |-> tail[c][i + (page_size - offset[c])]]
      BY <2>1, <3>1
    <3> QED
      BY <2>3, <3>1, <3>2
  <2> QED
    BY <2>4, <2>5
<1> HIDE DEF rest
<1>5. /\ tail' \in [Clients -> Seq(Cell)] /\ buf' \in [Clients -> Seq(Cell)]
      /\ length' \in [Clients -> Nat]
  BY <1>1, <1>4 DEF BookInv, CursorInv
<1>6. ReadInv'
  BY <1>1, BookTypes DEF BookInv, ReadInv, Round
<1>7. (rest # <<>>) \in BOOLEAN
  OBVIOUS
<1> QED
  BY <1>1, <1>3, <1>5, <1>6, <1>7, RoundKeeps

-----------------------------------------------------------------------------
(***************************************************************************)
(* The theorems.                                                           *)
(***************************************************************************)

\* Every step of the clients preserves the invariant.
LEMMA BookStepInv == BookInv /\ [BookNext]_bookVars => BookInv'
<1> SUFFICES ASSUME BookInv, [BookNext]_bookVars PROVE BookInv'
  OBVIOUS
<1>1. ASSUME NEW c \in Clients, NEW at \in 0 .. (Reach - 1),
             NEW count \in Counts, Read(c, at, count)
      PROVE  BookInv'
  BY <1>1, ReadKeeps
<1>2. ASSUME NEW c \in Clients, NEW at \in 0 .. (Reach - 1),
             NEW bytes \in Bytes, Write(c, at, bytes)
      PROVE  BookInv'
  BY <1>2, WriteKeeps
<1>3. ASSUME NEW c \in Clients, ClientStep(c)
      PROVE  BookInv'
  <2>1. CASE NextExists(c)
    BY <2>1, NextExistsKeeps
  <2>2. CASE NextMissing(c)
    BY <2>2, NextMissingKeeps
  <2>3. CASE CreateNext(c)
    BY <2>3, CreateNextKeeps
  <2>4. CASE LinkNext(c)
    BY <2>4, LinkNextKeeps
  <2>5. CASE ReadBody(c)
    BY <2>5, ReadBodyKeeps
  <2>6. CASE WriteBody(c)
    BY <2>6, WriteBodyKeeps
  <2> QED
    BY <1>3, <2>1, <2>2, <2>3, <2>4, <2>5, <2>6 DEF ClientStep
<1>4. CASE UNCHANGED bookVars
  BY <1>4 DEF bookVars, vars, clientVars, historyVars, BookInv, TableInv, Page,
              BookTypeOK, CursorInv, LinkInv, LinksAgree, ChainHasNoLoop,
              PendingInv, ReadInv, Number, Neighbour, Successor, Predecessor
<1> QED
  BY <1>1, <1>2, <1>3, <1>4 DEF BookNext

\* The invariant holds in every reachable state.
LEMMA BookAlwaysInv == BookSpec => []BookInv
<1>1. BookInit => BookInv
  BY BookInitInv
<1>2. BookInv /\ [BookNext]_bookVars => BookInv'
  BY BookStepInv
<1> QED
  BY <1>1, <1>2, PTL DEF BookSpec

\* Cursors and links name pages that exist, for any number of clients and
\* pages: no client asks for a page that the filesystem has not made
\* (book.rs:52-125, page.rs:130-190).
THEOREM BookTypeCorrect == BookSpec => []BookTypeOK
<1>1. BookInv => BookTypeOK
  BY DEF BookInv
<1> QED
  BY <1>1, BookAlwaysInv, PTL

\* The chain can be walked in both directions: the forward link to a page and
\* the page's own link to its parent agree, also when several clients make the
\* next page of one page at the same time and one link replaces the other
\* (page.rs:159-190).
THEOREM ChainLinksAgree == BookSpec => []LinksAgree
<1>1. BookInv => LinksAgree
  BY DEF BookInv, LinkInv
<1> QED
  BY <1>1, BookAlwaysInv, PTL

\* A walk along the chain ends, as the one of Book::pages does
\* (book.rs:108-120).
THEOREM ChainLeadsForward == BookSpec => []ChainHasNoLoop
<1>1. BookInv => ChainHasNoLoop
  BY DEF BookInv, LinkInv
<1> QED
  BY <1>1, BookAlwaysInv, PTL

\* Book::read returns as many bytes as it was asked for, whatever the other
\* clients do to the chain in the meantime (book.rs:52-81).
THEOREM ReadsAreComplete == BookSpec => []ReadIsComplete
<1>1. BookInv => ReadIsComplete
  <2> SUFFICES ASSUME BookInv, NEW c \in Clients,
                      pc[c] = "idle", call[c].kind = "read"
               PROVE  Len(buf[c]) = call[c].count
    BY DEF ReadIsComplete
  <2>1. Len(buf[c]) + length[c] = call[c].count /\ length[c] = 0
    BY DEF BookInv, ReadInv
  <2> QED
    BY <2>1, BookTypes
<1> QED
  BY <1>1, BookAlwaysInv, PTL

-----------------------------------------------------------------------------
(***************************************************************************)
(* Reads return what was written.  As long as calls come one after the     *)
(* other, page n of the chain is page n of the table, the byte i of its    *)
(* body is the byte Spot(n, i) of the book, and the calls so far have left *)
(* there what they should have, but for the bytes that the call under way  *)
(* has still to write.                                                     *)
(***************************************************************************)

Spot(n, i) == n * page_size + i

Active(c) == pc[c] # "idle"

\* The offset in the book that a call has come to: what follows the page at
\* hand once the call is done with that page.
Position(c) ==
  IF pc[c] # "body" /\ offset[c] < page_size
    THEN Spot(page[c] + 1, 0) ELSE Spot(page[c], offset[c])

\* The byte that a book read to its end would return.
Held(n, i) == IF n \in Number THEN pages[n + 1].body[i + 1] ELSE Zero

\* A byte that is still to be written.
ToWrite(o) ==
  \E c \in Clients :
    /\ Active(c) /\ call[c].kind = "write"
    /\ o \in Position(c) .. (Position(c) + Len(tail[c]) - 1)

OneCall == \A c, d \in Clients : Active(c) /\ Active(d) => c = d

\* The chain goes through all the pages in their order, but for the last one
\* before it is linked.
RowInv ==
  /\ \A n \in Number : Successor(n) # NoPage => Successor(n) = n + 1
  /\ \A n \in Number : n + 1 \in Number =>
       \/ Successor(n) # NoPage
       \/ \E c \in Clients : pc[c] = "link" /\ page[c] = n
  /\ \A c \in Clients : pc[c] = "create" => Successor(page[c]) = NoPage
  /\ \A c \in Clients : pc[c] = "link" => new[c] = page[c] + 1

TailInv ==
  \A c \in Clients : Active(c) /\ call[c].kind = "write" =>
    /\ Position(c) + Len(tail[c]) <= Reach
    /\ \A k \in 1 .. Len(tail[c]) :
         tail[c][k] = expected[Position(c) + k - 1]

WantInv ==
  \A c \in Clients : call[c].kind = "read" =>
    /\ Len(call[c].want) = call[c].count
    /\ \A k \in 1 .. Len(buf[c]) : buf[c][k] = call[c].want[k]
    /\ Active(c) =>
         /\ Position(c) + length[c] <= Reach
         /\ \A k \in 1 .. length[c] :
              call[c].want[Len(buf[c]) + k] = expected[Position(c) + k - 1]

BodyInv ==
  \A n \in Nat : \A i \in 0 .. (page_size - 1) :
    (Spot(n, i) < Reach /\ ~ ToWrite(Spot(n, i))) =>
      Held(n, i) = expected[Spot(n, i)]

ArrayInv ==
  ~ overlapped =>
    /\ OneCall
    /\ RowInv
    /\ TailInv
    /\ WantInv
    /\ BodyInv

\* The arithmetic of pages.
LEMMA SpotFacts ==
  ASSUME page_size \in Nat \ {0}
  PROVE  /\ \A n, i \in Nat : Spot(n, i) \in Nat
         /\ \A n, i \in Nat : Spot(n, i) = Spot(n, 0) + i
         /\ \A n \in Nat : Spot(n + 1, 0) = Spot(n, 0) + page_size
         /\ \A i \in Nat : Spot(0, i) = i
         /\ \A m, n \in Nat : \A i \in 0 .. (page_size - 1) :
              (Spot(m, 0) <= Spot(n, i) /\ Spot(n, i) < Spot(m + 1, 0)) => m = n
<1> DEFINE s == page_size
<1>1. \A n \in Nat : n * s \in Nat
  OBVIOUS
<1>2. \A n \in Nat : (n + 1) * s = n * s + s
  OBVIOUS
<1>3. \A m, n \in Nat : m < n => m * s + s <= n * s
  <2> SUFFICES ASSUME NEW m \in Nat, NEW n \in Nat, m < n
               PROVE  m * s + s <= n * s
    OBVIOUS
  <2>1. PICK d \in Nat : n = (m + 1) + d
    <3>1. n - (m + 1) \in Nat
      OBVIOUS
    <3> QED
      BY <3>1
  <2>2. n * s = (m * s + s) + d * s
    BY <2>1
  <2>3. d * s \in Nat /\ m * s \in Nat /\ s \in Nat
    BY <1>1
  <2> QED
    BY <2>2, <2>3
<1>4. \A m, n \in Nat : \A i \in 0 .. (s - 1) :
        (m * s <= n * s + i /\ n * s + i < m * s + s) => m = n
  <2> SUFFICES ASSUME NEW m \in Nat, NEW n \in Nat, NEW i \in 0 .. (s - 1),
                      m * s <= n * s + i, n * s + i < m * s + s
               PROVE  m = n
    OBVIOUS
  <2>1. ~ (m < n)
    BY <1>1, <1>3
  <2>2. ~ (n < m)
    BY <1>1, <1>3
  <2> QED
    BY <2>1, <2>2
<1> QED
  BY <1>1, <1>2, <1>4 DEF Spot

\* What the steps below need of a call that is under way alone.
LEMMA AloneFacts ==
  ASSUME BookInv, ArrayInv, ~ overlapped, NEW c \in Clients, Active(c)
  PROVE  /\ \A d \in Clients : Active(d) => d = c
         /\ Position(c) \in Nat
         /\ Len(tail[c]) \in Nat
         /\ \A o : ToWrite(o) <=>
              /\ call[c].kind = "write"
              /\ o \in Position(c) .. (Position(c) + Len(tail[c]) - 1)
<1>1. \A d \in Clients : Active(d) => d = c
  BY DEF ArrayInv, OneCall
<1>2. Position(c) \in Nat
  <2>1. page[c] \in Nat /\ page[c] + 1 \in Nat /\ offset[c] \in Nat
    BY BookTypes
  <2>2. \A n, i \in Nat : Spot(n, i) \in Nat
    BY BookTypes, SpotFacts
  <2> QED
    BY <2>1, <2>2 DEF Position
<1>3. Len(tail[c]) \in Nat
  BY BookTypes, LenProperties
<1> QED
  BY <1>1, <1>2, <1>3 DEF ToWrite

\* Nothing is to be written when nobody is in a call.
LEMMA NoCallNoWrite ==
  ASSUME \A d \in Clients : ~ Active(d)
  PROVE  \A o : ~ ToWrite(o)
BY DEF ToWrite

\* The array is all zeros at first.
LEMMA ArrayInitInv == BookInit => ArrayInv
<1> SUFFICES ASSUME BookInit PROVE ArrayInv
  OBVIOUS
<1>1. BookInv /\ page_size \in Nat \ {0} /\ \A c \in Clients : ~ Active(c)
  BY BookInitInv, BookTypes DEF BookInit, Active
<1>2. Len(pages) = 1 /\ pages[1].header.next = NoPage
  BY DEF BookInit
<1>3. pages[1].body = [i \in 1 .. page_size |-> Zero]
  BY DEF BookInit
<1>4. Number = {0} /\ Successor(0) = NoPage
  BY <1>2 DEF Number, Successor
<1>5. RowInv
  BY <1>4 DEF RowInv, BookInit
<1>6. TailInv /\ WantInv /\ OneCall
  BY <1>1 DEF TailInv, WantInv, OneCall, BookInit, Idle
<1>7. BodyInv
  <2>1. \A n \in Nat : \A i \in 0 .. (page_size - 1) : Held(n, i) = Zero
    BY <1>1, <1>3, <1>4 DEF Held
  <2>2. \A n \in Nat : \A i \in 0 .. (page_size - 1) : Spot(n, i) \in Nat
    BY <1>1, SpotFacts
  <2>3. \A o \in Nat : o < Reach => expected[o] = Zero
    BY BookAssumption DEF BookInit
  <2> QED
    BY <2>1, <2>2, <2>3 DEF BodyInv
<1> QED
  BY <1>5, <1>6, <1>7 DEF ArrayInv

\* The position of a call depends on its cursor alone.
LEMMA SamePosition ==
  ASSUME NEW c \in Clients, UNCHANGED page_size,
         page'[c] = page[c], offset'[c] = offset[c],
         (pc'[c] = "body") <=> (pc[c] = "body")
  PROVE  Position(c)' = Position(c)
BY DEF Position, Spot

\* A step of the only call that leaves bodies, bytes and its position as they
\* are.
LEMMA CursorMoves ==
  ASSUME BookInv, ArrayInv, ~ overlapped, NEW c \in Clients,
         Active(c), Active(c)', Position(c)' = Position(c),
         \A d \in Clients : Active(d)' => Active(d),
         UNCHANGED <<page_size, length, tail, buf, call, expected>>,
         \A n \in Nat : \A i \in 0 .. (page_size - 1) : Held(n, i)' = Held(n, i),
         RowInv'
  PROVE  ArrayInv'
<1>1. \A d \in Clients : Active(d)' => d = c
  BY AloneFacts
<1>2. OneCall'
  BY <1>1 DEF OneCall
<1>3. TailInv'
  BY <1>1 DEF ArrayInv, TailInv
<1>4. WantInv'
  BY <1>1 DEF ArrayInv, WantInv
<1>5. \A o : ToWrite(o)' <=> ToWrite(o)
  BY <1>1 DEF ArrayInv, OneCall, ToWrite
<1>6. BodyInv'
  <2> SUFFICES ASSUME NEW n \in Nat, NEW i \in 0 .. (page_size - 1),
                      Spot(n, i)' < Reach, ~ ToWrite(Spot(n, i))'
               PROVE  Held(n, i)' = expected'[Spot(n, i)']
    BY DEF BodyInv
  <2>1. Spot(n, i)' = Spot(n, i)
    BY DEF Spot
  <2>2. ~ ToWrite(Spot(n, i))
    BY <1>5, <2>1
  <2> QED
    BY <2>1, <2>2 DEF ArrayInv, BodyInv
<1> QED
  BY <1>2, <1>3, <1>4, <1>6 DEF ArrayInv

\* The only call comes to the next page.
LEMMA ArriveArray ==
  ASSUME BookInv, ArrayInv, ~ overlapped, NEW c \in Clients,
         pc[c] \in {"next", "link"}, Arrive(c, page[c] + 1),
         UNCHANGED page_size, Len(pages') = Len(pages),
         \A n \in Number : pages'[n + 1].body = pages[n + 1].body,
         RowInv'
  PROVE  ArrayInv'
<1> DEFINE left == IF offset[c] >= page_size THEN offset[c] - page_size ELSE 0
<1>1. /\ page'[c] = page[c] + 1
      /\ offset'[c] = left
      /\ pc' = [pc EXCEPT ![c] = Seek(left)]
      /\ UNCHANGED <<length, tail, buf, call, expected, overlapped, ops>>
  BY BookTypes DEF Arrive, BookInv, CursorInv
<1>2. /\ page[c] \in Nat /\ offset[c] \in Nat /\ page_size \in Nat \ {0}
      /\ left \in Nat
  BY BookTypes
<1>3. Active(c) /\ Active(c)' /\ \A d \in Clients : Active(d)' => Active(d)
  BY <1>1, BookTypes DEF Active, Seek
<1>4. pc'[c] = "body" <=> left < page_size
  BY <1>1, <1>2, BookTypes DEF Seek
<1>5. Position(c)' = page'[c] * page_size + left
  BY <1>1, <1>2, <1>4 DEF Position, Spot
<1>6. Position(c) = (page[c] + 1) * page_size + left
  <2>1. CASE offset[c] >= page_size
    <3>1. Position(c) = Spot(page[c], offset[c])
      BY <2>1, <1>2 DEF Position
    <3>2. (page[c] + 1) * page_size = page[c] * page_size + page_size
      BY <1>2
    <3>3. page[c] * page_size \in Nat
      BY <1>2
    <3> QED
      BY <1>2, <2>1, <3>1, <3>2, <3>3 DEF Spot
  <2>2. CASE offset[c] < page_size
    BY <1>2, <2>2 DEF Position, Spot
  <2> QED
    BY <1>2, <2>1, <2>2
<1>7. Position(c)' = Position(c)
  BY <1>1, <1>5, <1>6
<1>8. \A n \in Nat : \A i \in 0 .. (page_size - 1) : Held(n, i)' = Held(n, i)
  BY DEF Held, Number
<1> HIDE DEF left
<1> QED
  BY <1>1, <1>3, <1>7, <1>8, CursorMoves

\* The header names the next page, which is the next of the table.
LEMMA NextExistsArray ==
  ASSUME BookInv, ArrayInv, ~ overlapped, NEW c \in Clients, NextExists(c)
  PROVE  ArrayInv'
<1>1. /\ UNCHANGED <<pages, page_size>>
      /\ pc[c] = "next"
      /\ Successor(page[c]) # NoPage
      /\ Arrive(c, Successor(page[c]))
  BY DEF NextExists, GetHeader, Successor
<1>2. Successor(page[c]) = page[c] + 1
  BY <1>1, BookTypes DEF ArrayInv, RowInv
<1>3. \A d \in Clients : /\ pc[d] \notin {"link", "create"}
                         /\ pc'[d] \notin {"link", "create"}
  <2>1. \A d \in Clients : Active(d) => d = c
    BY <1>1, AloneFacts DEF Active
  <2> QED
    BY <1>1, <2>1, BookTypes DEF Active, Arrive, Seek
<1>4. RowInv'
  BY <1>1, <1>3 DEF ArrayInv, RowInv, Number, Successor
<1> QED
  BY <1>1, <1>2, <1>4, ArriveArray

\* The header names no next page.
LEMMA NextMissingArray ==
  ASSUME BookInv, ArrayInv, ~ overlapped, NEW c \in Clients, NextMissing(c)
  PROVE  ArrayInv'
<1>1. /\ UNCHANGED <<pages, page_size, page, offset, length, tail, buf, new,
                     call, expected, overlapped>>
      /\ pc' = [pc EXCEPT ![c] = "create"]
      /\ pc[c] = "next"
      /\ Successor(page[c]) = NoPage
  BY DEF NextMissing, GetHeader, historyVars, Successor
<1>2. /\ Active(c) /\ Active(c)' /\ \A d \in Clients : Active(d)' => Active(d)
      /\ pc'[c] = "create"
  BY <1>1, BookTypes DEF Active
<1>3. Position(c)' = Position(c)
  BY <1>1, <1>2, SamePosition
<1>4. \A n \in Nat : \A i \in 0 .. (page_size - 1) : Held(n, i)' = Held(n, i)
  BY <1>1 DEF Held, Number
<1>5. \A n : Successor(n)' = Successor(n)
  BY <1>1 DEF Successor
<1>6. RowInv'
  <2>1. \A d \in Clients : /\ pc'[d] = "link" <=> pc[d] = "link"
                           /\ pc'[d] = "create" => pc[d] = "create" \/ d = c
    BY <1>1, BookTypes
  <2> QED
    BY <1>1, <2>1 DEF ArrayInv, RowInv, Number, Successor
<1> QED
  BY <1>1, <1>2, <1>3, <1>4, <1>6, CursorMoves

\* The page made is the next of the table, and holds zeros where no page was.
LEMMA CreateNextArray ==
  ASSUME BookInv, ArrayInv, ~ overlapped, NEW c \in Clients, CreateNext(c)
  PROVE  ArrayInv'
<1> DEFINE q == Len(pages)
<1>1. /\ Create(page[c])
      /\ pc' = [pc EXCEPT ![c] = "link"]
      /\ new' = [new EXCEPT ![c] = reply'.page]
      /\ UNCHANGED <<page_size, page, offset, length, tail, buf, call,
                     expected, overlapped>>
      /\ pc[c] = "create"
  BY DEF CreateNext, Create, historyVars
<1>2. page[c] \in Number /\ page[c] \in Nat
  BY BookTypes
<1>3. /\ Len(pages') = q + 1
      /\ \A n \in Number : pages'[n + 1] = pages[n + 1]
      /\ pages'[q + 1].header.next = NoPage
      /\ pages'[q + 1].body = [i \in 1 .. page_size |-> Zero]
      /\ reply'.page = q
  <2>1. /\ Len(pages') = q + 1
        /\ \A n \in Number : pages'[n + 1] = pages[n + 1]
        /\ pages'[q + 1].header = [prev |-> page[c], next |-> NoPage]
        /\ pages'[q + 1].body = [i \in 1 .. page_size |-> Zero]
        /\ reply'.page = q
    BY <1>1, <1>2, CreateGrows DEF BookInv
  <2> QED
    BY <2>1
<1>4. q \in Nat /\ Number' = Number \cup {q} /\ q \notin Number
  BY <1>3, PagesArePages DEF BookInv, Number
<1>5. /\ Active(c) /\ Active(c)'
      /\ \A d \in Clients : Active(d)' => Active(d)
      /\ \A d \in Clients : pc[d] # "link"
      /\ \A d \in Clients : pc'[d] = "link" <=> d = c
      /\ \A d \in Clients : pc'[d] # "create"
  <2>1. Active(c) /\ \A d \in Clients : Active(d) => d = c
    BY <1>1, AloneFacts DEF Active
  <2> QED
    BY <1>1, <2>1, BookTypes DEF Active
<1>6. Position(c)' = Position(c)
  BY <1>1, <1>5, SamePosition
<1>7. \A n \in Nat : \A i \in 0 .. (page_size - 1) : Held(n, i)' = Held(n, i)
  <2> SUFFICES ASSUME NEW n \in Nat, NEW i \in 0 .. (page_size - 1)
               PROVE  Held(n, i)' = Held(n, i)
    OBVIOUS
  <2>1. CASE n \in Number
    BY <1>3, <1>4, <2>1 DEF Held
  <2>2. CASE n = q
    <3>1. i + 1 \in 1 .. page_size
      BY BookTypes
    <3> QED
      BY <1>3, <1>4, <2>2, <3>1 DEF Held
  <2>3. CASE n \notin Number /\ n # q
    BY <1>4, <2>3 DEF Held
  <2> QED
    BY <2>1, <2>2, <2>3
<1>8. page[c] + 1 = q
  <2>1. Successor(page[c]) = NoPage
    BY <1>1 DEF ArrayInv, RowInv
  <2>2. page[c] + 1 \notin Number
    BY <1>2, <1>5, <2>1 DEF ArrayInv, RowInv
  <2> QED
    BY <1>2, <1>4, <2>2 DEF Number
<1>9. RowInv'
  <2>1. /\ \A n \in Number : Successor(n)' = Successor(n)
        /\ \A n \in {q} : Successor(n)' = NoPage
    BY <1>3 DEF Successor
  <2>2. \A n \in Number' : Successor(n)' # NoPage => Successor(n)' = n + 1
    BY <1>4, <2>1 DEF ArrayInv, RowInv
  <2>3. \A n \in Number' : n + 1 \in Number' =>
          n \in Number /\ (n + 1 \in Number \/ n = page[c])
    BY <1>2, <1>4, <1>8, SMTT(40) DEF Number
  <2>4. \A n \in Number' : n + 1 \in Number' =>
          Successor(n)' # NoPage \/ n = page[c]
    BY <1>5, <2>1, <2>3 DEF ArrayInv, RowInv
  <2>5. new'[c] = page'[c] + 1
    BY <1>1, <1>3, <1>8 DEF BookInv, CursorInv
  <2> QED
    BY <1>1, <1>5, <2>2, <2>4, <2>5 DEF RowInv
<1> HIDE DEF q
<1> QED
  BY <1>1, <1>5, <1>6, <1>7, <1>9, CursorMoves

\* The page made is linked behind the last one.
LEMMA LinkNextArray ==
  ASSUME BookInv, ArrayInv, ~ overlapped, NEW c \in Clients, LinkNext(c)
  PROVE  ArrayInv'
<1> DEFINE p == page[c]
           q == new[c]
<1>1. Link(p, q) /\ Arrive(c, q) /\ pc[c] = "link" /\ page_size' = page_size
  BY DEF LinkNext, Link
<1>2. p \in Number /\ p \in Nat /\ q \in Nat
  BY BookTypes
<1>3. /\ Len(pages') = Len(pages)
      /\ pages'[p + 1].header.next = q
      /\ pages'[p + 1].body = pages[p + 1].body
      /\ \A m \in Number : m # p => pages'[m + 1] = pages[m + 1]
  BY <1>1, <1>2, LinkSets DEF BookInv
<1>4. q = p + 1
  BY <1>1 DEF ArrayInv, RowInv
<1>5. \A n \in Number : pages'[n + 1].body = pages[n + 1].body
  BY <1>3
<1>6. /\ Number' = Number
      /\ \A n \in Number : n # p => Successor(n)' = Successor(n)
      /\ \A n \in Number : n = p => Successor(n)' = p + 1
  BY <1>3, <1>4 DEF Number, Successor
<1>7. \A d \in Clients : /\ pc[d] = "link" => d = c
                         /\ pc'[d] \notin {"link", "create"}
  <2>1. Active(c) /\ \A d \in Clients : Active(d) => d = c
    BY <1>1, AloneFacts DEF Active
  <2> QED
    BY <1>1, <2>1, BookTypes DEF Active, Arrive, Seek
<1>8. p + 1 # NoPage
  BY <1>2, BookAssumption
<1>9. RowInv'
  BY <1>6, <1>7, <1>8 DEF ArrayInv, RowInv
<1> HIDE DEF p
<1> QED
  BY <1>1, <1>3, <1>4, <1>5, <1>9, ArriveArray DEF p

\* What a round of the loops does to the position: it moves to the end of the
\* page, unless the call returns.
LEMMA RoundMoves ==
  ASSUME BookInv, NEW c \in Clients, NEW more \in BOOLEAN,
         Round(c, more), pc[c] = "body", UNCHANGED page_size
  PROVE  /\ Position(c) = Spot(page[c], 0) + offset[c]
         /\ offset[c] < page_size
         /\ more => /\ Active(c)'
                    /\ Position(c)' = Spot(page[c], 0) + page_size
         /\ ~ more => ~ Active(c)'
         /\ \A d \in Clients : d # c => pc'[d] = pc[d]
         /\ \A d \in Clients : pc'[d] \in {"link", "create"} => pc'[d] = pc[d]
<1>1. /\ pc' = [pc EXCEPT ![c] = Rest(more)]
      /\ offset'[c] = 0
      /\ page'[c] = IF more THEN page[c] ELSE 0
  BY BookTypes DEF Round, BookInv, CursorInv
<1>2. /\ page[c] \in Nat /\ offset[c] \in Nat /\ offset[c] < page_size
      /\ page_size \in Nat \ {0}
  BY BookTypes DEF BookInv, CursorInv
<1>3. pc'[c] = Rest(more) /\ Rest(more) = (IF more THEN "next" ELSE "idle")
  BY <1>1, BookTypes DEF Rest
<1>4. Position(c) = Spot(page[c], 0) + offset[c]
  BY <1>2, SpotFacts DEF Position
<1>5. more => Position(c)' = (page[c] + 1) * page_size + 0
  BY <1>1, <1>2, <1>3 DEF Position, Spot
<1>6. (page[c] + 1) * page_size + 0 = (page[c] * page_size + 0) + page_size
  BY <1>2, SpotFacts DEF Spot
<1> QED
  BY <1>1, <1>2, <1>3, <1>4, <1>5, <1>6, BookTypes DEF Active, Spot

\* The links do not change in a round.
LEMMA RoundRow ==
  ASSUME RowInv, NEW c \in Clients, NEW more \in BOOLEAN, BookInv,
         Round(c, more), pc[c] = "body",
         UNCHANGED <<page_size, new>>, Len(pages') = Len(pages),
         \A n \in Number : pages'[n + 1].header = pages[n + 1].header
  PROVE  RowInv'
<1>1. /\ Number' = Number
      /\ \A n \in Number : Successor(n)' = Successor(n)
  BY DEF Number, Successor
<1>2. \A d \in Clients : /\ pc'[d] \in {"link", "create"} => d # c
                         /\ d # c => pc'[d] = pc[d] /\ page'[d] = page[d]
  BY BookTypes DEF Round, Rest
<1>3. \A d \in Clients : page[d] \in Number
  BY BookTypes
<1> QED
  BY <1>1, <1>2, <1>3 DEF RowInv

\* A read takes the bytes that it should return from the page at hand.
LEMMA ReadBodyArray ==
  ASSUME BookInv, ArrayInv, ~ overlapped, NEW c \in Clients, ReadBody(c)
  PROVE  ArrayInv'
<1> DEFINE bytes == reply'.bytes
           p     == page[c]
           o     == offset[c]
           count == length[c]
           space == page_size - o
           taken == IF count < space THEN count ELSE space
           left  == count - Len(bytes)
           want  == call[c].want
<1>1. /\ pc[c] = "body" /\ call[c].kind = "read"
      /\ Get(p, o, count)
      /\ length' = [length EXCEPT ![c] = left]
      /\ Round(c, left > 0)
      /\ buf' = [buf EXCEPT ![c] = buf[c] \o bytes]
      /\ UNCHANGED <<tail, new, call, expected, overlapped>>
  BY DEF ReadBody, historyVars
<1>2. /\ p \in Number /\ p \in Nat /\ o \in Nat /\ count \in Nat
      /\ o < page_size /\ TableInv /\ page_size \in Nat \ {0}
      /\ Len(buf[c]) \in Nat
  BY <1>1, BookTypes DEF BookInv, CursorInv
<1>3. /\ UNCHANGED <<pages, page_size>>
      /\ bytes \in Seq(Cell)
      /\ Len(bytes) = taken /\ taken \in Nat /\ taken <= count
      /\ \A i \in 1 .. taken : bytes[i] = pages[p + 1].body[o + i]
  <2>1. LET available == page_size - o
            some      == IF count < available THEN count ELSE available
        IN  /\ UNCHANGED <<pages, page_size>>
            /\ bytes \in Seq(Cell)
            /\ Len(bytes) = some
            /\ some \in Nat /\ some <= count
            /\ \A i \in 1 .. some : bytes[i] = pages[p + 1].body[o + i]
    <3> HIDE DEF p, o, count
    <3> QED
      BY <1>1, <1>2, GetTakes
  <2> QED
    BY <2>1
<1> HIDE DEF bytes
<1>4. /\ Len(buf[c] \o bytes) = Len(buf[c]) + taken
      /\ \A k \in 1 .. (Len(buf[c]) + taken) :
           (buf[c] \o bytes)[k] = IF k <= Len(buf[c]) THEN buf[c][k]
                                  ELSE bytes[k - Len(buf[c])]
  <2>1. /\ buf[c] \in Seq(Cell) /\ bytes \in Seq(Cell)
        /\ Len(bytes) = taken
    BY <1>3, BookTypes
  <2> HIDE DEF taken
  <2> QED
    BY <2>1, ConcatProperties
<1>5. /\ left = count - taken /\ left \in Nat /\ (left > 0) \in BOOLEAN
      /\ taken <= space /\ space = page_size - o
      /\ left > 0 => taken = space
  BY <1>2, <1>3
<1> HIDE DEF p, o, count, space, taken, left, want
<1>6. /\ Position(c) = Spot(p, 0) + o
      /\ left > 0 => /\ Active(c)'
                     /\ Position(c)' = Spot(p, 0) + page_size
      /\ ~ (left > 0) => ~ Active(c)'
      /\ \A d \in Clients : d # c => pc'[d] = pc[d]
  BY <1>1, <1>3, <1>5, RoundMoves DEF p, o
<1>7. Active(c) /\ \A d \in Clients : Active(d) => d = c
  BY <1>1, AloneFacts DEF Active
<1>8. \A d \in Clients : Active(d)' => d = c
  BY <1>6, <1>7 DEF Active
<1>9. Spot(p, 0) \in Nat /\ Reach \in Nat
  BY <1>2, SpotFacts, BookAssumption
<1>10. \A o2 : ~ ToWrite(o2) /\ ~ ToWrite(o2)'
  BY <1>1, <1>7, <1>8 DEF ToWrite
<1>11. /\ Len(want) = call[c].count
       /\ \A k \in 1 .. Len(buf[c]) : buf[c][k] = want[k]
       /\ Position(c) + count <= Reach
       /\ \A k \in 1 .. count :
            want[Len(buf[c]) + k] = expected[Position(c) + k - 1]
  BY <1>1, <1>7 DEF ArrayInv, WantInv, want, count
<1>12. \A k \in 1 .. taken : bytes[k] = want[Len(buf[c]) + k]
  <2> SUFFICES ASSUME NEW k \in 1 .. taken
               PROVE  bytes[k] = want[Len(buf[c]) + k]
    OBVIOUS
  <2> DEFINE i == o + k - 1
  <2>1. i \in 0 .. (page_size - 1) /\ i + 1 = o + k /\ k \in 1 .. count
    BY <1>2, <1>3, <1>5
  <2>2. Spot(p, i) = Spot(p, 0) + i
    BY <1>2, <2>1, SpotFacts
  <2>3. Spot(p, i) = Position(c) + k - 1
    BY <1>2, <1>6, <1>9, <2>2
  <2>4. Spot(p, i) < Reach
    BY <1>2, <1>6, <1>9, <1>11, <2>1, <2>3
  <2>5. Held(p, i) = expected[Spot(p, i)]
    BY <1>2, <1>10, <2>1, <2>4 DEF ArrayInv, BodyInv
  <2>6. Held(p, i) = bytes[k]
    BY <1>2, <1>3, <2>1 DEF Held
  <2> QED
    BY <1>11, <2>1, <2>3, <2>5, <2>6
<1>13. OneCall' /\ TailInv'
  BY <1>1, <1>8 DEF OneCall, TailInv
<1>14. RowInv'
  BY <1>1, <1>3, <1>5, RoundRow DEF ArrayInv
<1>15. WantInv'
  <2> SUFFICES ASSUME NEW d \in Clients, call[d].kind = "read"
               PROVE  /\ Len(call[d].want) = call[d].count
                      /\ \A k \in 1 .. Len(buf'[d]) :
                           buf'[d][k] = call[d].want[k]
                      /\ Active(d)' =>
                         /\ Position(d)' + length'[d] <= Reach
                         /\ \A k \in 1 .. length'[d] :
                              call[d].want[Len(buf'[d]) + k]
                                = expected[Position(d)' + k - 1]
    BY <1>1, BookAssumption DEF WantInv
  <2>1. CASE d # c
    BY <1>1, <1>8, <2>1 DEF ArrayInv, WantInv, BookInv, CursorInv
  <2>2. CASE d = c
    <3>1. buf'[c] = buf[c] \o bytes /\ length'[c] = left
      BY <1>1 DEF BookInv, CursorInv
    <3>2. \A k \in 1 .. Len(buf'[c]) : buf'[c][k] = want[k]
      <4> SUFFICES ASSUME NEW k \in 1 .. (Len(buf[c]) + taken)
                   PROVE  (buf[c] \o bytes)[k] = want[k]
        BY <1>4, <3>1
      <4>1. CASE k <= Len(buf[c])
        BY <1>2, <1>4, <1>11, <4>1
      <4>2. CASE k > Len(buf[c])
        <5>1. k - Len(buf[c]) \in 1 .. taken
          BY <1>2, <1>3, <4>2
        <5>2. bytes[k - Len(buf[c])] = want[Len(buf[c]) + (k - Len(buf[c]))]
          BY <1>12, <5>1
        <5> QED
          BY <1>2, <1>4, <4>2, <5>2
      <4> QED
        BY <1>2, <1>3, <4>1, <4>2
    <3>3. ASSUME Active(c)'
          PROVE  /\ Position(c)' + left <= Reach
                 /\ \A k \in 1 .. left :
                      want[Len(buf'[c]) + k] = expected[Position(c)' + k - 1]
      <4>1. left > 0 /\ taken = space /\ Position(c)' = Position(c) + taken
        BY <1>2, <1>5, <1>6, <1>9, <3>3
      <4>2. Position(c) \in Nat
        BY <1>2, <1>6, <1>9
      <4>3. Position(c)' + left <= Reach
        BY <1>2, <1>3, <1>5, <1>9, <1>11, <4>1, <4>2
      <4>4. \A k \in 1 .. left :
              want[Len(buf'[c]) + k] = expected[Position(c)' + k - 1]
        <5> SUFFICES ASSUME NEW k \in 1 .. left
                     PROVE  want[Len(buf'[c]) + k]
                              = expected[Position(c)' + k - 1]
          OBVIOUS
        <5>1. taken + k \in 1 .. count
          BY <1>2, <1>3, <1>5
        <5>2. want[Len(buf[c]) + (taken + k)]
                = expected[Position(c) + (taken + k) - 1]
          BY <1>11, <5>1
        <5>3. /\ Len(buf[c]) + (taken + k) = Len(buf'[c]) + k
              /\ Position(c) + (taken + k) - 1 = Position(c)' + k - 1
          <6> DEFINE have == Len(buf[c])
                     now  == Len(buf'[c])
          <6>1. now = have + taken
            BY <1>4, <3>1
          <6>2. k \in Nat /\ taken \in Nat /\ have \in Nat
            BY <1>2, <1>3, <1>5
          <6>3. Position(c)' = Position(c) + taken
            BY <4>1
          <6> HIDE DEF have, now
          <6>4. have + (taken + k) = now + k
            BY <6>1, <6>2
          <6>5. Position(c) + (taken + k) - 1 = Position(c)' + k - 1
            BY <4>2, <6>2, <6>3
          <6> QED
            BY <6>4, <6>5 DEF have, now
        <5> QED
          BY <5>2, <5>3
      <4> QED
        BY <4>3, <4>4
    <3> QED
      BY <1>11, <2>2, <3>1, <3>2, <3>3 DEF want
  <2> QED
    BY <2>1, <2>2
<1>16. BodyInv'
  <2> SUFFICES ASSUME NEW n \in Nat, NEW i \in 0 .. (page_size - 1),
                      Spot(n, i)' < Reach
               PROVE  Held(n, i)' = expected'[Spot(n, i)']
    BY <1>3 DEF BodyInv
  <2>1. Spot(n, i)' = Spot(n, i) /\ Held(n, i)' = Held(n, i)
    BY <1>3 DEF Spot, Held, Number
  <2> QED
    BY <1>1, <1>10, <2>1 DEF ArrayInv, BodyInv
<1> QED
  BY <1>13, <1>14, <1>15, <1>16 DEF ArrayInv

\* A write puts into the page at hand the bytes that belong there.
LEMMA WriteBodyArray ==
  ASSUME BookInv, ArrayInv, ~ overlapped, NEW c \in Clients, WriteBody(c)
  PROVE  ArrayInv'
<1> DEFINE bytes == tail[c]
           rest  == reply'.bytes
           p     == page[c]
           o     == offset[c]
           over  == (o + Len(bytes)) - page_size
           start == Position(c)
<1>1. /\ pc[c] = "body" /\ call[c].kind = "write"
      /\ Put(p, o, bytes)
      /\ tail' = [tail EXCEPT ![c] = rest]
      /\ Round(c, rest # <<>>)
      /\ UNCHANGED <<length, buf, new, call, expected, overlapped>>
  BY DEF WriteBody, historyVars
<1>2. /\ p \in Number /\ p \in Nat /\ o \in Nat /\ bytes \in Seq(Cell)
      /\ Len(bytes) \in Nat
      /\ o < page_size /\ TableInv /\ page_size \in Nat \ {0}
  BY <1>1, BookTypes, LenProperties DEF BookInv, CursorInv
<1>3. /\ page_size' = page_size
      /\ rest = [i \in 1 .. over |-> bytes[i + (page_size - o)]]
  BY <1>1 DEF Put
<1>4. /\ Len(pages') = Len(pages)
      /\ \A n \in Number : pages'[n + 1].header = pages[n + 1].header
      /\ pages'[p + 1].body =
           [i \in 1 .. page_size |->
              IF i - o \in 1 .. Len(bytes)
                THEN bytes[i - o] ELSE pages[p + 1].body[i]]
      /\ \A m \in Number : m # p => pages'[m + 1] = pages[m + 1]
  <2> HIDE DEF p, o, bytes
  <2>1. /\ TableInv /\ p \in Number /\ o \in Nat /\ bytes \in Seq(Cell)
        /\ Put(p, o, bytes)
    BY <1>1, <1>2
  <2>2. /\ Len(pages') = Len(pages)
        /\ pages'[p + 1].header = pages[p + 1].header
    BY ONLY <2>1, PutSets
  <2>3. pages'[p + 1].body =
          [i \in 1 .. page_size |->
             IF i - o \in 1 .. Len(bytes)
               THEN bytes[i - o] ELSE pages[p + 1].body[i]]
    BY ONLY <2>1, PutSets
  <2>4. \A m \in Number : m # p => pages'[m + 1] = pages[m + 1]
    BY ONLY <2>1, PutSets
  <2> QED
    BY ONLY <2>2, <2>3, <2>4
<1>5. over \in Int
  BY <1>2
<1>6. tail'[c] = rest
  BY <1>1 DEF BookInv, CursorInv
<1> HIDE DEF bytes, rest, p, o
<1>7. rest # <<>> =>
        /\ over \in Nat /\ over > 0
        /\ Len(rest) = over
        /\ \A k \in 1 .. over : rest[k] = bytes[k + (page_size - o)]
  <2>1. CASE over > 0
    <3>1. over \in Nat
      BY <1>5, <2>1
    <3> HIDE DEF over
    <3> QED
      BY <1>3, <2>1, <3>1
  <2>2. CASE ~ (over > 0)
    <3>1. 1 .. over = {}
      BY <1>5, <2>2
    <3> HIDE DEF over
    <3>2. rest = <<>>
      BY <1>3, <3>1
    <3> QED
      BY <3>2
  <2> QED
    BY <2>1, <2>2
<1>8. rest = <<>> => o + Len(bytes) <= page_size
  <2> SUFFICES ASSUME rest = <<>>, over > 0 PROVE FALSE
    BY <1>2, <1>5
  <2>1. over \in Nat /\ 1 \in 1 .. over
    BY <1>5
  <2> HIDE DEF over
  <2>2. DOMAIN rest = 1 .. over
    BY <1>3
  <2> QED
    BY <2>1, <2>2
<1>9. /\ start = Spot(p, 0) + o
      /\ rest # <<>> => /\ Active(c)'
                        /\ Position(c)' = Spot(p, 0) + page_size
      /\ rest = <<>> => ~ Active(c)'
      /\ \A d \in Clients : d # c => pc'[d] = pc[d]
  <2>1. (rest # <<>>) \in BOOLEAN
    OBVIOUS
  <2> QED
    BY <1>1, <1>3, <2>1, RoundMoves DEF p, o
<1> HIDE DEF start
<1>10. Active(c) /\ \A d \in Clients : Active(d) => d = c
  BY <1>1, AloneFacts DEF Active
<1>11. \A d \in Clients : Active(d)' => d = c
  BY <1>9, <1>10 DEF Active
<1>12. /\ Spot(p, 0) \in Nat /\ Reach \in Nat /\ start \in Nat
       /\ Spot(p + 1, 0) = Spot(p, 0) + page_size
  BY <1>2, <1>9, SpotFacts, BookAssumption
<1>13. /\ start + Len(bytes) <= Reach
       /\ \A k \in 1 .. Len(bytes) : bytes[k] = expected[start + k - 1]
  BY <1>1, <1>10 DEF ArrayInv, TailInv, bytes, start
<1>14. \A x : ToWrite(x) <=> x \in start .. (start + Len(bytes) - 1)
  BY <1>1, <1>10, AloneFacts DEF bytes, start
<1>15. \A x : ToWrite(x)' <=>
         /\ rest # <<>>
         /\ x \in Position(c)' .. (Position(c)' + Len(rest) - 1)
  BY <1>1, <1>6, <1>9, <1>11 DEF ToWrite
<1>16. rest # <<>> => /\ Position(c)' + Len(rest) = start + Len(bytes)
                      /\ Position(c)' = start + (page_size - o)
  BY <1>2, <1>7, <1>9, <1>12
<1>17. OneCall' /\ WantInv'
  <2>1. WantInv'
    <3> SUFFICES ASSUME NEW d \in Clients, call[d].kind = "read"
                 PROVE  /\ Len(call[d].want) = call[d].count
                        /\ \A k \in 1 .. Len(buf[d]) :
                             buf[d][k] = call[d].want[k]
                        /\ ~ Active(d)'
      BY <1>1 DEF WantInv
    <3>1. ~ Active(d)'
      BY <1>1, <1>11
    <3> QED
      BY <3>1 DEF ArrayInv, WantInv
  <2> QED
    BY <1>11, <2>1 DEF OneCall
<1>18. RowInv'
  <2>1. (rest # <<>>) \in BOOLEAN
    OBVIOUS
  <2> QED
    BY <1>1, <1>3, <1>4, <2>1, RoundRow DEF ArrayInv
<1>19. TailInv'
  <2> SUFFICES ASSUME NEW d \in Clients, Active(d)'
               PROVE  /\ Position(d)' + Len(tail'[d]) <= Reach
                      /\ \A k \in 1 .. Len(tail'[d]) :
                           tail'[d][k] = expected[Position(d)' + k - 1]
    BY <1>1 DEF TailInv
  <2>1. d = c /\ rest # <<>>
    BY <1>9, <1>11
  <2>2. Position(c)' + Len(rest) <= Reach
    BY <1>13, <1>16, <2>1
  <2>3. \A k \in 1 .. Len(rest) : rest[k] = expected[Position(c)' + k - 1]
    <3> SUFFICES ASSUME NEW k \in 1 .. Len(rest)
                 PROVE  rest[k] = expected[Position(c)' + k - 1]
      OBVIOUS
    <3>1. rest[k] = bytes[k + (page_size - o)]
      BY <1>7, <2>1
    <3>2. k + (page_size - o) \in 1 .. Len(bytes)
      BY <1>2, <1>7, <2>1
    <3>3. start + (k + (page_size - o)) - 1 = Position(c)' + k - 1
      BY <1>2, <1>7, <1>12, <1>16, <2>1
    <3> QED
      BY <1>13, <3>1, <3>2, <3>3
  <2> QED
    BY <1>6, <2>1, <2>2, <2>3
<1>20. BodyInv'
  <2> SUFFICES ASSUME NEW n \in Nat, NEW i \in 0 .. (page_size - 1),
                      Spot(n, i) < Reach, ~ ToWrite(Spot(n, i))'
               PROVE  Held(n, i)' = expected[Spot(n, i)]
    <3>1. \A n, i : Spot(n, i)' = Spot(n, i)
      BY <1>3 DEF Spot
    <3> QED
      BY <1>1, <1>3, <3>1 DEF BodyInv
  <2> DEFINE x == Spot(n, i)
  <2>1. /\ x \in Nat /\ x = Spot(n, 0) + i /\ Spot(n, 0) \in Nat
        /\ i \in Nat /\ i < page_size /\ i + 1 \in 1 .. page_size
    BY <1>2, SpotFacts
  <2>2. (Spot(p, 0) <= x /\ x < Spot(p + 1, 0)) => n = p
    BY <1>2, SpotFacts
  <2>3. CASE n = p /\ i + 1 - o \in 1 .. Len(bytes)
    <3> DEFINE k == i + 1 - o
    <3>1. Held(n, i)' = bytes[k]
      <4>1. n \in Number' /\ pages'[n + 1].body[i + 1] = bytes[k]
        BY <1>2, <1>4, <2>1, <2>3, SMTT(40) DEF Number
      <4> QED
        BY <4>1 DEF Held
    <3>2. bytes[k] = expected[start + k - 1]
      BY <1>13, <2>3
    <3>3. start + k - 1 = x
      BY <1>2, <1>9, <1>12, <2>1, <2>3, SMTT(40)
    <3> QED
      BY <2>3, <3>1, <3>2, <3>3
  <2>4. CASE ~ (n = p /\ i + 1 - o \in 1 .. Len(bytes))
    <3>1. Held(n, i)' = Held(n, i)
      BY <1>2, <1>4, <2>1, <2>4, SMTT(40) DEF Held, Number
    <3>2. x \notin start .. (start + Len(bytes) - 1)
      <4> SUFFICES ASSUME x \in start .. (start + Len(bytes) - 1) PROVE FALSE
        OBVIOUS
      <4>1. start <= x /\ x < start + Len(bytes)
        BY <1>2, <1>12, <2>1, SMTT(40)
      <4>2. start = Spot(p, 0) + o
        BY <1>9
      <4> HIDE DEF x
      <4>3. n # p
        <5> SUFFICES ASSUME n = p PROVE FALSE
          OBVIOUS
        <5>1. x = Spot(p, 0) + i
          BY <2>1
        <5>2. o <= i /\ i < o + Len(bytes)
          <6>1. Spot(p, 0) \in Nat /\ o \in Nat /\ i \in Nat /\ Len(bytes) \in Nat
            BY <1>2, <1>12, <2>1
          <6> QED
            BY <4>1, <4>2, <5>1, <6>1, SMTT(40)
        <5>3. i + 1 - o \in 1 .. Len(bytes)
          BY <1>2, <2>1, <5>2
        <5> QED
          BY <2>4, <5>3
      <4>4. x >= Spot(p, 0) + page_size
        <5>1. /\ Spot(p, 0) \in Nat /\ o \in Nat /\ page_size \in Nat
              /\ x \in Nat
          BY <1>2, <1>12, <2>1
        <5>2. Spot(p, 0) <= x
          BY <4>1, <4>2, <5>1
        <5>3. ~ (x < Spot(p, 0) + page_size)
          BY <1>12, <2>2, <4>3, <5>2
        <5> QED
          BY <5>1, <5>3
      <4>5. rest # <<>>
        <5> SUFFICES ASSUME rest = <<>> PROVE FALSE
          OBVIOUS
        <5>1. o + Len(bytes) <= page_size
          BY <1>8
        <5>2. /\ Spot(p, 0) \in Nat /\ o \in Nat /\ page_size \in Nat
              /\ x \in Nat /\ Len(bytes) \in Nat
          BY <1>2, <1>12, <2>1
        <5> QED
          BY <4>1, <4>2, <4>4, <5>1, <5>2, SMTT(40)
      <4>6. Position(c)' = Spot(p, 0) + page_size
        BY <1>9, <4>5
      <4>7. Position(c)' + Len(rest) = start + Len(bytes)
        BY <1>16, <4>5
      <4>8. Len(rest) \in Nat
        BY <1>7, <4>5
      <4>9. Position(c)' \in Nat /\ x < Position(c)' + Len(rest)
        BY <1>2, <1>12, <4>1, <4>6, <4>7
      <4>10. x \in Position(c)' .. (Position(c)' + Len(rest) - 1)
        BY <2>1, <4>4, <4>6, <4>8, <4>9
      <4>11. ToWrite(x)'
        BY <1>3, <1>15, <4>5, <4>10 DEF x, Spot
      <4> QED
        BY <4>11 DEF x
    <3>3. ~ ToWrite(x)
      BY <1>14, <3>2
    <3> QED
      BY <2>1, <3>1, <3>3 DEF ArrayInv, BodyInv
  <2> QED
    BY <2>3, <2>4
<1> QED
  BY <1>17, <1>18, <1>19, <1>20 DEF ArrayInv

\* A call begins, and no other is under way: it reads what the book should
\* hold, or writes what it should hold from now on.
LEMMA BeginArray ==
  ASSUME BookInv, ArrayInv, ~ overlapped, NEW c \in Clients,
         NEW at \in Nat, NEW count \in Nat, NEW bytes \in Seq(Cell),
         Begin(c, at, count, bytes), ~ overlapped',
         call'[c].kind \in {"read", "write"},
         \A d \in Clients : d # c => call'[d] = call[d],
         call'[c].kind = "read" =>
           /\ Len(call'[c].want) = call'[c].count
           /\ at + count <= Reach
           /\ \A k \in 1 .. count : call'[c].want[k] = expected[at + k - 1]
           /\ expected' = expected,
         call'[c].kind = "write" =>
           /\ at + Len(bytes) <= Reach
           /\ \A k \in 1 .. Len(bytes) : bytes[k] = expected'[at + k - 1]
           /\ \A x \in 0 .. (Reach - 1) :
                x \notin at .. (at + Len(bytes) - 1) =>
                  expected'[x] = expected[x]
  PROVE  ArrayInv'
<1>1. /\ UNCHANGED <<pages, page_size, new>>
      /\ \A d \in Clients : ~ Active(d)
      /\ pc' = [pc EXCEPT ![c] = Seek(at)]
      /\ page' = [page EXCEPT ![c] = 0]
      /\ offset' = [offset EXCEPT ![c] = at]
      /\ length' = [length EXCEPT ![c] = count]
      /\ tail' = [tail EXCEPT ![c] = bytes]
      /\ buf' = [buf EXCEPT ![c] = <<>>]
  BY DEF Begin, vars, Active
<1>2. /\ pc'[c] = Seek(at) /\ page'[c] = 0 /\ offset'[c] = at
      /\ length'[c] = count /\ tail'[c] = bytes /\ buf'[c] = <<>>
      /\ Seek(at) \in {"next", "body"}
  BY <1>1, BookTypes DEF BookInv, CursorInv, Seek
<1>3. \A d \in Clients : d # c => /\ pc'[d] = pc[d] /\ buf'[d] = buf[d]
                                  /\ ~ Active(d)'
  BY <1>1, BookTypes DEF BookInv, CursorInv, Active
<1>4. page_size \in Nat \ {0} /\ Spot(0, at) = at /\ Reach \in Nat
  BY BookTypes, SpotFacts, BookAssumption
<1>5. Position(c)' = at /\ Active(c)'
  <2>1. pc'[c] # "body" => at >= page_size
    BY <1>2 DEF Seek
  <2>2. Position(c)' = 0 * page_size + at
    BY <1>1, <1>2, <1>4, <2>1 DEF Position, Spot
  <2> QED
    BY <1>2, <1>4, <2>2 DEF Spot, Active
<1>6. RowInv'
  <2>1. \A d \in Clients : /\ pc[d] \notin {"link", "create"}
                           /\ pc'[d] \notin {"link", "create"}
    BY <1>1, <1>2, <1>3 DEF Active
  <2> QED
    BY <1>1, <2>1 DEF ArrayInv, RowInv, Number, Successor
<1>7. OneCall'
  BY <1>3 DEF OneCall
<1>8. TailInv'
  BY <1>2, <1>3, <1>5, BookAssumption DEF TailInv
<1>9. WantInv'
  <2> SUFFICES ASSUME NEW d \in Clients, call'[d].kind = "read"
               PROVE  /\ Len(call'[d].want) = call'[d].count
                      /\ \A k \in 1 .. Len(buf'[d]) :
                           buf'[d][k] = call'[d].want[k]
                      /\ Active(d)' =>
                         /\ Position(d)' + length'[d] <= Reach
                         /\ \A k \in 1 .. length'[d] :
                              call'[d].want[Len(buf'[d]) + k]
                                = expected'[Position(d)' + k - 1]
    BY DEF WantInv
  <2>1. CASE d # c
    <3>1. call'[d] = call[d] /\ buf'[d] = buf[d] /\ ~ Active(d)'
      BY <1>3, <2>1
    <3>2. /\ Len(call[d].want) = call[d].count
          /\ \A k \in 1 .. Len(buf[d]) : buf[d][k] = call[d].want[k]
      BY <3>1 DEF ArrayInv, WantInv
    <3> QED
      BY <3>1, <3>2
  <2>2. CASE d = c
    <3>1. Len(buf'[c]) = 0 /\ \A k \in 1 .. count : 0 + k = k
      BY <1>2
    <3>2. /\ Len(call'[c].want) = call'[c].count
          /\ at + count <= Reach
          /\ \A k \in 1 .. count : call'[c].want[k] = expected'[at + k - 1]
      BY <2>2
    <3>3. \A k \in 1 .. count :
            call'[c].want[Len(buf'[c]) + k] = expected'[at + k - 1]
      BY <3>1, <3>2
    <3>4. \A k \in 1 .. Len(buf'[c]) : buf'[c][k] = call'[c].want[k]
      BY <3>1
    <3>5. Position(c)' + length'[c] <= Reach
      BY <1>2, <1>5, <3>2
    <3>6. \A k \in 1 .. length'[c] :
            call'[c].want[Len(buf'[c]) + k] = expected'[Position(c)' + k - 1]
      <4> DEFINE before == Len(buf'[c])
      <4> HIDE DEF before
      <4>1. \A k \in 1 .. count : call'[c].want[before + k]
                                    = expected'[Position(c)' + k - 1]
        BY <1>5, <3>3 DEF before
      <4> QED
        BY <1>2, <4>1 DEF before
    <3> QED
      BY <2>2, <3>2, <3>4, <3>5, <3>6
  <2> QED
    BY <2>1, <2>2
<1>10. \A x : ToWrite(x)' <=>
         /\ call'[c].kind = "write"
         /\ x \in at .. (at + Len(bytes) - 1)
  BY <1>2, <1>3, <1>5 DEF ToWrite
<1>11. BodyInv'
  <2> SUFFICES ASSUME NEW n \in Nat, NEW i \in 0 .. (page_size - 1),
                      Spot(n, i) < Reach, ~ ToWrite(Spot(n, i))'
               PROVE  Held(n, i)' = expected'[Spot(n, i)]
    <3>1. \A n, i : Spot(n, i)' = Spot(n, i)
      BY <1>1 DEF Spot
    <3> QED
      BY <1>1, <3>1, BookAssumption DEF BodyInv
  <2>1. Spot(n, i)' = Spot(n, i) /\ Held(n, i)' = Held(n, i)
    BY <1>1 DEF Spot, Held, Number
  <2>2. Held(n, i) = expected[Spot(n, i)]
    BY <1>1, NoCallNoWrite DEF ArrayInv, BodyInv
  <2>3. Spot(n, i) \in 0 .. (Reach - 1)
    <3>1. i \in Nat
      BY <1>4
    <3>2. Spot(n, i) \in Nat
      BY <1>4, <3>1, SpotFacts
    <3> QED
      BY <1>4, <3>2
  <2>4. expected'[Spot(n, i)] = expected[Spot(n, i)]
    BY <1>10, <2>1, <2>3
  <2> QED
    BY <2>1, <2>2, <2>4
<1> QED
  BY <1>6, <1>7, <1>8, <1>9, <1>11 DEF ArrayInv

\* A client calls read.
LEMMA ReadArray ==
  ASSUME BookInv, ArrayInv, ~ overlapped, ~ overlapped', NEW c \in Clients,
         NEW at \in 0 .. (Reach - 1), NEW count \in Counts, Read(c, at, count)
  PROVE  ArrayInv'
<1> DEFINE want == Slice(expected, at, count)
<1>1. count \in Nat /\ at \in Nat /\ at + count <= Reach
  BY BookAssumption DEF Read
<1>2. Begin(c, at, count, <<>>) /\ expected' = expected /\ <<>> \in Seq(Cell)
  BY DEF Read
<1>3. /\ Len(want) = count
      /\ \A k \in 1 .. count : want[k] = expected[at + k - 1]
  BY <1>1 DEF Slice
<1> HIDE DEF want
<1>4. /\ call'[c] = [kind |-> "read", count |-> count, want |-> want]
      /\ \A d \in Clients : d # c => call'[d] = call[d]
  BY DEF Read, BookInv, CursorInv, want
<1>5. /\ call'[c].kind = "read" /\ call'[c].count = count
      /\ call'[c].want = want
  BY <1>4
<1> QED
  BY <1>1, <1>2, <1>3, <1>4, <1>5, BeginArray

\* A client calls write.
LEMMA WriteArray ==
  ASSUME BookInv, ArrayInv, ~ overlapped, ~ overlapped', NEW c \in Clients,
         NEW at \in 0 .. (Reach - 1), NEW bytes \in Bytes, Write(c, at, bytes)
  PROVE  ArrayInv'
<1>1. /\ at \in Nat /\ bytes \in Seq(Cell) /\ at + Len(bytes) <= Reach
      /\ Len(bytes) \in Nat /\ Reach \in Nat
  BY BytesAreCells, BookAssumption, LenProperties DEF Write
<1>2. Begin(c, at, 0, bytes)
  BY DEF Write
<1>3. /\ call'[c].kind = "write"
      /\ \A d \in Clients : d # c => call'[d] = call[d]
  BY DEF Write, BookInv, CursorInv
<1>4. expected' = [x \in 0 .. (Reach - 1) |->
                     IF x - at + 1 \in 1 .. Len(bytes)
                       THEN bytes[x - at + 1] ELSE expected[x]]
  BY DEF Write, BookInv, CursorInv
<1>5. \A k \in 1 .. Len(bytes) : bytes[k] = expected'[at + k - 1]
  <2> SUFFICES ASSUME NEW k \in 1 .. Len(bytes)
               PROVE  bytes[k] = expected'[at + k - 1]
    OBVIOUS
  <2>1. at + k - 1 \in 0 .. (Reach - 1) /\ (at + k - 1) - at + 1 = k
    BY <1>1
  <2> QED
    BY <1>4, <2>1
<1>6. \A x \in 0 .. (Reach - 1) :
        x \notin at .. (at + Len(bytes) - 1) => expected'[x] = expected[x]
  BY <1>1, <1>4
<1> QED
  BY <1>1, <1>2, <1>3, <1>5, <1>6, BeginArray

\* Every step of the clients preserves what the book should hold.
LEMMA ArrayStepInv ==
  BookInv /\ ArrayInv /\ [BookNext]_bookVars => ArrayInv'
<1> SUFFICES ASSUME BookInv, ArrayInv, [BookNext]_bookVars, ~ overlapped'
             PROVE  ArrayInv'
  BY DEF ArrayInv
<1>1. ASSUME NEW c \in Clients, NEW at \in 0 .. (Reach - 1),
             NEW count \in Counts, Read(c, at, count)
      PROVE  ArrayInv'
  <2>1. ~ overlapped
    BY <1>1 DEF Read, Begin
  <2> QED
    BY <1>1, <2>1, ReadArray
<1>2. ASSUME NEW c \in Clients, NEW at \in 0 .. (Reach - 1),
             NEW bytes \in Bytes, Write(c, at, bytes)
      PROVE  ArrayInv'
  <2>1. ~ overlapped
    BY <1>2 DEF Write, Begin
  <2> QED
    BY <1>2, <2>1, WriteArray
<1>3. ASSUME NEW c \in Clients, ClientStep(c)
      PROVE  ArrayInv'
  <2>1. CASE NextExists(c)
    BY <2>1, NextExistsArray DEF NextExists, Arrive
  <2>2. CASE NextMissing(c)
    BY <2>2, NextMissingArray DEF NextMissing, historyVars
  <2>3. CASE CreateNext(c)
    BY <2>3, CreateNextArray DEF CreateNext, historyVars
  <2>4. CASE LinkNext(c)
    BY <2>4, LinkNextArray DEF LinkNext, Arrive
  <2>5. CASE ReadBody(c)
    BY <2>5, ReadBodyArray DEF ReadBody, historyVars
  <2>6. CASE WriteBody(c)
    BY <2>6, WriteBodyArray DEF WriteBody, historyVars
  <2> QED
    BY <1>3, <2>1, <2>2, <2>3, <2>4, <2>5, <2>6 DEF ClientStep
<1>4. CASE UNCHANGED bookVars
  BY <1>4 DEF bookVars, vars, clientVars, historyVars, ArrayInv, OneCall,
              RowInv, TailInv, WantInv, BodyInv, Active, Position, Held,
              ToWrite, Spot, Number, Successor
<1> QED
  BY <1>1, <1>2, <1>3, <1>4 DEF BookNext

\* As long as calls come one after the other, reads return what writes put
\* there and zeros where nothing was written, for every page size, every
\* length of the chain and all offsets: the chain of pages is one array
\* (book.rs:49-125).
THEOREM BookIsAnArray == BookSpec => []ReadsWhatWasWritten
<1>1. BookInit => ArrayInv
  BY ArrayInitInv
<1>2. BookInv /\ ArrayInv /\ [BookNext]_bookVars => ArrayInv'
  BY ArrayStepInv
<1>3. BookInv /\ ArrayInv => ReadsWhatWasWritten
  <2> SUFFICES ASSUME BookInv, ArrayInv, NEW c \in Clients,
                      pc[c] = "idle", call[c].kind = "read", ~ overlapped
               PROVE  buf[c] = call[c].want
    BY DEF ReadsWhatWasWritten
  <2>1. /\ Len(buf[c]) + length[c] = call[c].count /\ length[c] = 0
        /\ Len(buf[c]) \in Nat
    BY BookTypes DEF BookInv, ReadInv
  <2>2. /\ Len(call[c].want) = call[c].count
        /\ \A k \in 1 .. Len(buf[c]) : buf[c][k] = call[c].want[k]
    BY DEF ArrayInv, WantInv
  <2>3. call[c].want \in Seq(Cell) /\ buf[c] \in Seq(Cell)
    BY BookTypes DEF BookInv, CursorInv, Call
  <2>4. Len(buf[c]) = Len(call[c].want)
    BY <2>1, <2>2
  <2> QED
    BY <2>2, <2>3, <2>4, SeqEqual
<1> QED
  BY <1>1, <1>2, <1>3, BookAlwaysInv, PTL DEF BookSpec

=============================================================================
