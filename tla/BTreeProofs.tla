----------------------------- MODULE BTreeProofs -----------------------------
(***************************************************************************)
(* Proofs about insertion into the B-tree.  Every address in a page leads  *)
(* to a page, so that a call of insert, one that runs astray as well, asks *)
(* for pages that exist; max_records is the number of records that the     *)
(* scan of a page finds room for; and every key is found, in one record,   *)
(* until a left address is written over.                                   *)
(***************************************************************************)
EXTENDS BTree, NumberInduction, FiniteSetTheorems, SequenceTheorems

\* The one-line operators of the code are read as what they stand for.
USE DEF None, RecordSize, RecordShift, Answered, RightOf

-----------------------------------------------------------------------------
(***************************************************************************)
(* The size of a page in records.                                          *)
(***************************************************************************)

\* Halves, as the solver needs them.
LEMMA Halves ==
  ASSUME NEW n \in Nat
  PROVE  /\ n \div 2 \in Nat
         /\ n = 2 * (n \div 2) \/ n = 2 * (n \div 2) + 1
         /\ n % 2 = 0 <=> n = 2 * (n \div 2)
         /\ n % 2 = 1 <=> n = 2 * (n \div 2) + 1
  OBVIOUS

\* The offsets of the records are the even numbers of which max_records exist.
LEMMA OffsetsCounted ==
  ASSUME NEW L \in Nat \ {0, 1}, NEW body, Len(body) = L
  PROVE  Cardinality(Offsets(body)) = MaxRecords(L)
<1> DEFINE m    == L \div 2
           n    == MaxRecords(L)
           f    == [j \in 1 .. n |-> 2 * (j - 1)]
<1>1. /\ m \in Nat /\ m >= 1
      /\ L = 2 * m \/ L = 2 * m + 1
  BY Halves
<1>2. /\ n \in Nat
      /\ L = 2 * m => n = m - 1
      /\ L = 2 * m + 1 => n = m
  BY <1>1 DEF MaxRecords
<1> HIDE DEF m, n
<1>3. \A j \in 1 .. n : 2 * (j - 1) \in Offsets(body)
  <2> SUFFICES ASSUME NEW j \in 1 .. n PROVE 2 * (j - 1) \in Offsets(body)
    OBVIOUS
  <2>1. 2 * (j - 1) \in 0 .. L /\ 2 * (j - 1) + 3 <= L
    BY <1>1, <1>2
  <2>2. (2 * (j - 1)) % 2 = 0
    BY <1>2
  <2> QED
    BY <2>1, <2>2 DEF Offsets
<1>4. \A i \in Offsets(body) : \E j \in 1 .. n : i = 2 * (j - 1)
  <2> SUFFICES ASSUME NEW i \in Offsets(body)
               PROVE  \E j \in 1 .. n : i = 2 * (j - 1)
    OBVIOUS
  <2>1. i \in 0 .. L /\ i % 2 = 0 /\ i + 3 <= L
    BY DEF Offsets
  <2> DEFINE h == i \div 2
  <2>2. h \in Nat /\ i = 2 * h
    BY <2>1, Halves
  <2> HIDE DEF h
  <2>3. h + 1 \in 1 .. n /\ i = 2 * ((h + 1) - 1)
    BY <1>1, <1>2, <2>1, <2>2
  <2> QED
    BY <2>3
<1>5. f \in Bijection(1 .. n, Offsets(body))
  <2>1. f \in [1 .. n -> Offsets(body)]
    BY <1>3
  <2>2. \A a, b \in 1 .. n : f[a] = f[b] => a = b
    BY <1>2
  <2>3. \A i \in Offsets(body) : \E j \in 1 .. n : f[j] = i
    BY <1>4
  <2> HIDE DEF f
  <2>4. f \in Injection(1 .. n, Offsets(body))
    BY <2>1, <2>2 DEF Injection, IsInjective
  <2>5. f \in Surjection(1 .. n, Offsets(body))
    BY <2>1, <2>3 DEF Surjection
  <2> QED
    BY <2>4, <2>5 DEF Bijection
<1>6. ExistsBijection(1 .. n, Offsets(body))
  BY <1>5 DEF ExistsBijection
<1>7. Cardinality(Offsets(body)) = n
  BY <1>2, <1>6, FS_CountingElements
<1> QED
  BY <1>7 DEF n

-----------------------------------------------------------------------------
(***************************************************************************)
(* What pages and records hold.                                            *)
(***************************************************************************)

Record == [key : Nat \cup {None}, value : Values \cup {None},
           left : Neighbour, right : Neighbour]

\* The part of a record between its addresses.
Core == [key : Nat \cup {None}, value : Values \cup {None},
         left_set : BOOLEAN, right_set : BOOLEAN]

Cell == {Zero} \cup Nat \cup Core

Page == [header : {[prev |-> None, next |-> None]},
         body   : [1 .. page_size -> Cell]]

\* Addresses take the odd cells of a body, and they are numbers of pages.
CellAt(i) == {Zero} \cup (IF i % 2 = 1 THEN Number ELSE Core)
Shaped(body) == \A i \in 1 .. page_size : body[i] \in CellAt(i)

\* The table of pages, as a tree leaves it.
TableInv ==
  /\ page_size \in Nat \ {0, 1}
  /\ pages \in Seq(Page)
  /\ Len(pages) > 0
  /\ \A n \in Number : Shaped(pages[n + 1].body)

\* A record stays where records begin, and the address it is to be stored with
\* is that of a page.
CallInv ==
  /\ todo \in Seq(Nat)
  /\ key \in Nat \cup {None} /\ value \in Values \cup {None}
  /\ at % 2 = 0
  /\ record \in Record
  /\ pc = "link" => record[side] \in Number

TreeInv == TableInv /\ TreeTypeOK /\ CallInv

\* What is at hand in every proof about the table.
LEMMA PagesArePages ==
  ASSUME TableInv
  PROVE  /\ Len(pages) \in Nat
         /\ DOMAIN pages = 1 .. Len(pages)
         /\ 0 \in Number
         /\ \A n \in Number : n \in Nat /\ n + 1 \in DOMAIN pages
         /\ \A n \in Number : pages[n + 1] \in Page
         /\ \A n \in Number : /\ pages[n + 1].body \in Seq(Cell)
                              /\ Len(pages[n + 1].body) = page_size
<1>1. Len(pages) \in Nat /\ DOMAIN pages = 1 .. Len(pages)
  BY LenProperties DEF TableInv
<1>2. /\ 0 \in Number
      /\ \A n \in Number : n \in Nat /\ n + 1 \in DOMAIN pages
  BY <1>1 DEF Number, TableInv
<1>3. \A n \in Number : pages[n + 1] \in Page
  BY <1>1, <1>2, ElementOfSeq DEF TableInv
<1>4. ASSUME NEW n \in Number
      PROVE  /\ pages[n + 1].body \in Seq(Cell)
             /\ Len(pages[n + 1].body) = page_size
  <2> DEFINE body == pages[n + 1].body
  <2>1. body \in [1 .. page_size -> Cell]
    BY <1>3 DEF Page
  <2> HIDE DEF body
  <2>2. page_size \in Nat
    BY DEF TableInv
  <2>3. body \in Seq(Cell)
    BY <2>1, <2>2, SeqDef
  <2> QED
    BY <2>1, <2>2, <2>3, LenProperties DEF body
<1> QED
  BY <1>1, <1>2, <1>3, <1>4

\* What from_bytes reads in a page is a record.
LEMMA RecordsAreRecords ==
  ASSUME TableInv, NEW n \in Number, NEW i \in Offsets(pages[n + 1].body)
  PROVE  /\ FromBytes(pages[n + 1].body, i) \in Record
         /\ i \in 0 .. page_size /\ i % 2 = 0 /\ i + 3 <= page_size
<1> DEFINE body == pages[n + 1].body
<1>1. Shaped(body) /\ Len(body) = page_size /\ page_size \in Nat
  BY PagesArePages DEF TableInv
<1> HIDE DEF body
<1>2. i \in 0 .. page_size /\ i % 2 = 0 /\ i + 3 <= page_size
  BY <1>1 DEF Offsets, body
<1>3. /\ i + 1 \in 1 .. page_size /\ i + 2 \in 1 .. page_size
      /\ i + 3 \in 1 .. page_size
  BY <1>1, <1>2
<1>4. (i + 1) % 2 = 1 /\ (i + 2) % 2 # 1 /\ (i + 3) % 2 = 1
  BY <1>2
<1>5. /\ body[i + 1] \in {Zero} \cup Number
      /\ body[i + 2] \in {Zero} \cup Core
      /\ body[i + 3] \in {Zero} \cup Number
  BY <1>1, <1>3, <1>4 DEF Shaped, CellAt
<1>6. /\ CellToAddr(body[i + 1]) \in Number
      /\ CellToAddr(body[i + 3]) \in Number
  BY <1>5, PagesArePages DEF CellToAddr
<1>7. BlankRecord \in Record
  BY DEF BlankRecord, Record, Neighbour
<1>8. CASE body[i + 2] = Zero
  BY <1>2, <1>7, <1>8 DEF FromBytes, body
<1>9. CASE body[i + 2] # Zero
  <2> DEFINE core  == body[i + 2]
             left  == IF core.left_set THEN CellToAddr(body[i + 1]) ELSE None
             right == IF core.right_set THEN CellToAddr(body[i + 3]) ELSE None
  <2>1. core \in Core
    BY <1>5, <1>9
  <2>2. left \in Neighbour /\ right \in Neighbour
    BY <1>6 DEF Neighbour
  <2>3. core.key \in Nat \cup {None} /\ core.value \in Values \cup {None}
    BY <2>1 DEF Core
  <2>4. FromBytes(body, i) = [key |-> core.key, value |-> core.value,
                              left |-> left, right |-> right]
    BY <1>9 DEF FromBytes
  <2> HIDE DEF core, left, right
  <2> QED
    BY <1>2, <2>2, <2>3, <2>4 DEF Record, body
<1> QED
  BY <1>8, <1>9

\* What to_bytes makes of a record.
LEMMA BytesOfRecord ==
  ASSUME NEW r \in Record, 0 \in Number, Len(pages) \in Nat
  PROVE  /\ Len(ToBytes(r)) = 3
         /\ ToBytes(r)[1] \in {Zero} \cup Number
         /\ ToBytes(r)[2] \in Core
         /\ ToBytes(r)[3] \in {Zero} \cup Number
<1> DEFINE a == AddrToCell(r.left)
           b == [key |-> r.key, value |-> r.value,
                 left_set |-> r.left # None, right_set |-> r.right # None]
           c == AddrToCell(r.right)
<1>1. a \in {Zero} \cup Number /\ c \in {Zero} \cup Number
  BY DEF AddrToCell, Record, Neighbour
<1>2. b \in Core
  BY DEF Core, Record
<1>3. ToBytes(r) = <<a, b, c>>
  BY DEF ToBytes
<1> HIDE DEF a, b, c
<1> QED
  BY <1>1, <1>2, <1>3

-----------------------------------------------------------------------------
(***************************************************************************)
(* What the tasks of a call do to the table.                               *)
(***************************************************************************)

\* ReadPage answers with the body of the page at hand.
LEMMA BodyIsRead ==
  ASSUME TreeInv, ReadBody
  PROVE  /\ UNCHANGED <<pages, page_size, whole>>
         /\ pc = "read" /\ curr_page \in Number
         /\ Body = pages[curr_page + 1].body
<1> DEFINE body == pages[curr_page + 1].body
<1>1. curr_page \in Number /\ TableInv
  BY DEF TreeInv, TreeTypeOK
<1>2. body \in Seq(Cell) /\ Len(body) = page_size /\ page_size \in Nat
  BY <1>1, PagesArePages DEF TableInv
<1>3. pc = "read" /\ Get(curr_page, 0, page_size)
  BY DEF ReadBody
<1>4. /\ UNCHANGED <<pages, page_size, whole>>
      /\ reply' = [bytes |-> SubSeq(body, 1, page_size)]
  BY <1>2, <1>3 DEF Get
<1> HIDE DEF body
<1>5. SubSeq(body, 1, page_size) = body
  BY <1>2, SubSeqFull
<1> QED
  BY <1>1, <1>3, <1>4, <1>5 DEF Body, body

\* CreatePage adds a blank page.
LEMMA CreateKeeps ==
  ASSUME TableInv, Create(None)
  PROVE  /\ TableInv'
         /\ page_size' = page_size
         /\ Len(pages') = Len(pages) + 1
         /\ reply'.page = Len(pages)
         /\ Number' = Number \cup {Len(pages)}
         /\ \A n \in Number : pages'[n + 1] = pages[n + 1]
         /\ pages'[Len(pages) + 1].body = [i \in 1 .. page_size |-> Zero]
<1> DEFINE blank == [header |-> [prev |-> None, next |-> None],
                     body   |-> [i \in 1 .. page_size |-> Zero]]
<1>1. /\ pages' = Append(pages, blank)
      /\ page_size' = page_size
      /\ reply' = [page |-> Len(pages)]
  BY DEF Create
<1>2. blank \in Page /\ blank.body = [i \in 1 .. page_size |-> Zero]
  BY DEF Page, Cell
<1>3. pages \in Seq(Page) /\ Len(pages) \in Nat /\ Len(pages) > 0
  BY PagesArePages DEF TableInv
<1> HIDE DEF blank
<1>4. /\ pages' \in Seq(Page)
      /\ Len(pages') = Len(pages) + 1
      /\ \A i \in 1 .. Len(pages) : pages'[i] = pages[i]
      /\ pages'[Len(pages) + 1] = blank
  BY <1>1, <1>2, <1>3, AppendProperties
<1>5. /\ Number' = Number \cup {Len(pages)}
      /\ Number = 0 .. (Len(pages) - 1)
  BY <1>3, <1>4 DEF Number
<1>6. \A n \in Number : pages'[n + 1] = pages[n + 1]
  BY <1>3, <1>4, <1>5
<1>7. Page' = Page
  BY <1>1 DEF Page
<1>8. ASSUME NEW n \in Number'
      PROVE  \A i \in 1 .. page_size' : pages'[n + 1].body[i] \in CellAt(i)'
  <2>1. \A i : CellAt(i) \subseteq CellAt(i)'
    BY <1>5 DEF CellAt
  <2>2. CASE n \in Number
    <3>1. Shaped(pages[n + 1].body)
      BY <2>2 DEF TableInv
    <3> QED
      BY <1>1, <1>6, <2>1, <2>2, <3>1 DEF Shaped
  <2>3. CASE n = Len(pages)
    <3>1. pages'[n + 1].body = [i \in 1 .. page_size |-> Zero]
      BY <1>2, <1>4, <2>3
    <3> QED
      BY <1>1, <3>1 DEF Shaped, CellAt
  <2> QED
    BY <1>5, <2>2, <2>3
<1>9. TableInv'
  <2>1. \A n \in Number' : Shaped(pages[n + 1].body)'
    BY <1>8 DEF Shaped
  <2>2. pages' \in Seq(Page)' /\ Len(pages') > 0
    BY <1>3, <1>4, <1>7
  <2>3. page_size' \in Nat \ {0, 1}
    BY <1>1 DEF TableInv
  <2> QED
    BY <2>1, <2>2, <2>3 DEF TableInv
<1> QED
  BY <1>1, <1>2, <1>4, <1>5, <1>6, <1>9

\* WritePage with the bytes of a record, where records begin.
LEMMA PutKeeps ==
  ASSUME TableInv, NEW n \in Number, NEW o \in Nat, o % 2 = 0,
         NEW r \in Record, Put(n, o, ToBytes(r))
  PROVE  /\ TableInv'
         /\ page_size' = page_size
         /\ Len(pages') = Len(pages)
         /\ pages'[n + 1].body =
              [i \in 1 .. page_size |->
                 IF i - o \in 1 .. 3 THEN ToBytes(r)[i - o]
                 ELSE pages[n + 1].body[i]]
         /\ \A m \in Number : m # n => pages'[m + 1] = pages[m + 1]
<1> DEFINE old   == pages[n + 1].body
           body  == [i \in 1 .. page_size |->
                       IF i - o \in 1 .. 3 THEN ToBytes(r)[i - o] ELSE old[i]]
           page  == [pages[n + 1] EXCEPT !.body = body]
<1>1. /\ Len(ToBytes(r)) = 3
      /\ ToBytes(r)[1] \in {Zero} \cup Number
      /\ ToBytes(r)[2] \in Core
      /\ ToBytes(r)[3] \in {Zero} \cup Number
  BY BytesOfRecord, PagesArePages
<1>2. /\ pages[n + 1] \in Page /\ n + 1 \in DOMAIN pages
      /\ DOMAIN pages = 1 .. Len(pages)
      /\ pages \in Seq(Page) /\ Len(pages) \in Nat
  BY PagesArePages DEF TableInv
<1>3. page_size' = page_size /\ pages' = [pages EXCEPT ![n + 1] = page]
  BY <1>1, <1>2 DEF Put
<1>4. old \in [1 .. page_size -> Cell] /\ Shaped(old) /\ page_size \in Nat
  BY <1>2 DEF Page, TableInv
<1>5. \A m \in Number : m \in Nat
  BY PagesArePages
<1>6. ASSUME NEW i \in 1 .. page_size
      PROVE  body[i] \in CellAt(i) /\ body[i] \in Cell
  <2>1. CASE i - o = 1
    <3>1. i % 2 = 1
      BY <2>1
    <3> QED
      BY <1>1, <1>5, <2>1, <3>1 DEF CellAt, Cell
  <2>2. CASE i - o = 2
    <3>1. i % 2 # 1
      BY <2>2
    <3> QED
      BY <1>1, <2>2, <3>1 DEF CellAt, Cell
  <2>3. CASE i - o = 3
    <3>1. i % 2 = 1
      BY <2>3
    <3> QED
      BY <1>1, <1>5, <2>3, <3>1 DEF CellAt, Cell
  <2>4. CASE i - o \notin 1 .. 3
    BY <1>4, <2>4 DEF Shaped
  <2> QED
    BY <1>4, <2>1, <2>2, <2>3, <2>4
<1>7. body \in [1 .. page_size -> Cell] /\ Shaped(body)
  BY <1>6 DEF Shaped
<1> HIDE DEF body, old
<1>8. page \in Page /\ page.body = body
  BY <1>2, <1>7 DEF Page
<1> HIDE DEF page
<1>9. /\ pages' \in Seq(Page)
      /\ Len(pages') = Len(pages)
      /\ pages'[n + 1] = page
      /\ \A m \in Number : m # n => pages'[m + 1] = pages[m + 1]
  <2>1. n + 1 \in 1 .. Len(pages)
    BY <1>2
  <2>2. pages' \in Seq(Page) /\ Len(pages') = Len(pages)
    BY <1>2, <1>3, <1>8, <2>1, ExceptSeq
  <2> QED
    BY <1>2, <1>3, <1>5, <2>2
<1>10. /\ Number' = Number /\ Page' = Page
       /\ \A b : Shaped(b)' <=> Shaped(b)
  BY <1>3, <1>9 DEF Number, Page, Shaped, CellAt
<1>11. TableInv'
  BY <1>3, <1>7, <1>8, <1>9, <1>10 DEF TableInv
<1> QED
  BY <1>3, <1>8, <1>9, <1>11 DEF body, old

-----------------------------------------------------------------------------
(***************************************************************************)
(* Every step keeps the invariant.                                         *)
(***************************************************************************)

\* The last of some numbers, when there is a bound for them.
LEMMA LastOfNumbers ==
  ASSUME NEW N \in Nat, NEW S, S \subseteq 0 .. N, S # {}
  PROVE  Last(S) \in S /\ \A j \in S : Last(S) >= j
<1> DEFINE A == {N - j : j \in S}
<1>1. A \subseteq Nat /\ A # {}
  <2>1. \A j \in S : N - j \in Nat
    OBVIOUS
  <2> QED
    BY <2>1
<1>2. PICK m \in A : \A k \in A : m <= k
  BY <1>1, LeastNumber
<1>3. PICK i \in S : m = N - i
  BY <1>2
<1>4. \A j \in S : N - i <= N - j
  BY <1>2, <1>3
<1>5. \A j \in S : i >= j
  BY <1>4
<1> QED
  BY <1>5 DEF Last

\* The first and the last of the offsets that a scan finds.
LEMMA ScanFacts ==
  ASSUME TableInv, NEW n \in Number, NEW S,
         S \subseteq Offsets(pages[n + 1].body), S # {}
  PROVE  /\ First(S) \in S /\ \A j \in S : First(S) <= j
         /\ Last(S) \in S /\ \A j \in S : Last(S) >= j
<1>1. S \subseteq Nat /\ \A j \in S : j <= page_size
  <2>1. \A j \in Offsets(pages[n + 1].body) : j \in 0 .. page_size
    BY RecordsAreRecords
  <2>2. page_size \in Nat
    BY DEF TableInv
  <2> QED
    BY <2>1, <2>2
<1>2. \E i \in S : \A j \in S : i <= j
  BY <1>1, LeastNumber
<1>3. Last(S) \in S /\ \A j \in S : Last(S) >= j
  <2>1. page_size \in Nat /\ S \subseteq 0 .. page_size
    BY <1>1 DEF TableInv
  <2> QED
    BY <2>1, LastOfNumbers
<1> QED
  BY <1>2, <1>3 DEF First

\* A new record is a record, and so is one that has another value or address.
LEMMA RecordForms ==
  ASSUME key \in Nat \cup {None}, value \in Values \cup {None}
  PROVE  /\ NewRecord(key, value) \in Record
         /\ \A r \in Record : Revalued(r) \in Record
         /\ \A r \in Record : \A s \in {"left", "right"} : \A n \in Number :
              /\ [r EXCEPT ![s] = n] \in Record
              /\ [r EXCEPT ![s] = n][s] = n
  BY DEF NewRecord, BlankRecord, Revalued, Record, Neighbour

\* A call begins at the first page.
LEMMA InitHolds ==
  TreeInit => TreeInv
<1> SUFFICES ASSUME TreeInit PROVE TreeInv
  OBVIOUS
<1>1. PICK tree \in Trees : page_size = tree.size /\ todo = tree.order
  BY DEF TreeInit
<1>2. page_size \in Nat \ {0, 1} /\ todo \in Seq(Nat)
  BY <1>1, BTreeAssumption
<1> DEFINE blank == [header |-> [prev |-> None, next |-> None],
                     body   |-> [i \in 1 .. page_size |-> Zero]]
<1>3. blank \in Page /\ blank.body = [i \in 1 .. page_size |-> Zero]
  BY DEF Page, Cell
<1>4. pages = <<blank>>
  BY DEF TreeInit
<1> HIDE DEF blank
<1>5. /\ pages \in Seq(Page) /\ Len(pages) = 1
      /\ pages[1] = blank
  BY <1>3, <1>4
<1>6. Number = {0}
  BY <1>5 DEF Number
<1>7. Shaped(blank.body)
  BY <1>3 DEF Shaped, CellAt
<1>8. TableInv
  BY <1>2, <1>5, <1>6, <1>7 DEF TableInv
<1>9. TreeTypeOK
  BY <1>2, <1>5, <1>6, BTreeAssumption DEF TreeInit, TreeTypeOK
<1>10. BlankRecord \in Record
  BY DEF BlankRecord, Record, Neighbour
<1>11. CallInv
  BY <1>2, <1>10 DEF TreeInit, CallInv
<1> QED
  BY <1>8, <1>9, <1>11 DEF TreeInv

\* A step that leaves the table alone.
LEMMA TableStays ==
  ASSUME TableInv, UNCHANGED <<pages, page_size>>
  PROVE  /\ TableInv'
         /\ Number' = Number
         /\ Record' = Record
<1>1. /\ Number' = Number
      /\ Page' = Page
      /\ \A b : Shaped(b)' <=> Shaped(b)
  BY DEF Number, Page, Shaped, CellAt
<1>2. Record' = Record
  BY <1>1 DEF Record, Neighbour
<1> QED
  BY <1>1, <1>2 DEF TableInv

\* A call is made.
LEMMA InsertKeeps ==
  ASSUME TreeInv, NEW v \in Values, Insert(v)
  PROVE  TreeInv'
<1>1. UNCHANGED <<pages, page_size>>
  BY DEF Insert, vars
<1>2. TableInv' /\ Number' = Number /\ Record' = Record
  BY <1>1, TableStays DEF TreeInv
<1>3. 0 \in Number
  BY PagesArePages DEF TreeInv
<1>4. Head(todo) \in Nat /\ Tail(todo) \in Seq(Nat)
  BY HeadTailProperties DEF Insert, TreeInv, CallInv
<1>5. TreeTypeOK'
  BY <1>1, <1>2, <1>3 DEF Insert, TreeInv, TreeTypeOK
<1>6. CallInv'
  BY <1>2, <1>4 DEF Insert, TreeInv, CallInv
<1> QED
  BY <1>2, <1>5, <1>6 DEF TreeInv

\* What the call goes on with after the scan of a page.
LEMMA WithKeeps ==
  ASSUME TreeInv, UNCHANGED <<pages, page_size, curr_page>>,
         NEW o, o \in 0 .. page_size, o % 2 = 0,
         NEW r \in Record,
         NEW next \in {"write", "write_behind", "create"},
         side' \in {"left", "right"},
         With(o, r, next)
  PROVE  TreeInv'
<1>1. TableInv' /\ Number' = Number /\ Record' = Record
  BY TableStays DEF TreeInv
<1>2. TreeTypeOK'
  BY <1>1 DEF With, TreeInv, TreeTypeOK
<1>3. CallInv'
  BY <1>1 DEF With, TreeInv, CallInv
<1> QED
  BY <1>1, <1>2, <1>3 DEF TreeInv

\* The call goes on with a page that exists.
LEMMA JumpKeeps ==
  ASSUME TreeInv, UNCHANGED <<pages, page_size>>, pc = "read",
         NEW n \in Number, JumpTo(n)
  PROVE  TreeInv'
<1>1. TableInv' /\ Number' = Number /\ Record' = Record
  BY TableStays DEF TreeInv
<1>2. TreeTypeOK'
  BY <1>1 DEF JumpTo, TreeInv, TreeTypeOK
<1>3. CallInv'
  BY <1>1 DEF JumpTo, TreeInv, CallInv
<1> QED
  BY <1>1, <1>2, <1>3 DEF TreeInv

\* The record at which the scan stops, and the one at which it ends.
LEMMA ScannedRecords ==
  ASSUME TreeInv, ReadBody
  PROVE  /\ Stops(Body, key) # {} =>
              LET i == First(Stops(Body, key)) IN
                /\ FromBytes(Body, i) \in Record
                /\ i \in 0 .. page_size /\ i % 2 = 0
         /\ Offsets(Body) # {} =>
              LET i == Last(Offsets(Body)) IN
                /\ FromBytes(Body, i) \in Record
                /\ i \in 0 .. page_size /\ i % 2 = 0
<1>1. curr_page \in Number /\ Body = pages[curr_page + 1].body /\ TableInv
  BY BodyIsRead DEF TreeInv
<1>2. \A i \in Offsets(Body) :
        FromBytes(Body, i) \in Record /\ i \in 0 .. page_size /\ i % 2 = 0
  BY <1>1, RecordsAreRecords
<1>3. \A S : S \subseteq Offsets(Body) /\ S # {} =>
        First(S) \in S /\ Last(S) \in S
  BY <1>1, ScanFacts
<1>4. Stops(Body, key) \subseteq Offsets(Body)
  BY DEF Stops
<1> QED
  BY <1>2, <1>3, <1>4

\* The scan ends where there is room.
LEMMA FindRoomKeeps ==
  ASSUME TreeInv, FindRoom
  PROVE  TreeInv'
<1>1. /\ ReadBody
      /\ UNCHANGED <<pages, page_size, curr_page>>
      /\ side' \in {"left", "right"}
  BY BodyIsRead DEF FindRoom, TreeInv, TreeTypeOK
<1>2. NewRecord(key, value) \in Record
  BY RecordForms DEF TreeInv, CallInv
<1>3. CASE With(0, NewRecord(key, value), "write")
  <2>1. 0 \in 0 .. page_size /\ 0 % 2 = 0
    BY DEF TreeInv, TableInv
  <2> QED
    BY <1>1, <1>2, <1>3, <2>1, WithKeeps
<1>4. CASE /\ Stops(Body, key) # {}
           /\ With(First(Stops(Body, key)), NewRecord(key, value), "write")
  <2> DEFINE i == First(Stops(Body, key))
  <2>1. i \in 0 .. page_size /\ i % 2 = 0
    BY <1>1, <1>4, ScannedRecords
  <2>2. With(i, NewRecord(key, value), "write")
    BY <1>4
  <2> HIDE DEF i
  <2> QED
    BY <1>1, <1>2, <2>1, <2>2, WithKeeps
<1> QED
  BY <1>3, <1>4 DEF FindRoom

\* The scan ends at the key.
LEMMA FindKeyKeeps ==
  ASSUME TreeInv, FindKey
  PROVE  TreeInv'
<1> DEFINE i == First(Stops(Body, key))
           r == FromBytes(Body, i)
<1>1. /\ ReadBody
      /\ UNCHANGED <<pages, page_size, curr_page>>
      /\ side' \in {"left", "right"}
  BY BodyIsRead DEF FindKey, TreeInv, TreeTypeOK
<1>2. Stops(Body, key) # {} /\ With(i, Revalued(r), "write")
  BY DEF FindKey
<1>3. i \in 0 .. page_size /\ i % 2 = 0 /\ r \in Record
  BY <1>1, <1>2, ScannedRecords
<1> HIDE DEF i, r
<1>4. Revalued(r) \in Record
  BY <1>3, RecordForms DEF TreeInv, CallInv
<1> QED
  BY <1>1, <1>2, <1>3, <1>4, WithKeeps

\* The scan ends at a greater key.
LEMMA FindGreaterKeeps ==
  ASSUME TreeInv, FindGreater
  PROVE  TreeInv'
<1> DEFINE i == First(Stops(Body, key))
           r == FromBytes(Body, i)
<1>1. ReadBody /\ pc = "read" /\ UNCHANGED <<pages, page_size>>
  BY BodyIsRead DEF FindGreater
<1>2. /\ Stops(Body, key) # {}
      /\ \/ r.left # None /\ JumpTo(r.left)
         \/ /\ With(i, r, "create")
            /\ side' = "left"
            /\ UNCHANGED curr_page
  BY DEF FindGreater
<1>3. i \in 0 .. page_size /\ i % 2 = 0 /\ r \in Record
  BY <1>1, <1>2, ScannedRecords
<1> HIDE DEF i, r
<1>4. r.left # None => r.left \in Number
  BY <1>3 DEF Record, Neighbour
<1>5. CASE r.left # None /\ JumpTo(r.left)
  BY <1>1, <1>4, <1>5, JumpKeeps
<1>6. CASE With(i, r, "create") /\ side' = "left" /\ UNCHANGED curr_page
  BY <1>1, <1>3, <1>6, WithKeeps
<1> QED
  BY <1>2, <1>5, <1>6

\* The scan comes to the end of the body.
LEMMA FindSmallerKeeps ==
  ASSUME TreeInv, FindSmaller
  PROVE  TreeInv'
<1> DEFINE i == Last(Offsets(Body))
           r == FromBytes(Body, i)
<1>1. ReadBody /\ pc = "read" /\ UNCHANGED <<pages, page_size>>
  BY BodyIsRead DEF FindSmaller
<1>2. /\ Offsets(Body) # {}
      /\ \/ r.right # None /\ JumpTo(r.right)
         \/ /\ ~ FullAt(i)
            /\ With(i + 2, NewRecord(key, value), "write_behind")
            /\ UNCHANGED <<curr_page, side>>
         \/ /\ With(i, r, "create")
            /\ side' = "right"
            /\ UNCHANGED curr_page
  BY DEF FindSmaller
<1>3. i \in 0 .. page_size /\ i % 2 = 0 /\ r \in Record
  BY <1>1, <1>2, ScannedRecords
<1> HIDE DEF i, r
<1>4. r.right # None => r.right \in Number
  BY <1>3 DEF Record, Neighbour
<1>5. CASE r.right # None /\ JumpTo(r.right)
  BY <1>1, <1>4, <1>5, JumpKeeps
<1>6. CASE /\ ~ FullAt(i)
           /\ With(i + 2, NewRecord(key, value), "write_behind")
           /\ UNCHANGED <<curr_page, side>>
  <2>1. page_size \in Nat
    BY DEF TreeInv, TableInv
  <2>2. i + 2 \in 0 .. page_size /\ (i + 2) % 2 = 0
    BY <1>3, <1>6, <2>1 DEF FullAt
  <2>3. NewRecord(key, value) \in Record
    BY RecordForms DEF TreeInv, CallInv
  <2>4. UNCHANGED <<pages, page_size, curr_page>> /\ side' \in {"left", "right"}
    BY <1>1, <1>6 DEF TreeInv, TreeTypeOK
  <2> QED
    BY <1>6, <2>2, <2>3, <2>4, WithKeeps
<1>7. CASE With(i, r, "create") /\ side' = "right" /\ UNCHANGED curr_page
  BY <1>1, <1>3, <1>7, WithKeeps
<1> QED
  BY <1>2, <1>5, <1>6, <1>7

\* The record at hand is written.
LEMMA WriteKeeps ==
  ASSUME TreeInv, WriteRecord
  PROVE  /\ TableInv'
         /\ page_size' = page_size
         /\ Len(pages') = Len(pages)
         /\ Number' = Number
         /\ Record' = Record
<1>1. /\ TableInv /\ curr_page \in Number /\ at \in Nat /\ at % 2 = 0
      /\ record \in Record
  BY DEF TreeInv, TreeTypeOK, CallInv
<1>2. Put(curr_page, at, ToBytes(record))
  BY DEF WriteRecord
<1>3. TableInv' /\ page_size' = page_size /\ Len(pages') = Len(pages)
  BY <1>1, <1>2, PutKeeps
<1>4. Number' = Number
  BY <1>3 DEF Number
<1> QED
  BY <1>3, <1>4 DEF Record, Neighbour

\* The call returns.
LEMMA FinishKeeps ==
  ASSUME TreeInv, Finish
  PROVE  TreeInv'
<1>1. /\ TableInv' /\ page_size' = page_size /\ Len(pages') = Len(pages)
      /\ Number' = Number /\ Record' = Record
  BY WriteKeeps DEF Finish
<1>2. TreeTypeOK'
  BY <1>1 DEF Finish, TreeInv, TreeTypeOK
<1>3. CallInv'
  BY <1>1 DEF Finish, TreeInv, CallInv
<1> QED
  BY <1>1, <1>2, <1>3 DEF TreeInv

\* The record was put behind the last one.
LEMMA WriteBehindKeeps ==
  ASSUME TreeInv, WriteBehind
  PROVE  TreeInv'
<1>1. /\ TableInv' /\ page_size' = page_size /\ Len(pages') = Len(pages)
      /\ Number' = Number /\ Record' = Record
  BY WriteKeeps DEF WriteBehind
<1>2. TreeTypeOK'
  BY <1>1 DEF WriteBehind, TreeInv, TreeTypeOK
<1>3. CallInv'
  BY <1>1 DEF WriteBehind, TreeInv, CallInv
<1> QED
  BY <1>1, <1>2, <1>3 DEF TreeInv

\* The new page is one that the record may lead to.
LEMMA CreateChildKeeps ==
  ASSUME TreeInv, CreateChild
  PROVE  TreeInv'
<1>1. /\ TableInv' /\ page_size' = page_size
      /\ Len(pages') = Len(pages) + 1
      /\ reply'.page = Len(pages)
      /\ Number' = Number \cup {Len(pages)}
  BY CreateKeeps DEF CreateChild, TreeInv
<1>2. Len(pages) < MaxPages /\ Len(pages) \in Nat /\ MaxPages \in Nat
  BY PagesArePages, BTreeAssumption DEF CreateChild, TreeInv
<1>3. TreeTypeOK'
  BY <1>1, <1>2 DEF CreateChild, TreeInv, TreeTypeOK
<1>4. /\ record \in Record /\ side \in {"left", "right"}
      /\ record' = [record EXCEPT ![side] = Len(pages)]
      /\ side' = side
  BY <1>1 DEF CreateChild, TreeInv, TreeTypeOK, CallInv
<1>5. record' \in Record' /\ record'[side'] \in Number'
  BY <1>1, <1>4 DEF Record, Neighbour
<1>6. CallInv'
  BY <1>5 DEF CreateChild, TreeInv, CallInv
<1> QED
  BY <1>1, <1>3, <1>6 DEF TreeInv

\* The call goes to the page it has created.
LEMMA LinkChildKeeps ==
  ASSUME TreeInv, LinkChild
  PROVE  TreeInv'
<1>1. /\ TableInv' /\ page_size' = page_size /\ Len(pages') = Len(pages)
      /\ Number' = Number /\ Record' = Record
  BY WriteKeeps DEF LinkChild
<1>2. record[side] \in Number
  BY DEF LinkChild, TreeInv, CallInv
<1>3. TreeTypeOK'
  BY <1>1, <1>2 DEF LinkChild, TreeInv, TreeTypeOK
<1>4. CallInv'
  BY <1>1 DEF LinkChild, TreeInv, CallInv
<1> QED
  BY <1>1, <1>3, <1>4 DEF TreeInv

\* Every step keeps the invariant.
LEMMA StepKeeps ==
  TreeInv /\ [TreeNext]_treeVars => TreeInv'
<1> SUFFICES ASSUME TreeInv, [TreeNext]_treeVars PROVE TreeInv'
  OBVIOUS
<1>1. CASE UNCHANGED treeVars
  <2>1. TableInv' /\ Number' = Number /\ Record' = Record
    BY <1>1, TableStays DEF treeVars, vars, TreeInv
  <2>2. TreeTypeOK'
    BY <1>1, <2>1 DEF treeVars, vars, TreeInv, TreeTypeOK
  <2>3. CallInv'
    BY <1>1, <2>1 DEF treeVars, vars, TreeInv, CallInv
  <2> QED
    BY <2>1, <2>2, <2>3 DEF TreeInv
<1>2. CASE \E v \in Values : Insert(v)
  BY <1>2, InsertKeeps
<1>3. CASE InsertStep
  BY <1>3, FindRoomKeeps, FindKeyKeeps, FindGreaterKeeps, FindSmallerKeeps,
     FinishKeeps, WriteBehindKeeps, CreateChildKeeps, LinkChildKeeps
     DEF InsertStep
<1> QED
  BY <1>1, <1>2, <1>3 DEF TreeNext

-----------------------------------------------------------------------------

\* The invariant of every behaviour.
LEMMA Invariance ==
  TreeSpec => []TreeInv
  BY InitHolds, StepKeeps, PTL DEF TreeSpec

\* A call of insert, one that runs on as well, is at a page that exists and
\* keeps its record where a record begins: the addresses it follows were all
\* answers of CreatePage (tree.rs:62-235).
THEOREM TreeTypeCorrect ==
  TreeSpec => []TreeTypeOK
<1>1. TreeInv => TreeTypeOK
  BY DEF TreeInv
<1> QED
  BY <1>1, Invariance, PTL

\* For every page size of at least two cells max_records is the number of
\* records that the scan of a page finds room for (tree.rs:48-56).
THEOREM MaxRecordsCount ==
  TreeSpec => []MaxRecordsFit
<1>1. TreeInv => MaxRecordsFit
  <2> SUFFICES ASSUME TreeInv PROVE MaxRecordsFit
    OBVIOUS
  <2>1. /\ Len(pages[1].body) = page_size
        /\ page_size \in Nat \ {0, 1}
    <3>1. TableInv /\ 0 \in Number
      BY PagesArePages DEF TreeInv
    <3>2. Len(pages[0 + 1].body) = page_size
      BY <3>1, PagesArePages
    <3> QED
      BY <3>1, <3>2 DEF TableInv
  <2> QED
    BY <2>1, OffsetsCounted DEF MaxRecordsFit
<1> QED
  BY <1>1, Invariance, PTL

-----------------------------------------------------------------------------
(***************************************************************************)
(* What insert keeps.  Every page divides the keys that a search brings to *)
(* it among its records and the pages its addresses lead to.  The          *)
(* invariant names the set of keys of every page, R[n], and says that a    *)
(* search never comes to a page that has no part in the key: two pages     *)
(* have a key in common only when the earlier one sends the search for it  *)
(* on.  It holds of pages with any number of records, as long as no left   *)
(* address of a record was written over.                                   *)
(***************************************************************************)

\* Every page of a tree has room for a record.
RoomForRecords == \A tree \in Trees : MaxRecords(tree.size) > 0

\* The offsets of the records of every page, and the last one.
Offs == {i \in 0 .. page_size : i % 2 = 0 /\ i + 3 <= page_size}
End  == Last(Offs)

\* The record at offset i of page n.
Rec(n, i) == FromBytes(pages[n + 1].body, i)

HasKey(n, k) == \E i \in Offs : Rec(n, i).key = k

Above(n, k) == {i \in Offs : Rec(n, i).key # None /\ Rec(n, i).key > k}

\* Where the search for k goes from page n.
Way(n, k) ==
  IF HasKey(n, k) THEN None
  ELSE IF Above(n, k) # {} THEN Rec(n, First(Above(n, k))).left
  ELSE Rec(n, End).right

\* The records of a page are at its beginning, in the order of their keys, and
\* only the last one that fits has a page on its right.
Ordered(n) ==
  /\ \A i, j \in Offs : i < j /\ Rec(n, j).key # None =>
       Rec(n, i).key # None /\ Rec(n, i).key < Rec(n, j).key
  /\ \A i \in Offs : Rec(n, i).key = None => Rec(n, i) = BlankRecord
  /\ \A i \in Offs : i # End => Rec(n, i).right = None

\* The scan for k comes to offset i of page n.
Comes(n, i, k) ==
  /\ i \in Offs
  /\ \A j \in Offs : j < i => Rec(n, j).key # None /\ Rec(n, j).key < k

Divided(R) ==
  /\ R \in [Number -> SUBSET Nat]
  /\ R[0] = Nat
  /\ \A n \in Number : \A i \in Offs :
       Rec(n, i).key # None => Rec(n, i).key \in R[n]
  /\ \A n \in Number : \A k \in R[n] :
       Way(n, k) # None => Way(n, k) > n /\ k \in R[Way(n, k)]
  /\ \A m, n \in Number : \A k \in R[n] :
       m < n /\ k \in R[m] => Way(m, k) # None

\* The call has come to a page that has a part in its key; a page that no
\* record leads to yet has a part in none.
Arrived(R) ==
  /\ pc # "idle" => key \in R[curr_page]
  /\ pc = "link" => R[Len(pages) - 1] = {}

\* The record at offset i of page n leads nowhere on the side of the key.
Open(n, i) ==
  /\ Comes(n, i, key)
  /\ Rec(n, i).key # None
  /\ \/ side = "left" /\ Rec(n, i).key > key /\ Rec(n, i).left = None
     \/ side = "right" /\ i = End /\ Rec(n, i).key < key
          /\ Rec(n, i).right = None

\* What the call is about to do, from what it has read.
Decided ==
  /\ pc = "write" =>
       /\ Comes(curr_page, at, key)
       /\ LET r == Rec(curr_page, at) IN
            \/ r.key = None /\ record = NewRecord(key, value)
            \/ r.key = key /\ record = Revalued(r)
  /\ pc = "write_behind" =>
       at = End + 2 /\ Rec(curr_page, End).right = None
  /\ pc = "create" => record = Rec(curr_page, at) /\ Open(curr_page, at)
  /\ pc = "link" =>
       /\ record = [Rec(curr_page, at) EXCEPT ![side] = Len(pages) - 1]
       /\ Open(curr_page, at)
       /\ \A i \in Offs : Rec(Len(pages) - 1, i) = BlankRecord

\* The pages hold what was inserted.
Remembered ==
  /\ inserted \in Seq(Nat \X (Values \cup {None}))
  /\ \A j \in DOMAIN inserted : \E n \in Number : \E i \in Offs :
       Rec(n, i).key = inserted[j][1] /\ Rec(n, i).value = LatestValue(j)

FoundInv ==
  /\ TreeInv
  /\ page_size > 2
  /\ \A n \in Number : Ordered(n)
  /\ \E R : Divided(R) /\ Arrived(R)
  /\ Decided
  /\ Remembered

\* The pages are in order until a left address is written over.
SoundInv == TreeInv /\ (~ spoilt => FoundInv)

-----------------------------------------------------------------------------
(***************************************************************************)
(* The geometry of a page.                                                 *)
(***************************************************************************)

\* A page with room for a record.
LEMMA SizeForRecords ==
  ASSUME NEW n \in Nat \ {0, 1}, MaxRecords(n) > 0
  PROVE  n > 2
<1>1. n # 2
  <2>1. 2 \div 2 = 1
    OBVIOUS
  <2> QED
    BY <2>1 DEF MaxRecords
<1> QED
  BY <1>1

\* The offsets are the even numbers up to the last one.
LEMMA Geometry ==
  ASSUME TableInv, page_size > 2
  PROVE  /\ 0 \in Offs /\ End \in Offs
         /\ \A i \in Offs : i \in Nat /\ i % 2 = 0 /\ i + 3 <= page_size
         /\ \A i \in Offs : i <= End
         /\ \A i \in Offs : i # End => i + 2 \in Offs
         /\ \A i, j \in Offs : i < j => i + 2 \in Offs /\ i + 2 <= j
         /\ End + 2 \notin Offs
         /\ page_size \in Nat
<1>1. page_size \in Nat
  BY DEF TableInv
<1>2. 0 \in Offs
  BY <1>1 DEF Offs
<1>3. \A i \in Offs : i \in Nat /\ i % 2 = 0 /\ i + 3 <= page_size
  BY <1>1 DEF Offs
<1>4. Offs \subseteq 0 .. page_size /\ Offs # {}
  BY <1>2 DEF Offs
<1>5. End \in Offs /\ \A i \in Offs : End >= i
  BY <1>1, <1>4, LastOfNumbers DEF End
<1>6. \A i, j \in Offs : i < j => i + 2 <= j
  <2> SUFFICES ASSUME NEW i \in Offs, NEW j \in Offs, i < j
               PROVE  i + 2 <= j
    OBVIOUS
  <2>1. i \in Nat /\ j \in Nat /\ i % 2 = 0 /\ j % 2 = 0
    BY <1>3
  <2>2. j # i + 1
    BY <2>1
  <2> QED
    BY <2>1, <2>2
<1>7. \A i, j \in Offs : i < j => i + 2 \in Offs
  <2> SUFFICES ASSUME NEW i \in Offs, NEW j \in Offs, i < j
               PROVE  i + 2 \in Offs
    OBVIOUS
  <2>1. i \in Nat /\ j \in Nat /\ i % 2 = 0 /\ j + 3 <= page_size /\ i + 2 <= j
    BY <1>3, <1>6
  <2>2. (i + 2) % 2 = 0 /\ i + 2 \in 0 .. page_size /\ i + 2 + 3 <= page_size
    BY <1>1, <2>1
  <2> QED
    BY <2>2 DEF Offs
<1>8. End + 2 \notin Offs
  <2>1. End \in Nat
    BY <1>3, <1>5
  <2> QED
    BY <1>5, <2>1
<1>9. \A i \in Offs : i <= End
  BY <1>3, <1>5
<1>10. \A i \in Offs : i # End => i + 2 \in Offs
  <2> SUFFICES ASSUME NEW i \in Offs, i # End PROVE i + 2 \in Offs
    OBVIOUS
  <2>1. i < End
    BY <1>3, <1>5, <1>9
  <2> QED
    BY <1>5, <1>7, <2>1
<1> QED
  BY <1>1, <1>2, <1>3, <1>5, <1>6, <1>7, <1>8, <1>9, <1>10

\* The code reads the records at these offsets.
LEMMA RecordsAt ==
  ASSUME TableInv
  PROVE  /\ \A n \in Number : Offsets(pages[n + 1].body) = Offs
         /\ \A n \in Number : \A i \in Offs : Rec(n, i) \in Record
<1>1. ASSUME NEW n \in Number
      PROVE  Offsets(pages[n + 1].body) = Offs
  <2>1. Len(pages[n + 1].body) = page_size
    BY PagesArePages
  <2> QED
    BY <2>1 DEF Offsets, Offs
<1>2. ASSUME NEW n \in Number, NEW i \in Offs
      PROVE  Rec(n, i) \in Record
  <2>1. i \in Offsets(pages[n + 1].body)
    BY <1>1
  <2> QED
    BY <2>1, RecordsAreRecords DEF Rec
<1> QED
  BY <1>1, <1>2

\* The first of some offsets.
LEMMA FirstOfOffs ==
  ASSUME TableInv, NEW S, S \subseteq Offs
  PROVE  /\ S # {} => First(S) \in S /\ \A j \in S : First(S) <= j
         /\ \A i \in S : (\A j \in S : i <= j) => First(S) = i
<1>1. S \subseteq Nat
  BY DEF Offs, TableInv
<1>2. ASSUME S # {}
      PROVE  First(S) \in S /\ \A j \in S : First(S) <= j
  <2>1. \E i \in S : \A j \in S : i <= j
    BY <1>1, <1>2, LeastNumber
  <2> QED
    BY <2>1 DEF First
<1>3. ASSUME NEW i \in S, \A j \in S : i <= j
      PROVE  First(S) = i
  <2> DEFINE f == First(S)
  <2>1. f \in S /\ f <= i
    BY <1>2
  <2> HIDE DEF f
  <2>2. i <= f /\ i \in Nat /\ f \in Nat
    BY <1>1, <1>3, <2>1
  <2>3. f = i
    BY <2>1, <2>2
  <2> QED
    BY <2>3 DEF f
<1> QED
  BY <1>2, <1>3

\* Where a scan for k has come to, and where the search goes from there.
LEMMA WayAt ==
  ASSUME TableInv, page_size > 2, NEW n \in Number, Ordered(n),
         NEW k \in Nat, NEW i \in Offs, Comes(n, i, k)
  PROVE  /\ Rec(n, i).key = None =>
              ~ HasKey(n, k) /\ Above(n, k) = {} /\ Way(n, k) = None
         /\ Rec(n, i).key = k => HasKey(n, k) /\ Way(n, k) = None
         /\ Rec(n, i).key # None /\ Rec(n, i).key > k =>
              /\ ~ HasKey(n, k) /\ First(Above(n, k)) = i
              /\ Above(n, k) # {} /\ Way(n, k) = Rec(n, i).left
         /\ i = End /\ Rec(n, i).key # None /\ Rec(n, i).key < k =>
              /\ ~ HasKey(n, k) /\ Above(n, k) = {}
              /\ Way(n, k) = Rec(n, End).right
<1>1. /\ \A j \in Offs : j \in Nat /\ j <= End
      /\ End \in Offs /\ None \notin Nat
  BY Geometry, BTreeAssumption
<1>2. \A j \in Offs : Rec(n, j) \in Record
  BY RecordsAt
<1>3. \A j \in Offs : Rec(n, j).key \in Nat \cup {None}
  BY <1>2 DEF Record
<1>4. \A j \in Offs : j < i => Rec(n, j).key \in Nat /\ Rec(n, j).key < k
  BY <1>1, <1>3 DEF Comes
<1>5. \A j, l \in Offs : j < l /\ Rec(n, l).key # None =>
        Rec(n, j).key # None /\ Rec(n, j).key < Rec(n, l).key
  BY DEF Ordered
<1>6. CASE Rec(n, i).key = None
  <2>1. \A j \in Offs : j > i => Rec(n, j).key = None
    BY <1>5, <1>6
  <2>2. \A j \in Offs : Rec(n, j).key # None => j < i
    BY <1>1, <1>6, <2>1
  <2>3. ~ HasKey(n, k)
    BY <1>1, <1>4, <2>2 DEF HasKey
  <2>4. Above(n, k) = {}
    BY <1>3, <1>4, <2>2 DEF Above
  <2>5. Rec(n, End).key = None
    BY <1>1, <1>6, <2>1
  <2>6. Rec(n, End).right = None
    BY <1>1, <2>5 DEF Ordered, BlankRecord
  <2>7. Way(n, k) = None
    BY <2>3, <2>4, <2>6 DEF Way
  <2> QED
    BY <1>1, <1>6, <2>3, <2>4, <2>7
<1>7. CASE Rec(n, i).key = k
  <2>1. HasKey(n, k)
    BY <1>7 DEF HasKey
  <2>2. Way(n, k) = None
    BY <2>1 DEF Way
  <2> QED
    BY <1>1, <1>7, <2>1, <2>2
<1>8. CASE Rec(n, i).key # None /\ Rec(n, i).key > k
  <2>1. \A j \in Offs : j > i /\ Rec(n, j).key # None => Rec(n, j).key > k
    <3> SUFFICES ASSUME NEW j \in Offs, j > i, Rec(n, j).key # None
                 PROVE  Rec(n, j).key > k
      OBVIOUS
    <3>1. Rec(n, i).key < Rec(n, j).key
      BY <1>1, <1>5
    <3>2. Rec(n, i).key \in Nat /\ Rec(n, j).key \in Nat
      BY <1>3, <1>8
    <3> QED
      BY <1>8, <3>1, <3>2
  <2>2. ~ HasKey(n, k)
    <3> SUFFICES ASSUME NEW j \in Offs, Rec(n, j).key = k PROVE FALSE
      BY DEF HasKey
    <3>1. j < i \/ j = i \/ j > i
      BY <1>1
    <3> QED
      BY <1>1, <1>3, <1>4, <1>8, <2>1, <3>1
  <2>3. i \in Above(n, k) /\ Above(n, k) \subseteq Offs
    BY <1>8 DEF Above
  <2>4. \A j \in Above(n, k) : i <= j
    <3> SUFFICES ASSUME NEW j \in Offs, Rec(n, j).key # None,
                        Rec(n, j).key > k, ~ (i <= j)
                 PROVE  FALSE
      BY DEF Above
    <3>1. Rec(n, j).key < k /\ Rec(n, j).key \in Nat
      BY <1>1, <1>4
    <3> QED
      BY <3>1
  <2>5. First(Above(n, k)) = i
    BY <2>3, <2>4, FirstOfOffs
  <2>6. Way(n, k) = Rec(n, i).left
    BY <2>2, <2>3, <2>5 DEF Way
  <2>7. Rec(n, i).key \in Nat
    BY <1>3, <1>8
  <2> QED
    BY <1>8, <2>2, <2>3, <2>5, <2>6, <2>7
<1>9. CASE i = End /\ Rec(n, i).key # None /\ Rec(n, i).key < k
  <2>1. \A j \in Offs : Rec(n, j).key \in Nat /\ Rec(n, j).key < k
    BY <1>1, <1>3, <1>4, <1>9
  <2>2. ~ HasKey(n, k)
    BY <2>1 DEF HasKey
  <2>3. Above(n, k) = {}
    BY <2>1 DEF Above
  <2>4. Way(n, k) = Rec(n, End).right
    BY <2>2, <2>3 DEF Way
  <2>5. Rec(n, i).key \in Nat
    BY <2>1
  <2> QED
    BY <1>9, <2>1, <2>2, <2>3, <2>4, <2>5
<1> QED
  BY <1>6, <1>7, <1>8, <1>9

\* The page a search goes to is a page.
LEMMA WayIsPage ==
  ASSUME TableInv, page_size > 2, NEW n \in Number, NEW k
  PROVE  Way(n, k) \in Number \cup {None}
<1>1. \A i \in Offs : /\ Rec(n, i).left \in Number \cup {None}
                      /\ Rec(n, i).right \in Number \cup {None}
  BY RecordsAt DEF Record, Neighbour
<1>2. End \in Offs
  BY Geometry
<1>3. Above(n, k) # {} => First(Above(n, k)) \in Offs
  <2>1. Above(n, k) \subseteq Offs
    BY DEF Above
  <2> QED
    BY <2>1, FirstOfOffs
<1> QED
  BY <1>1, <1>2, <1>3 DEF Way

\* What a call knows of the page it has read.
LEMMA Scanned ==
  ASSUME FoundInv, ReadBody
  PROVE  /\ curr_page \in Number /\ key \in Nat
         /\ Offsets(Body) = Offs /\ Last(Offsets(Body)) = End
         /\ \A i \in Offs : FromBytes(Body, i) = Rec(curr_page, i)
         /\ \E R : Divided(R) /\ key \in R[curr_page]
         /\ Stops(Body, key) # {} =>
              LET i == First(Stops(Body, key)) IN
                /\ i \in Offs /\ Comes(curr_page, i, key)
                /\ Rec(curr_page, i).key # None => Rec(curr_page, i).key >= key
         /\ Stops(Body, key) = {} =>
              /\ Comes(curr_page, End, key) /\ End \in Offs
              /\ Rec(curr_page, End).key \in Nat
              /\ Rec(curr_page, End).key < key
<1>1. /\ curr_page \in Number /\ Body = pages[curr_page + 1].body
      /\ pc = "read" /\ TableInv /\ page_size > 2
  BY BodyIsRead DEF FoundInv, TreeInv
<1>2. PICK R : Divided(R) /\ Arrived(R)
  BY DEF FoundInv
<1>3. key \in R[curr_page] /\ key \in Nat
  BY <1>1, <1>2 DEF Arrived, Divided
<1>4. /\ Offsets(Body) = Offs
      /\ \A i \in Offs : FromBytes(Body, i) = Rec(curr_page, i)
  BY <1>1, RecordsAt DEF Rec
<1>5. Last(Offsets(Body)) = End
  BY <1>4 DEF End
<1>6. \A i \in Offs : i \in Nat /\ i <= End
  BY <1>1, Geometry
<1>7. \A i \in Offs : Rec(curr_page, i).key \in Nat \cup {None}
  BY <1>1, RecordsAt DEF Record
<1>8. Stops(Body, key) = {i \in Offs : \/ Rec(curr_page, i).key = None
                                       \/ Rec(curr_page, i).key >= key}
  BY <1>4 DEF Stops
<1> DEFINE S == Stops(Body, key)
<1>9. \A i \in Offs : i \notin S =>
        Rec(curr_page, i).key \in Nat /\ Rec(curr_page, i).key < key
  BY <1>3, <1>7, <1>8
<1>10. \A i \in S : i \in Offs /\ (Rec(curr_page, i).key # None =>
                                     Rec(curr_page, i).key >= key)
  BY <1>8
<1> HIDE DEF S
<1>11. None \notin Nat
  BY BTreeAssumption
<1>12. ASSUME S # {}
       PROVE  Comes(curr_page, First(S), key) /\ First(S) \in S
  <2>1. S \subseteq Offs
    BY <1>10
  <2>2. First(S) \in S /\ \A j \in S : First(S) <= j
    BY <1>1, <1>12, <2>1, FirstOfOffs
  <2> DEFINE f == First(S)
  <2>3. f \in S /\ \A j \in S : f <= j
    BY <2>2
  <2> HIDE DEF f
  <2>4. \A j \in Offs : j < f => j \notin S
    BY <1>6, <2>1, <2>3
  <2>5. Comes(curr_page, f, key)
    BY <1>9, <1>11, <2>1, <2>3, <2>4 DEF Comes
  <2> QED
    BY <2>3, <2>5 DEF f
<1>13. End \in Offs
  BY <1>1, Geometry
<1>14. ASSUME S = {}
       PROVE  /\ Comes(curr_page, End, key)
              /\ Rec(curr_page, End).key \in Nat
              /\ Rec(curr_page, End).key < key
  BY <1>9, <1>11, <1>13, <1>14 DEF Comes
<1> QED
  BY <1>1, <1>2, <1>3, <1>4, <1>5, <1>10, <1>12, <1>13, <1>14 DEF S

-----------------------------------------------------------------------------
(***************************************************************************)
(* The steps that leave the pages alone.                                   *)
(***************************************************************************)

\* What a step keeps that reads.
LEMMA PagesStay ==
  ASSUME FoundInv, UNCHANGED <<pages, page_size, inserted>>
  PROVE  /\ page_size' > 2
         /\ Number' = Number /\ Offs' = Offs /\ End' = End
         /\ \A n, i : Rec(n, i)' = Rec(n, i)
         /\ \A n, i, k : Comes(n, i, k)' <=> Comes(n, i, k)
         /\ \A n \in Number' : Ordered(n)'
         /\ \A R : Divided(R) => Divided(R)'
         /\ Remembered'
<1>1. page_size' > 2 /\ Number' = Number /\ Offs' = Offs
  BY DEF FoundInv, Number, Offs
<1>2. End' = End
  BY <1>1 DEF End, Last
<1>3. \A n, i : Rec(n, i)' = Rec(n, i)
  BY DEF Rec, FromBytes, CellToAddr
<1>4. \A n, i, k : Comes(n, i, k)' <=> Comes(n, i, k)
  BY <1>1, <1>3 DEF Comes
<1>5. \A n \in Number' : Ordered(n)'
  BY <1>1, <1>2, <1>3 DEF FoundInv, Ordered
<1>6. \A n, k : Way(n, k)' = Way(n, k)
  <2>1. \A n, k : HasKey(n, k)' <=> HasKey(n, k)
    BY <1>1, <1>3 DEF HasKey
  <2>2. \A n, k : Above(n, k)' = Above(n, k)
    BY <1>1, <1>3 DEF Above
  <2>3. \A n, k : First(Above(n, k))' = First(Above(n, k))
    BY <2>2 DEF First
  <2> QED
    BY <1>2, <1>3, <2>1, <2>2, <2>3 DEF Way
<1>7. \A R : Divided(R) => Divided(R)'
  BY <1>1, <1>3, <1>6 DEF Divided
<1>8. \A j : LatestValue(j)' = LatestValue(j)
  BY DEF LatestValue, Last
<1>9. Remembered'
  BY <1>1, <1>3, <1>8 DEF FoundInv, Remembered
<1> QED
  BY <1>1, <1>2, <1>3, <1>4, <1>5, <1>7, <1>9

\* A call is made.
LEMMA InsertFound ==
  ASSUME FoundInv, NEW v \in Values, Insert(v)
  PROVE  FoundInv'
<1>1. TreeInv'
  BY InsertKeeps DEF FoundInv
<1>2. /\ page_size' > 2
      /\ \A n \in Number' : Ordered(n)'
      /\ \A R : Divided(R) => Divided(R)'
      /\ Remembered'
  BY PagesStay DEF Insert, vars
<1>3. PICK R : Divided(R) /\ Arrived(R)
  BY DEF FoundInv
<1>4. /\ pc = "idle" /\ pc' = "read" /\ curr_page' = 0
      /\ key' \in Nat
  BY HeadTailProperties DEF Insert, FoundInv, TreeInv, CallInv
<1>5. Arrived(R)'
  BY <1>3, <1>4 DEF Arrived, Divided
<1>6. Decided'
  BY <1>4 DEF Decided
<1> QED
  BY <1>1, <1>2, <1>3, <1>5, <1>6 DEF FoundInv

\* The call has read its page and goes on with it.
LEMMA GoesOn ==
  ASSUME FoundInv, ReadBody, TreeInv', NEW o, NEW r, NEW next,
         With(o, r, next), next # "link", next # "idle",
         UNCHANGED curr_page, Decided'
  PROVE  FoundInv'
<1>1. /\ pc' = next /\ key' = key
      /\ UNCHANGED <<pages, page_size, inserted>>
  BY BodyIsRead DEF With, FoundInv
<1>2. /\ page_size' > 2
      /\ \A n \in Number' : Ordered(n)'
      /\ \A R : Divided(R) => Divided(R)'
      /\ Remembered'
  BY <1>1, PagesStay
<1>3. PICK R : Divided(R) /\ key \in R[curr_page]
  BY Scanned
<1>4. Arrived(R)'
  BY <1>1, <1>3 DEF Arrived
<1> QED
  BY <1>2, <1>3, <1>4 DEF FoundInv

\* What a decision says after the step is what it said before.
LEMMA SameReads ==
  ASSUME FoundInv, ReadBody, UNCHANGED <<key, inserted, curr_page>>
  PROVE  /\ \A i : Rec(curr_page, i)' = Rec(curr_page, i)
         /\ \A i : Comes(curr_page, i, key)' <=> Comes(curr_page, i, key)
         /\ End' = End
<1>1. UNCHANGED <<pages, page_size>>
  BY BodyIsRead DEF FoundInv
<1>2. Offs' = Offs
  BY <1>1 DEF Offs
<1>3. \A i : Rec(curr_page, i)' = Rec(curr_page, i)
  BY <1>1 DEF Rec, FromBytes, CellToAddr
<1>4. \A i : Comes(curr_page, i, key)' <=> Comes(curr_page, i, key)
  BY <1>2, <1>3 DEF Comes
<1>5. End' = End
  BY <1>2 DEF End, Last
<1> QED
  BY <1>3, <1>4, <1>5

\* The page has room.
LEMMA FindRoomFound ==
  ASSUME FoundInv, FindRoom
  PROVE  FoundInv'
<1>1. ReadBody /\ UNCHANGED <<key, value, curr_page, side, inserted>>
  BY DEF FindRoom, With
<1>2. TableInv /\ page_size > 2
  BY DEF FoundInv, TreeInv
<1>3. Offsets(Body) # {}
  BY <1>1, <1>2, Scanned, Geometry
<1>0. PICK f : f = First(Stops(Body, key))
  OBVIOUS
<1>4. /\ Stops(Body, key) # {}
      /\ FromBytes(Body, f).key = None
      /\ With(f, NewRecord(key, value), "write")
  BY <1>0, <1>3 DEF FindRoom
<1>5. /\ f \in Offs /\ Comes(curr_page, f, key)
      /\ Rec(curr_page, f) = FromBytes(Body, f)
  BY <1>0, <1>1, <1>4, Scanned
<1>6. Rec(curr_page, f).key = None
  BY <1>4, <1>5
<1>7. /\ pc' = "write" /\ at' = f /\ record' = NewRecord(key, value)
  BY <1>4 DEF With
<1>8. Decided'
  BY <1>1, <1>5, <1>6, <1>7, SameReads DEF Decided, NewRecord
<1>9. TreeInv'
  BY FindRoomKeeps DEF FoundInv
<1> QED
  BY <1>1, <1>4, <1>8, <1>9, GoesOn

\* The page has a record of the key.
LEMMA FindKeyFound ==
  ASSUME FoundInv, FindKey
  PROVE  FoundInv'
<1>1. ReadBody /\ UNCHANGED <<key, value, curr_page, side, inserted>>
  BY DEF FindKey, With
<1>0. PICK f, r : f = First(Stops(Body, key)) /\ r = FromBytes(Body, f)
  OBVIOUS
<1>2. /\ Stops(Body, key) # {} /\ r.key = key
      /\ With(f, Revalued(r), "write")
  BY <1>0 DEF FindKey
<1>3. /\ f \in Offs /\ Comes(curr_page, f, key)
      /\ Rec(curr_page, f) = r
  BY <1>0, <1>1, <1>2, Scanned
<1>4. pc' = "write" /\ at' = f /\ record' = Revalued(r)
  BY <1>2 DEF With
<1>5. Rec(curr_page, f)' = r /\ Comes(curr_page, f, key)'
  BY <1>1, <1>3, SameReads
<1>6. Decided'
  BY <1>1, <1>2, <1>4, <1>5 DEF Decided, Revalued
<1>7. TreeInv'
  BY FindKeyKeeps DEF FoundInv
<1> QED
  BY <1>1, <1>2, <1>6, <1>7, GoesOn

\* The call follows an address: the page there has a part in the key.
LEMMA JumpFound ==
  ASSUME FoundInv, ReadBody, TreeInv', Way(curr_page, key) # None,
         JumpTo(Way(curr_page, key))
  PROVE  FoundInv'
<1>1. /\ pc' = pc /\ key' = key /\ curr_page' = Way(curr_page, key)
      /\ UNCHANGED <<pages, page_size, inserted>> /\ pc = "read"
  BY BodyIsRead DEF JumpTo, FoundInv
<1>2. /\ page_size' > 2
      /\ \A n \in Number' : Ordered(n)'
      /\ \A R : Divided(R) => Divided(R)'
      /\ Remembered'
  BY <1>1, PagesStay
<1>3. PICK R : Divided(R) /\ key \in R[curr_page] /\ curr_page \in Number
  BY Scanned
<1>4. key \in R[curr_page']
  BY <1>1, <1>3 DEF Divided
<1>5. Arrived(R)'
  BY <1>1, <1>4 DEF Arrived
<1>6. Decided'
  BY <1>1 DEF Decided
<1> QED
  BY <1>2, <1>3, <1>5, <1>6 DEF FoundInv

\* The call is to create the page that its search needs.
LEMMA ToCreateFound ==
  ASSUME FoundInv, ReadBody, TreeInv', NEW i \in Offs,
         With(i, Rec(curr_page, i), "create"), UNCHANGED curr_page,
         Comes(curr_page, i, key), Rec(curr_page, i).key # None,
         \/ side' = "left" /\ Rec(curr_page, i).key > key
              /\ Rec(curr_page, i).left = None
         \/ side' = "right" /\ i = End /\ Rec(curr_page, i).key < key
              /\ Rec(curr_page, i).right = None
  PROVE  FoundInv'
<1>1. /\ pc' = "create" /\ at' = i /\ record' = Rec(curr_page, i)
      /\ UNCHANGED <<key, inserted, curr_page>>
  BY DEF With
<1>2. /\ Rec(curr_page, i)' = Rec(curr_page, i)
      /\ Comes(curr_page, i, key)' /\ End' = End
  BY <1>1, SameReads
<1>3. Open(curr_page, i)'
  BY <1>1, <1>2 DEF Open
<1>4. Decided'
  BY <1>1, <1>2, <1>3 DEF Decided
<1> QED
  BY <1>1, <1>4, GoesOn

\* The scan stops at a greater key.
LEMMA FindGreaterFound ==
  ASSUME FoundInv, FindGreater
  PROVE  FoundInv'
<1>1. ReadBody /\ TreeInv'
  BY FindGreaterKeeps DEF FindGreater, FoundInv
<1> DEFINE f == First(Stops(Body, key))
           r == FromBytes(Body, f)
<1>2. /\ Stops(Body, key) # {} /\ r.key # None /\ r.key > key
      /\ \/ r.left # None /\ JumpTo(r.left)
         \/ /\ r.left = None
            /\ With(f, r, "create")
            /\ side' = "left"
            /\ UNCHANGED curr_page
  BY DEF FindGreater
<1>3. /\ f \in Offs /\ Comes(curr_page, f, key)
      /\ Rec(curr_page, f) = r /\ curr_page \in Number /\ key \in Nat
  BY <1>1, <1>2, Scanned
<1> HIDE DEF f, r
<1>4. Way(curr_page, key) = r.left
  BY <1>2, <1>3, WayAt DEF FoundInv, TreeInv
<1>5. CASE r.left # None /\ JumpTo(r.left)
  BY <1>1, <1>4, <1>5, JumpFound
<1>6. CASE /\ r.left = None /\ With(f, r, "create")
           /\ side' = "left" /\ UNCHANGED curr_page
  BY <1>1, <1>2, <1>3, <1>6, ToCreateFound
<1> QED
  BY <1>2, <1>5, <1>6

\* The scan comes to the end of the page.
LEMMA FindSmallerFound ==
  ASSUME FoundInv, FindSmaller
  PROVE  FoundInv'
<1>1. ReadBody /\ TreeInv'
  BY FindSmallerKeeps DEF FindSmaller, FoundInv
<1> DEFINE r == Rec(curr_page, End)
<1>2. /\ Stops(Body, key) = {} /\ Last(Offsets(Body)) = End
      /\ End \in Offs /\ Comes(curr_page, End, key)
      /\ FromBytes(Body, End) = r /\ r.key \in Nat /\ r.key < key
      /\ curr_page \in Number /\ key \in Nat
  BY <1>1, Scanned DEF FindSmaller
<1>3. \/ r.right # None /\ JumpTo(r.right)
      \/ /\ r.right = None
         /\ With(End + 2, NewRecord(key, value), "write_behind")
         /\ UNCHANGED <<curr_page, side>>
      \/ /\ r.right = None
         /\ With(End, r, "create")
         /\ side' = "right"
         /\ UNCHANGED curr_page
  BY <1>2 DEF FindSmaller
<1>4. r.key # None
  BY <1>2, BTreeAssumption
<1>5. Way(curr_page, key) = r.right
  BY <1>2, <1>4, WayAt DEF FoundInv, TreeInv
<1>6. CASE r.right # None /\ JumpTo(r.right)
  BY <1>1, <1>5, <1>6, JumpFound
<1>7. CASE /\ r.right = None
           /\ With(End + 2, NewRecord(key, value), "write_behind")
           /\ UNCHANGED <<curr_page, side>>
  <2>1. /\ pc' = "write_behind" /\ at' = End + 2
        /\ UNCHANGED <<key, inserted, curr_page>>
    BY <1>7 DEF With
  <2>2. Rec(curr_page, End)' = r /\ End' = End
    <3>1. PICK e : e = End
      OBVIOUS
    <3>2. End' = e /\ Rec(curr_page, e)' = Rec(curr_page, e)
      BY <1>1, <2>1, <3>1, SameReads
    <3> QED
      BY <3>1, <3>2 DEF Rec, FromBytes, CellToAddr
  <2>3. Decided'
    BY <1>7, <2>1, <2>2 DEF Decided
  <2> QED
    BY <1>1, <1>7, <2>3, GoesOn
<1>8. CASE /\ r.right = None /\ With(End, r, "create")
           /\ side' = "right" /\ UNCHANGED curr_page
  <2>1. /\ With(End, Rec(curr_page, End), "create")
        /\ Rec(curr_page, End).key # None /\ Rec(curr_page, End).key < key
        /\ Rec(curr_page, End).right = None
    BY <1>2, <1>4, <1>8
  <2> HIDE DEF r
  <2> QED
    BY <1>1, <1>2, <1>8, <2>1, ToCreateFound
<1> QED
  BY <1>3, <1>6, <1>7, <1>8

-----------------------------------------------------------------------------
(***************************************************************************)
(* The steps that write or create a page.                                  *)
(***************************************************************************)

\* A record that was written is read again.
LEMMA ReadAgain ==
  ASSUME NEW r \in Record, NEW body, NEW i \in Nat, Len(pages) \in Nat,
         body[i + 1] = ToBytes(r)[1], body[i + 2] = ToBytes(r)[2],
         body[i + 3] = ToBytes(r)[3]
  PROVE  FromBytes(body, i) = r
<1> DEFINE core  == body[i + 2]
           left  == IF core.left_set THEN CellToAddr(body[i + 1]) ELSE None
           right == IF core.right_set THEN CellToAddr(body[i + 3]) ELSE None
<1>1. \A a \in Neighbour : a # None => CellToAddr(AddrToCell(a)) = a
  BY BTreeAssumption DEF Neighbour, Number, CellToAddr, AddrToCell
<1>2. /\ body[i + 1] = AddrToCell(r.left) /\ body[i + 3] = AddrToCell(r.right)
      /\ core = [key |-> r.key, value |-> r.value,
                 left_set |-> r.left # None, right_set |-> r.right # None]
  BY DEF ToBytes
<1>3. core # Zero
  <2>1. core \in Core
    BY <1>2 DEF Core, Record
  <2> QED
    BY <2>1, BTreeAssumption DEF Core
<1>4. left = r.left
  <2>1. r.left \in Neighbour
    BY DEF Record
  <2>2. core.left_set = (r.left # None)
    BY <1>2
  <2>3. CASE r.left = None
    BY <2>2, <2>3
  <2>4. CASE r.left # None
    BY <1>1, <1>2, <2>1, <2>2, <2>4
  <2> QED
    BY <2>3, <2>4
<1>5. right = r.right
  <2>1. r.right \in Neighbour
    BY DEF Record
  <2>2. core.right_set = (r.right # None)
    BY <1>2
  <2>3. CASE r.right = None
    BY <2>2, <2>3
  <2>4. CASE r.right # None
    BY <1>1, <1>2, <2>1, <2>2, <2>4
  <2> QED
    BY <2>3, <2>4
<1>6. FromBytes(body, i) = [key |-> core.key, value |-> core.value,
                            left |-> left, right |-> right]
  BY <1>3 DEF FromBytes
<1> HIDE DEF left, right
<1>7. FromBytes(body, i) = [key |-> r.key, value |-> r.value,
                            left |-> r.left, right |-> r.right]
  BY <1>2, <1>4, <1>5, <1>6
<1> QED
  BY <1>7 DEF Record

\* An address matters when a flag says that it is set.
LEMMA SameRecord ==
  ASSUME NEW a, NEW b, NEW i,
         b[i + 2] = a[i + 2], a[i + 2] \in {Zero} \cup Core,
         a[i + 2] # Zero /\ a[i + 2].left_set =>
           CellToAddr(b[i + 1]) = CellToAddr(a[i + 1]),
         a[i + 2] # Zero /\ a[i + 2].right_set =>
           CellToAddr(b[i + 3]) = CellToAddr(a[i + 3])
  PROVE  FromBytes(b, i) = FromBytes(a, i)
<1>1. CASE a[i + 2] = Zero
  BY <1>1 DEF FromBytes
<1>2. CASE a[i + 2] # Zero
  <2> DEFINE core     == a[i + 2]
             left(c)  == IF core.left_set THEN CellToAddr(c[i + 1]) ELSE None
             right(c) == IF core.right_set THEN CellToAddr(c[i + 3]) ELSE None
  <2>1. left(a) = left(b)
    <3>1. CASE core.left_set
      BY <1>2, <3>1
    <3>2. CASE ~ core.left_set
      BY <3>2
    <3> QED
      BY <3>1, <3>2
  <2>2. right(a) = right(b)
    <3>1. CASE core.right_set
      BY <1>2, <3>1
    <3>2. CASE ~ core.right_set
      BY <3>2
    <3> QED
      BY <3>1, <3>2
  <2>3. /\ FromBytes(a, i) = [key |-> core.key, value |-> core.value,
                              left |-> left(a), right |-> right(a)]
        /\ FromBytes(b, i) = [key |-> core.key, value |-> core.value,
                              left |-> left(b), right |-> right(b)]
    BY <1>2 DEF FromBytes
  <2> HIDE DEF core, left, right
  <2> QED
    BY <2>1, <2>2, <2>3
<1> QED
  BY <1>1, <1>2

\* The cells of a record, and when an address of it is set.
LEMMA CellsOf ==
  ASSUME TableInv, page_size > 2, NEW n \in Number, NEW i \in Offs
  PROVE  LET a == pages[n + 1].body IN
           /\ a[i + 2] \in {Zero} \cup Core
           /\ a[i + 2] # Zero /\ a[i + 2].left_set =>
                /\ Rec(n, i).left = CellToAddr(a[i + 1])
                /\ Rec(n, i).left # None
           /\ a[i + 2] # Zero /\ a[i + 2].right_set =>
                /\ Rec(n, i).right = CellToAddr(a[i + 3])
                /\ Rec(n, i).right # None
<1> DEFINE a == pages[n + 1].body
<1>1. i \in Nat /\ i % 2 = 0 /\ i + 3 <= page_size /\ page_size \in Nat
  BY Geometry
<1>2. Shaped(a)
  BY DEF TableInv
<1>3. /\ a[i + 1] \in CellAt(i + 1) /\ a[i + 2] \in CellAt(i + 2)
      /\ a[i + 3] \in CellAt(i + 3)
  <2>1. /\ i + 1 \in 1 .. page_size /\ i + 2 \in 1 .. page_size
        /\ i + 3 \in 1 .. page_size
    BY <1>1
  <2> HIDE DEF a
  <2> QED
    BY <1>2, <2>1 DEF Shaped
<1>4. (i + 1) % 2 = 1 /\ (i + 2) % 2 # 1 /\ (i + 3) % 2 = 1
  BY <1>1
<1>5. Rec(n, i) = FromBytes(a, i)
  BY DEF Rec
<1> HIDE DEF a
<1>6. /\ a[i + 1] \in {Zero} \cup Number /\ a[i + 2] \in {Zero} \cup Core
      /\ a[i + 3] \in {Zero} \cup Number
  BY <1>3, <1>4 DEF CellAt
<1>7. /\ CellToAddr(a[i + 1]) \in Nat /\ CellToAddr(a[i + 3]) \in Nat
      /\ None \notin Nat
  BY <1>6, PagesArePages, BTreeAssumption DEF CellToAddr
<1>8. ASSUME a[i + 2] # Zero, a[i + 2].left_set
      PROVE  Rec(n, i).left = CellToAddr(a[i + 1])
  BY <1>5, <1>8 DEF FromBytes
<1>9. ASSUME a[i + 2] # Zero, a[i + 2].right_set
      PROVE  Rec(n, i).right = CellToAddr(a[i + 3])
  BY <1>5, <1>9 DEF FromBytes
<1> QED
  BY <1>6, <1>7, <1>8, <1>9 DEF a

\* The task writes at a record, or behind a last one that leads nowhere.
AtRecord ==
  at \in Offs \/ (at = End + 2 /\ Rec(curr_page, End).right = None)

\* The task writes a record into its page.  It leaves the others as they are:
\* the one before has no address set on its right, and the address of the one
\* behind is not written over.
LEMMA Written ==
  ASSUME TreeInv, page_size > 2, Ordered(curr_page), WriteRecord, ~ spoilt',
         AtRecord
  PROVE  /\ page_size' = page_size /\ Number' = Number
         /\ Len(pages') = Len(pages) /\ Offs' = Offs /\ End' = End
         /\ \A n \in Number : \A i \in Offs :
              Rec(n, i)' = IF n = curr_page /\ i = at THEN record ELSE Rec(n, i)
<1>1. /\ TableInv /\ curr_page \in Number /\ record \in Record
      /\ Len(pages) \in Nat
  BY PagesArePages DEF TreeInv, TreeTypeOK, CallInv
<1>2. /\ End \in Offs /\ End + 2 \notin Offs
      /\ \A i \in Offs : i \in Nat /\ i % 2 = 0 /\ i + 3 <= page_size
      /\ \A i \in Offs : i <= End
      /\ \A i, j \in Offs : i < j => i + 2 <= j
      /\ page_size \in Nat
  BY <1>1, Geometry
<1>3. at \in Nat /\ at % 2 = 0
  BY <1>2 DEF AtRecord
<1>4. Put(curr_page, at, ToBytes(record)) /\ ~ Overwrites
  BY DEF WriteRecord
<1>5. PICK p \in Number : p = curr_page
  BY <1>1
<1> DEFINE old  == pages[p + 1].body
           body == pages'[p + 1].body
<1>6. /\ page_size' = page_size /\ Len(pages') = Len(pages)
      /\ body = [i \in 1 .. page_size |->
                   IF i - at \in 1 .. 3 THEN ToBytes(record)[i - at]
                   ELSE old[i]]
      /\ \A m \in Number : m # p => pages'[m + 1] = pages[m + 1]
  BY <1>1, <1>3, <1>4, <1>5, PutKeeps
<1>7. Number' = Number /\ Offs' = Offs
  BY <1>6 DEF Number, Offs
<1>8. End' = End
  BY <1>7 DEF End, Last
<1>9. \A n, i : Rec(n, i)' = FromBytes(pages'[n + 1].body, i)
  BY DEF Rec, FromBytes, CellToAddr
<1>10. \A n \in Number : \A i \in Offs : n # p => Rec(n, i)' = Rec(n, i)
  BY <1>6, <1>9 DEF Rec
<1>11. /\ ToBytes(record)[1] = AddrToCell(record.left)
       /\ ToBytes(record)[3] = AddrToCell(record.right)
  BY DEF ToBytes
<1>12. ASSUME NEW i \in Offs
       PROVE  /\ body[i + 1] = IF i = at THEN ToBytes(record)[1]
                               ELSE IF i = at + 2 THEN ToBytes(record)[3]
                               ELSE old[i + 1]
              /\ body[i + 2] = IF i = at THEN ToBytes(record)[2]
                               ELSE old[i + 2]
              /\ body[i + 3] = IF i = at THEN ToBytes(record)[3]
                               ELSE IF i + 2 = at THEN ToBytes(record)[1]
                               ELSE old[i + 3]
  <2>1. /\ i + 1 \in 1 .. page_size /\ i + 2 \in 1 .. page_size
        /\ i + 3 \in 1 .. page_size /\ i \in Nat /\ i % 2 = 0
    BY <1>2
  <2>2. i = at \/ i = at + 2 \/ i + 2 = at \/ i >= at + 4 \/ i + 4 <= at
    BY <1>3, <2>1
  <2>3. \A j \in 1 .. page_size :
          body[j] = IF j - at \in 1 .. 3 THEN ToBytes(record)[j - at]
                    ELSE old[j]
    BY <1>6
  <2> HIDE DEF body, old
  <2>4. body[i + 1] = IF i = at THEN ToBytes(record)[1]
                      ELSE IF i = at + 2 THEN ToBytes(record)[3]
                      ELSE old[i + 1]
    BY <1>3, <2>1, <2>2, <2>3
  <2>5. body[i + 2] = IF i = at THEN ToBytes(record)[2] ELSE old[i + 2]
    BY <1>3, <2>1, <2>2, <2>3
  <2>6. body[i + 3] = IF i = at THEN ToBytes(record)[3]
                      ELSE IF i + 2 = at THEN ToBytes(record)[1]
                      ELSE old[i + 3]
    BY <1>3, <2>1, <2>2, <2>3
  <2> QED
    BY <2>4, <2>5, <2>6
<1>13. ASSUME NEW i \in Offs, i = at
       PROVE  FromBytes(body, i) = record
  <2>1. i \in Nat
    BY <1>2
  <2>2. /\ body[i + 1] = ToBytes(record)[1] /\ body[i + 2] = ToBytes(record)[2]
        /\ body[i + 3] = ToBytes(record)[3]
    <3>1. i # at + 2
      BY <1>3, <1>13
    <3> HIDE DEF body, old
    <3> QED
      BY <1>12, <1>13
  <2> HIDE DEF body, old
  <2> QED
    BY <1>1, <2>1, <2>2, ReadAgain
<1>14. ASSUME NEW i \in Offs, i # at
       PROVE  FromBytes(body, i) = FromBytes(old, i)
  <2>1. /\ old[i + 2] \in {Zero} \cup Core
        /\ old[i + 2] # Zero /\ old[i + 2].left_set =>
             /\ Rec(p, i).left = CellToAddr(old[i + 1])
             /\ Rec(p, i).left # None
        /\ old[i + 2] # Zero /\ old[i + 2].right_set =>
             /\ Rec(p, i).right = CellToAddr(old[i + 3])
             /\ Rec(p, i).right # None
    BY <1>1, CellsOf
  <2>2. i = at + 2 => Rec(p, i).left \in {None, record.right}
    <3> SUFFICES ASSUME i = at + 2
                 PROVE  Rec(p, i).left \in {None, record.right}
      OBVIOUS
    <3>1. Offsets(old) = Offs
      BY <1>1, RecordsAt
    <3> QED
      BY <1>4, <1>5, <3>1 DEF Overwrites, Rec
  <2>3. i + 2 = at => Rec(p, i).right = None
    <3> SUFFICES ASSUME i + 2 = at PROVE Rec(p, i).right = None
      OBVIOUS
    <3>1. CASE at \in Offs
      <4>1. i # End
        BY <1>2, <3>1
      <4> QED
        BY <1>5, <4>1 DEF Ordered
    <3>2. CASE at = End + 2 /\ Rec(curr_page, End).right = None
      <4>1. i = End
        BY <1>2, <3>2
      <4> QED
        BY <1>5, <3>2, <4>1
    <3> QED
      BY <3>1, <3>2 DEF AtRecord
  <2>4. \A a \in Neighbour : a # None => CellToAddr(AddrToCell(a)) = a
    BY <1>1, BTreeAssumption DEF Neighbour, Number, CellToAddr, AddrToCell
  <2>5. record.right \in Neighbour
    BY <1>1 DEF Record
  <2>6. /\ body[i + 1] = IF i = at + 2 THEN AddrToCell(record.right)
                         ELSE old[i + 1]
        /\ body[i + 2] = old[i + 2]
        /\ i + 2 # at => body[i + 3] = old[i + 3]
    <3> HIDE DEF body, old
    <3> QED
      BY <1>11, <1>12, <1>14
  <2> HIDE DEF body, old
  <2>7. old[i + 2] # Zero /\ old[i + 2].left_set =>
          CellToAddr(body[i + 1]) = CellToAddr(old[i + 1])
    <3>1. CASE i = at + 2
      BY <2>1, <2>2, <2>4, <2>5, <2>6, <3>1
    <3>2. CASE i # at + 2
      BY <2>6, <3>2
    <3> QED
      BY <3>1, <3>2
  <2>8. old[i + 2] # Zero /\ old[i + 2].right_set =>
          CellToAddr(body[i + 3]) = CellToAddr(old[i + 3])
    BY <2>1, <2>3, <2>6
  <2> QED
    BY <2>1, <2>6, <2>7, <2>8, SameRecord
<1>15. \A i \in Offs : Rec(p, i)' = IF i = at THEN record ELSE Rec(p, i)
  <2>1. \A i \in Offs : Rec(p, i)' = FromBytes(body, i)
    BY <1>9
  <2>2. \A i \in Offs : Rec(p, i) = FromBytes(old, i)
    BY DEF Rec
  <2> HIDE DEF body, old
  <2> QED
    BY <1>13, <1>14, <2>1, <2>2
<1> QED
  BY <1>5, <1>6, <1>7, <1>8, <1>10, <1>15

\* The pair is the last one of its key, and no other key is concerned.
LEMMA LatestValues ==
  ASSUME inserted \in Seq(Nat \X (Values \cup {None})),
         NEW k \in Nat, NEW v \in Values \cup {None},
         inserted' = Append(inserted, <<k, v>>)
  PROVE  /\ inserted' \in Seq(Nat \X (Values \cup {None}))
         /\ DOMAIN inserted = 1 .. Len(inserted) /\ Len(inserted) \in Nat
         /\ DOMAIN inserted' = 1 .. (Len(inserted) + 1)
         /\ inserted'[Len(inserted) + 1] = <<k, v>>
         /\ \A j \in DOMAIN inserted :
              inserted'[j] = inserted[j] /\ inserted[j][1] \in Nat
         /\ \A j \in DOMAIN inserted' :
              LatestValue(j)' = IF inserted'[j][1] = k THEN v
                                ELSE LatestValue(j)
<1> DEFINE V == Values \cup {None}
           N == Len(inserted)
<1> HIDE DEF V
<1>0. inserted \in Seq(Nat \X V) /\ v \in V
  BY DEF V
<1>1. DOMAIN inserted = 1 .. N /\ N \in Nat
  BY <1>0, LenProperties
<1>2. /\ inserted' \in Seq(Nat \X V) /\ Len(inserted') = N + 1
      /\ \A j \in 1 .. N : inserted'[j] = inserted[j]
      /\ inserted'[N + 1] = <<k, v>>
  BY <1>0, AppendProperties
<1>3. DOMAIN inserted' = 1 .. (N + 1)
  BY <1>2, LenProperties
<1>4. \A j \in DOMAIN inserted : inserted[j][1] \in Nat
  BY <1>0, <1>1, ElementOfSeq
<1> HIDE DEF N
<1>5. ASSUME NEW j \in DOMAIN inserted', inserted'[j][1] = k
      PROVE  LatestValue(j)' = v
  <2> DEFINE S == {i \in DOMAIN inserted' : inserted'[i][1] = k}
  <2>1. N + 1 \in S /\ \A i \in S : N + 1 >= i
    BY <1>1, <1>2, <1>3
  <2>2. \A i \in S : i \in Nat
    BY <1>1, <1>3
  <2> HIDE DEF S
  <2>3. Last(S) = N + 1
    BY <1>1, <2>1, <2>2 DEF Last
  <2>4. LatestValue(j)' = inserted'[Last(S)][2]
    BY <1>5 DEF LatestValue, S, Last
  <2> QED
    BY <1>2, <2>3, <2>4
<1>6. ASSUME NEW j \in DOMAIN inserted', inserted'[j][1] # k
      PROVE  LatestValue(j)' = LatestValue(j)
  <2> DEFINE q == inserted[j][1]
             S == {i \in DOMAIN inserted : inserted[i][1] = q}
             T == {i \in DOMAIN inserted' : inserted'[i][1] = q}
  <2>1. j \in 1 .. N /\ inserted'[j] = inserted[j] /\ q # k
    BY <1>1, <1>2, <1>3, <1>6
  <2>2. q = inserted'[j][1]
    BY <2>1
  <2>3. S = T
    <3> HIDE DEF q
    <3> QED
      BY <1>1, <1>2, <1>3, <2>1
  <2>4. S \subseteq 1 .. N /\ j \in S
    BY <1>1, <2>1
  <2>5. LatestValue(j)' = inserted'[Last(T)][2]
    BY <2>2 DEF LatestValue, Last
  <2>6. LatestValue(j) = inserted[Last(S)][2]
    BY DEF LatestValue
  <2> HIDE DEF S, T, q
  <2>7. Last(S) \in S
    <3>1. S \subseteq 0 .. N /\ S # {}
      BY <2>4
    <3> QED
      BY <1>1, <3>1, LastOfNumbers
  <2>8. inserted'[Last(S)] = inserted[Last(S)]
    BY <1>2, <2>4, <2>7
  <2> QED
    BY <2>3, <2>5, <2>6, <2>8
<1> QED
  BY <1>1, <1>2, <1>3, <1>4, <1>5, <1>6 DEF N, V

\* Where a search goes after a step.
LEMMA WayAfter ==
  ASSUME End' = End, NEW n, NEW k, NEW A, NEW f, NEW e,
         Above(n, k)' = A, First(A) = f, e = End
  PROVE  Way(n, k)' = IF HasKey(n, k)' THEN None
                      ELSE IF A # {} THEN Rec(n, f)'.left
                      ELSE Rec(n, e)'.right
<1>1. First(Above(n, k))' = f
  BY DEF First
<1>2. Rec(n, First(Above(n, k)))' = Rec(n, f)'
  BY <1>1 DEF Rec, FromBytes, CellToAddr
<1>3. Rec(n, End)' = Rec(n, e)'
  BY DEF Rec, FromBytes, CellToAddr
<1> QED
  BY <1>2, <1>3 DEF Way

\* A page whose records keep their keys and addresses sends searches where it
\* did.
LEMMA WaySame ==
  ASSUME TableInv, page_size > 2, NEW n \in Number,
         Offs' = Offs, End' = End,
         \A i \in Offs : /\ Rec(n, i)'.key = Rec(n, i).key
                         /\ Rec(n, i)'.left = Rec(n, i).left
                         /\ Rec(n, i)'.right = Rec(n, i).right,
         NEW k
  PROVE  Way(n, k)' = Way(n, k)
<1>1. HasKey(n, k)' <=> HasKey(n, k)
  BY DEF HasKey
<1>2. Above(n, k)' = Above(n, k)
  BY DEF Above
<1>3. PICK A, f : A = Above(n, k) /\ f = First(A)
  OBVIOUS
<1>4. First(Above(n, k))' = f
  BY <1>2, <1>3 DEF First
<1>5. A # {} => f \in Offs
  <2>1. A \subseteq Offs
    BY <1>3 DEF Above
  <2> QED
    BY <1>3, <2>1, FirstOfOffs
<1>6. End \in Offs
  BY Geometry
<1>7. Way(n, k)' = IF HasKey(n, k)' THEN None
                   ELSE IF A # {} THEN Rec(n, f)'.left
                   ELSE Rec(n, End)'.right
  <2>1. PICK e : e = End
    OBVIOUS
  <2>2. Way(n, k)' = IF HasKey(n, k)' THEN None
                     ELSE IF A # {} THEN Rec(n, f)'.left ELSE Rec(n, e)'.right
    BY <1>2, <1>3, <2>1, WayAfter
  <2>3. Rec(n, e)' = Rec(n, End)'
    BY <2>1 DEF Rec, FromBytes, CellToAddr
  <2> QED
    BY <2>2, <2>3
<1> QED
  BY <1>1, <1>3, <1>5, <1>6, <1>7 DEF Way

\* A new record where a scan for its key has come to takes no key from others.
LEMMA WayNew ==
  ASSUME TableInv, page_size > 2, NEW p \in Number, Ordered(p),
         NEW c \in Nat, NEW i \in Offs, Comes(p, i, c), Rec(p, i).key = None,
         Offs' = Offs, End' = End, NEW v,
         \A j \in Offs : Rec(p, j)' = IF j = i THEN NewRecord(c, v)
                                      ELSE Rec(p, j)
  PROVE  /\ \A k \in Nat : Way(p, k)' = Way(p, k)
         /\ Ordered(p)'
<1>1. /\ \A j \in Offs : j \in Nat /\ j <= End
      /\ End \in Offs /\ None \notin Nat
  BY Geometry, BTreeAssumption
<1>2. \A j \in Offs : Rec(p, j).key \in Nat \cup {None}
  BY RecordsAt DEF Record
<1>3. \A j \in Offs : j < i => Rec(p, j).key \in Nat /\ Rec(p, j).key < c
  BY <1>1, <1>2 DEF Comes
<1>4. \A j \in Offs : j >= i => Rec(p, j).key = None
  <2>1. \A j \in Offs : i < j => Rec(p, j).key = None
    BY DEF Ordered
  <2> QED
    BY <1>1, <2>1
<1>5. \A j \in Offs : Rec(p, j).key = None =>
        Rec(p, j).left = None /\ Rec(p, j).right = None
  BY DEF Ordered, BlankRecord
<1> DEFINE new == NewRecord(c, v)
<1>6. new.key = c /\ new.left = None /\ new.right = None
  BY DEF NewRecord, BlankRecord
<1> HIDE DEF new
<1>7. \A j \in Offs : Rec(p, j)' = IF j = i THEN new ELSE Rec(p, j)
  BY DEF new
<1>8. (Rec(p, End).right)' = None /\ Rec(p, End).right = None
  <2>1. PICK e \in Offs : e = End
    BY <1>1
  <2>2. Rec(p, e).right = None /\ Rec(p, e)'.right = None
    BY <1>1, <1>4, <1>5, <1>6, <1>7, <2>1
  <2>3. Rec(p, End)' = Rec(p, e)'
    BY <2>1 DEF Rec, FromBytes, CellToAddr
  <2> QED
    BY <2>1, <2>2, <2>3
<1>9. ASSUME NEW k \in Nat
      PROVE  Way(p, k)' = Way(p, k)
  <2>1. PICK e : e = End
    OBVIOUS
  <2>2. Rec(p, e)'.right = None
    BY <1>8, <2>1 DEF Rec, FromBytes, CellToAddr
  <2>3. PICK A, B, f, g : /\ A = Above(p, k) /\ B = Above(p, k)'
                          /\ f = First(A) /\ g = First(B)
    OBVIOUS
  <2>4. /\ Way(p, k) = IF HasKey(p, k) THEN None
                       ELSE IF A # {} THEN Rec(p, f).left ELSE None
        /\ Way(p, k)' = IF HasKey(p, k)' THEN None
                        ELSE IF B # {} THEN Rec(p, g)'.left ELSE None
    <3>1. Way(p, k) = IF HasKey(p, k) THEN None
                      ELSE IF A # {} THEN Rec(p, f).left ELSE None
      BY <1>8, <2>3 DEF Way
    <3>2. Way(p, k)' = IF HasKey(p, k)' THEN None
                       ELSE IF B # {} THEN Rec(p, g)'.left
                       ELSE Rec(p, e)'.right
      BY <2>1, <2>3, WayAfter
    <3> QED
      BY <2>2, <3>1, <3>2
  <2>5. A = {j \in Offs : Rec(p, j).key # None /\ Rec(p, j).key > k}
    BY <2>3 DEF Above
  <2>6. B = {j \in Offs : Rec(p, j)'.key # None /\ Rec(p, j)'.key > k}
    BY <2>3 DEF Above
  <2>7. B = IF c > k THEN A \cup {i} ELSE A
    <3>1. \A j \in Offs : j # i => (j \in A <=> j \in B)
      BY <1>7, <2>5, <2>6
    <3>2. i \notin A /\ (i \in B <=> c > k)
      BY <1>1, <1>6, <1>7, <2>5, <2>6
    <3>3. A \subseteq Offs /\ B \subseteq Offs
      BY <2>5, <2>6
    <3> QED
      BY <3>1, <3>2, <3>3
  <2>8. CASE k = c
    <3>1. Way(p, k) = None
      BY <2>8, WayAt
    <3>2. HasKey(p, k)'
      BY <1>6, <1>7, <2>8 DEF HasKey
    <3> QED
      BY <2>4, <3>1, <3>2
  <2>9. CASE k # c
    <3>1. HasKey(p, k)' <=> HasKey(p, k)
      BY <1>1, <1>6, <1>7, <2>9 DEF HasKey
    <3>2. A \subseteq Offs /\ \A j \in A : j < i /\ j \in Nat /\ j # i
      BY <1>1, <1>4, <2>5
    <3>3. CASE A # {}
      <4>1. f \in A /\ \A j \in A : f <= j
        BY <2>3, <3>2, <3>3, FirstOfOffs
      <4>2. B \subseteq Offs /\ f \in B /\ \A j \in B : f <= j
        BY <1>1, <2>7, <3>2, <4>1
      <4>3. g = f
        BY <2>3, <4>2, FirstOfOffs
      <4>4. Rec(p, f)' = Rec(p, f)
        BY <1>7, <3>2, <4>1
      <4> QED
        BY <2>4, <3>1, <3>3, <4>2, <4>3, <4>4
    <3>4. CASE A = {}
      <4>1. CASE c > k
        <5>1. B = {i}
          BY <2>7, <3>4, <4>1
        <5>2. g = i
          BY <1>1, <2>3, <5>1, FirstOfOffs
        <5>3. Rec(p, g)'.left = None
          BY <1>6, <1>7, <5>2
        <5> QED
          BY <2>4, <3>1, <3>4, <5>1, <5>3
      <4>2. CASE ~ (c > k)
        BY <2>4, <2>7, <3>1, <3>4, <4>2
      <4> QED
        BY <4>1, <4>2
    <3> QED
      BY <3>3, <3>4
  <2> QED
    BY <2>8, <2>9
<1>10. Ordered(p)'
  <2>1. \A j, l \in Offs : j < l /\ Rec(p, l)'.key # None =>
          Rec(p, j)'.key # None /\ Rec(p, j)'.key < Rec(p, l)'.key
    <3> SUFFICES ASSUME NEW j \in Offs, NEW l \in Offs, j < l,
                        Rec(p, l)'.key # None
                 PROVE  /\ Rec(p, j)'.key # None
                        /\ Rec(p, j)'.key < Rec(p, l)'.key
      OBVIOUS
    <3>1. l <= i
      BY <1>1, <1>4, <1>7
    <3>2. j # i /\ Rec(p, j)' = Rec(p, j) /\ j < i
      BY <1>1, <1>7, <3>1
    <3>3. CASE l = i
      BY <1>1, <1>3, <1>6, <1>7, <3>2, <3>3
    <3>4. CASE l # i
      BY <1>7, <3>2, <3>4 DEF Ordered
    <3> QED
      BY <3>3, <3>4
  <2>2. \A j \in Offs : Rec(p, j)'.key = None => Rec(p, j)' = BlankRecord
    BY <1>1, <1>6, <1>7 DEF Ordered
  <2>3. \A j \in Offs : j # End => Rec(p, j)'.right = None
    BY <1>6, <1>7 DEF Ordered
  <2> QED
    BY <2>1, <2>2, <2>3 DEF Ordered, BlankRecord
<1> QED
  BY <1>9, <1>10

\* A new address of a record takes the keys that had nowhere to go on its side,
\* and no others.
LEMMA WayLinked ==
  ASSUME TableInv, page_size > 2, NEW p \in Number, Ordered(p),
         key \in Nat, NEW i \in Offs, Open(p, i), side \in {"left", "right"},
         Offs' = Offs, End' = End, NEW c,
         \A j \in Offs : Rec(p, j)' = IF j = i
                                      THEN [Rec(p, i) EXCEPT ![side] = c]
                                      ELSE Rec(p, j)
  PROVE  /\ \A k : k = key => Way(p, k) = None /\ Way(p, k)' = c
         /\ \A k \in Nat : Way(p, k)' # Way(p, k) =>
                            Way(p, k) = None /\ Way(p, k)' = c
         /\ Ordered(p)'
<1>1. End \in Offs
  BY Geometry
<1>2. Rec(p, i) \in Record
  BY RecordsAt
<1> DEFINE r   == Rec(p, i)
           new == [r EXCEPT ![side] = c]
<1>3. /\ new.key = r.key
      /\ new.left = IF side = "left" THEN c ELSE r.left
      /\ new.right = IF side = "right" THEN c ELSE r.right
  BY <1>2 DEF Record
<1>4. \A j \in Offs : Rec(p, j)' = IF j = i THEN new ELSE Rec(p, j)
  OBVIOUS
<1>5. r.key # None /\ (side = "left" => r.left = None)
      /\ (side = "right" => r.right = None /\ i = End)
  BY DEF Open
<1> HIDE DEF new
<1>6. \A k : HasKey(p, k)' <=> HasKey(p, k)
  BY <1>3, <1>4 DEF HasKey
<1>7. \A k : Above(p, k)' = Above(p, k)
  BY <1>3, <1>4 DEF Above
<1>8. ASSUME NEW k
      PROVE  /\ Way(p, k)' # Way(p, k) => Way(p, k) = None /\ Way(p, k)' = c
             /\ /\ ~ HasKey(p, k)
                /\ \/ /\ side = "left" /\ Above(p, k) # {}
                      /\ First(Above(p, k)) = i
                   \/ side = "right" /\ Above(p, k) = {}
                => Way(p, k)' = c
  <2>1. PICK A, f, e : A = Above(p, k) /\ f = First(A) /\ e = End
    OBVIOUS
  <2>2. Way(p, k) = IF HasKey(p, k) THEN None
                    ELSE IF A # {} THEN Rec(p, f).left ELSE Rec(p, e).right
    BY <2>1 DEF Way
  <2>3. Way(p, k)' = IF HasKey(p, k) THEN None
                     ELSE IF A # {} THEN Rec(p, f)'.left ELSE Rec(p, e)'.right
    <3>1. Way(p, k)' = IF HasKey(p, k)' THEN None
                       ELSE IF A # {} THEN Rec(p, f)'.left ELSE Rec(p, e)'.right
      BY <1>7, <2>1, WayAfter
    <3> QED
      BY <1>6, <3>1
  <2>4. A # {} => f \in Offs
    <3>1. A \subseteq Offs
      BY <2>1 DEF Above
    <3> QED
      BY <2>1, <3>1, FirstOfOffs
  <2>5. e \in Offs
    BY <1>1, <2>1
  <2>6. \A j \in Offs : /\ Rec(p, j)'.left = IF j = i /\ side = "left" THEN c
                                              ELSE Rec(p, j).left
                        /\ Rec(p, j)'.right = IF j = i /\ side = "right" THEN c
                                               ELSE Rec(p, j).right
    BY <1>3, <1>4
  <2> QED
    BY <1>5, <2>1, <2>2, <2>3, <2>4, <2>5, <2>6
<1>9. /\ ~ HasKey(p, key)
      /\ \/ side = "left" /\ Above(p, key) # {} /\ First(Above(p, key)) = i
         \/ side = "right" /\ Above(p, key) = {}
      /\ Way(p, key) = None
  <2>1. Comes(p, i, key) /\ r.key # None
    BY DEF Open
  <2>2. CASE side = "left" /\ r.key > key /\ r.left = None
    BY <2>1, <2>2, WayAt
  <2>3. CASE side = "right" /\ i = End /\ r.key < key /\ r.right = None
    BY <2>1, <2>3, WayAt
  <2> QED
    BY <2>2, <2>3 DEF Open
<1>10. Ordered(p)'
  <2>1. \A j \in Offs : /\ Rec(p, j)'.key = Rec(p, j).key
                        /\ Rec(p, j).key = None => Rec(p, j)' = Rec(p, j)
                        /\ j # End => Rec(p, j)'.right = Rec(p, j).right
    BY <1>3, <1>4, <1>5
  <2> QED
    BY <2>1 DEF Ordered, BlankRecord
<1> QED
  BY <1>8, <1>9, <1>10

\* The call returns: its record is in its page.
LEMMA FinishFound ==
  ASSUME FoundInv, Finish, ~ spoilt'
  PROVE  FoundInv'
<1>1. /\ pc = "write" /\ pc' = "idle" /\ WriteRecord
      /\ inserted' = Append(inserted, <<key, value>>)
  BY DEF Finish
<1>2. TreeInv'
  BY FinishKeeps DEF FoundInv
<1>3. PICK p, o : p = curr_page /\ o = at
  OBVIOUS
<1>4. /\ Comes(p, o, key) /\ o \in Offs
      /\ \/ Rec(p, o).key = None /\ record = NewRecord(key, value)
         \/ Rec(p, o).key = key /\ record = Revalued(Rec(p, o))
  BY <1>1, <1>3 DEF FoundInv, Decided, Comes
<1>5. PICK R : Divided(R) /\ Arrived(R)
  BY DEF FoundInv
<1>6. /\ TableInv /\ p \in Number /\ value \in Values \cup {None}
      /\ page_size > 2 /\ Ordered(p)
  BY <1>3 DEF FoundInv, TreeInv, TreeTypeOK, CallInv
<1>7. key \in R[p] /\ key \in Nat
  BY <1>1, <1>3, <1>5, <1>6 DEF Arrived, Divided
<1>8. /\ page_size' = page_size /\ Number' = Number
      /\ Offs' = Offs /\ End' = End
      /\ \A n \in Number : \A i \in Offs :
           Rec(n, i)' = IF n = p /\ i = o THEN record ELSE Rec(n, i)
  <2>1. /\ TreeInv /\ WriteRecord /\ ~ spoilt' /\ page_size > 2
        /\ Ordered(curr_page)
        /\ AtRecord
    BY <1>1, <1>3, <1>4, <1>6 DEF FoundInv, AtRecord
  <2>2. \A n \in Number : \A i \in Offs :
          Rec(n, i)' = IF n = curr_page /\ i = at THEN record ELSE Rec(n, i)
    BY <2>1, Written
  <2>3. page_size' = page_size /\ Number' = Number /\ Offs' = Offs /\ End' = End
    BY <2>1, Written
  <2> QED
    BY <1>3, <2>2, <2>3
<1>9. Rec(p, o) \in Record
  BY <1>4, <1>6, RecordsAt
<1>10. record.key = key /\ record.value = value /\ key # None
  <2>1. key # None
    BY <1>7, BTreeAssumption
  <2>2. CASE record = NewRecord(key, value)
    BY <2>1, <2>2 DEF NewRecord, BlankRecord
  <2>3. CASE Rec(p, o).key = key /\ record = Revalued(Rec(p, o))
    BY <1>9, <2>1, <2>3 DEF Revalued, Record
  <2> QED
    BY <1>4, <2>2, <2>3
<1>11. (\A k \in Nat : Way(p, k)' = Way(p, k)) /\ Ordered(p)'
  <2>1. CASE Rec(p, o).key = None /\ record = NewRecord(key, value)
    <3>1. \A j \in Offs : Rec(p, j)' = IF j = o THEN NewRecord(key, value)
                                       ELSE Rec(p, j)
      BY <1>6, <1>8, <2>1
    <3> QED
      BY <1>4, <1>6, <1>7, <1>8, <2>1, <3>1, WayNew
  <2>2. CASE Rec(p, o).key = key /\ record = Revalued(Rec(p, o))
    <3>1. /\ record.key = Rec(p, o).key /\ record.left = Rec(p, o).left
          /\ record.right = Rec(p, o).right
      BY <1>9, <2>2 DEF Revalued, Record
    <3>2. \A j \in Offs : /\ Rec(p, j)'.key = Rec(p, j).key
                          /\ Rec(p, j)'.left = Rec(p, j).left
                          /\ Rec(p, j)'.right = Rec(p, j).right
                          /\ j # o => Rec(p, j)' = Rec(p, j)
      BY <1>6, <1>8, <3>1
    <3>3. \A k : Way(p, k)' = Way(p, k)
      BY <1>6, <1>8, <3>2, WaySame
    <3>4. Ordered(p)'
      <4>1. Rec(p, o)'.key # None
        BY <1>4, <1>6, <1>8, <1>10
      <4> QED
        BY <1>6, <1>8, <3>2, <4>1 DEF Ordered, BlankRecord
    <3> QED
      BY <3>3, <3>4
  <2> QED
    BY <1>4, <2>1, <2>2
<1>12. \A n \in Number : n # p =>
         (\A k : Way(n, k)' = Way(n, k)) /\ Ordered(n)'
  <2> SUFFICES ASSUME NEW n \in Number, n # p
               PROVE  (\A k : Way(n, k)' = Way(n, k)) /\ Ordered(n)'
    OBVIOUS
  <2>1. \A j \in Offs : Rec(n, j)' = Rec(n, j)
    BY <1>8
  <2>2. \A k : Way(n, k)' = Way(n, k)
    BY <1>6, <1>8, <2>1, WaySame
  <2>3. Ordered(n)
    BY DEF FoundInv
  <2> QED
    BY <1>8, <2>1, <2>2, <2>3 DEF Ordered, BlankRecord
<1>13. \A n \in Number : Ordered(n)' /\ \A k \in Nat : Way(n, k)' = Way(n, k)
  BY <1>11, <1>12
<1>14. Divided(R)'
  <2>1. \A n \in Number : \A i \in Offs :
          Rec(n, i)'.key # None => Rec(n, i)'.key \in R[n]
    BY <1>5, <1>7, <1>8, <1>10 DEF Divided
  <2>2. R \in [Number -> SUBSET Nat]
    BY <1>5 DEF Divided
  <2>3. \A n \in Number : \A k \in R[n] :
          Way(n, k)' # None => Way(n, k)' > n /\ k \in R[Way(n, k)']
    BY <1>5, <1>13, <2>2 DEF Divided
  <2>4. \A m, n \in Number : \A k \in R[n] :
          m < n /\ k \in R[m] => Way(m, k)' # None
    BY <1>5, <1>13, <2>2 DEF Divided
  <2> QED
    BY <1>5, <1>8, <2>1, <2>3, <2>4 DEF Divided
<1>15. Arrived(R)' /\ Decided'
  BY <1>1 DEF Arrived, Decided
<1>16. Remembered'
  <2> DEFINE N == Len(inserted)
  <2>1. /\ inserted \in Seq(Nat \X (Values \cup {None}))
        /\ \A j \in DOMAIN inserted : \E n \in Number : \E i \in Offs :
             Rec(n, i).key = inserted[j][1] /\ Rec(n, i).value = LatestValue(j)
    BY DEF FoundInv, Remembered
  <2>2. value \in Values \cup {None}
    BY <1>6
  <2>3. /\ inserted' \in Seq(Nat \X (Values \cup {None}))
        /\ DOMAIN inserted = 1 .. N /\ N \in Nat
        /\ DOMAIN inserted' = 1 .. (N + 1)
        /\ inserted'[N + 1] = <<key, value>>
        /\ \A j \in DOMAIN inserted :
             inserted'[j] = inserted[j] /\ inserted[j][1] \in Nat
        /\ \A j \in DOMAIN inserted' :
             LatestValue(j)' = IF inserted'[j][1] = key THEN value
                               ELSE LatestValue(j)
    BY <1>1, <1>7, <2>1, <2>2, LatestValues
  <2> HIDE DEF N
  <2>4. ASSUME NEW j \in DOMAIN inserted'
        PROVE  \E n \in Number : \E i \in Offs :
                 /\ Rec(n, i)'.key = inserted'[j][1]
                 /\ Rec(n, i)'.value = LatestValue(j)'
    <3>1. CASE inserted'[j][1] = key
      <4>1. Rec(p, o)' = record
        BY <1>4, <1>6, <1>8
      <4> QED
        BY <1>4, <1>6, <1>10, <2>3, <3>1, <4>1
    <3>2. CASE inserted'[j][1] # key
      <4>1. j \in DOMAIN inserted /\ inserted'[j] = inserted[j]
        BY <2>3, <3>2
      <4>2. PICK n \in Number, i \in Offs :
              Rec(n, i).key = inserted[j][1] /\ Rec(n, i).value = LatestValue(j)
        BY <2>1, <4>1
      <4>3. Rec(n, i).key # None /\ Rec(n, i).key # key
        BY <2>3, <3>2, <4>1, <4>2, BTreeAssumption
      <4>4. ~ (n = p /\ i = o)
        BY <1>4, <4>3
      <4>5. Rec(n, i)' = Rec(n, i)
        BY <1>8, <4>4
      <4> QED
        BY <2>3, <3>2, <4>1, <4>2, <4>5
    <3> QED
      BY <3>1, <3>2
  <2> QED
    BY <1>8, <2>3, <2>4 DEF Remembered
<1> QED
  BY <1>2, <1>6, <1>8, <1>13, <1>14, <1>15, <1>16 DEF FoundInv

\* The record behind the last one is never read again.
LEMMA WriteBehindFound ==
  ASSUME FoundInv, WriteBehind, ~ spoilt'
  PROVE  FoundInv'
<1>1. /\ pc = "write_behind" /\ pc' = "read" /\ WriteRecord
      /\ UNCHANGED <<key, curr_page, inserted>>
  BY DEF WriteBehind
<1>2. TreeInv'
  BY WriteBehindKeeps DEF FoundInv
<1>3. /\ TableInv /\ curr_page \in Number /\ page_size > 2
      /\ \A n \in Number : Ordered(n)
      /\ at = End + 2 /\ Rec(curr_page, End).right = None
  BY <1>1 DEF FoundInv, TreeInv, TreeTypeOK, Decided
<1>4. /\ page_size' = page_size /\ Number' = Number
      /\ Offs' = Offs /\ End' = End
      /\ \A n \in Number : \A i \in Offs : Rec(n, i)' = Rec(n, i)
  <2>1. at \notin Offs
    BY <1>3, Geometry
  <2>2. /\ TreeInv /\ WriteRecord /\ ~ spoilt' /\ page_size > 2
        /\ Ordered(curr_page)
        /\ AtRecord
    BY <1>1, <1>3 DEF FoundInv, AtRecord
  <2>3. \A n \in Number : \A i \in Offs :
          Rec(n, i)' = IF n = curr_page /\ i = at THEN record ELSE Rec(n, i)
    BY <2>2, Written
  <2>4. page_size' = page_size /\ Number' = Number /\ Offs' = Offs /\ End' = End
    BY <2>2, Written
  <2> QED
    BY <2>1, <2>3, <2>4
<1>5. PICK R : Divided(R) /\ Arrived(R)
  BY DEF FoundInv
<1>6. \A n \in Number : \A k : Way(n, k)' = Way(n, k)
  BY <1>3, <1>4, WaySame
<1>7. Divided(R)'
  BY <1>4, <1>5, <1>6 DEF Divided
<1>8. Arrived(R)' /\ Decided'
  BY <1>1, <1>5 DEF Arrived, Decided
<1>9. \A n \in Number' : Ordered(n)'
  BY <1>3, <1>4 DEF Ordered, BlankRecord
<1>10. \A j : LatestValue(j)' = LatestValue(j)
  BY <1>1 DEF LatestValue, Last
<1>11. Remembered'
  BY <1>1, <1>4, <1>10 DEF FoundInv, Remembered
<1> QED
  BY <1>2, <1>3, <1>4, <1>7, <1>8, <1>9, <1>11 DEF FoundInv

\* A page is created, which no record leads to yet.
LEMMA CreateChildFound ==
  ASSUME FoundInv, CreateChild
  PROVE  FoundInv'
<1>0. PICK L : L = Len(pages)
  OBVIOUS
<1>1. /\ pc = "create" /\ pc' = "link" /\ Create(None)
      /\ record' = [record EXCEPT ![side] = Answered]
      /\ UNCHANGED <<key, value, curr_page, at, side, inserted>>
  BY DEF CreateChild
<1>2. TreeInv'
  BY CreateChildKeeps DEF FoundInv
<1>3. TableInv /\ curr_page \in Number /\ L \in Nat /\ page_size > 2
  BY <1>0, PagesArePages DEF FoundInv, TreeInv, TreeTypeOK
<1>4. /\ page_size' = page_size /\ Len(pages') = L + 1
      /\ reply'.page = L
      /\ Number' = Number \cup {L}
      /\ \A n \in Number : pages'[n + 1] = pages[n + 1]
      /\ pages'[L + 1].body = [i \in 1 .. page_size |-> Zero]
  BY <1>0, <1>1, <1>3, CreateKeeps
<1>5. \A n \in Number : n \in Nat /\ n < L
  BY <1>0, <1>3 DEF Number
<1>6. Offs' = Offs /\ End' = End
  BY <1>4 DEF Offs, End, Last
<1>7. \A n \in Number : \A i : Rec(n, i)' = Rec(n, i)
  BY <1>4 DEF Rec, FromBytes, CellToAddr
<1>8. \A i \in Offs : Rec(L, i)' = BlankRecord
  <2> SUFFICES ASSUME NEW i \in Offs PROVE Rec(L, i)' = BlankRecord
    OBVIOUS
  <2>1. Rec(L, i)' = FromBytes(pages'[L + 1].body, i)
    BY DEF Rec, FromBytes, CellToAddr
  <2>2. i + 2 \in 1 .. page_size
    BY <1>3, Geometry
  <2>3. pages'[L + 1].body[i + 2] = Zero
    BY <1>4, <2>2
  <2> QED
    BY <2>1, <2>3 DEF FromBytes
<1>9. \A k : Way(L, k)' = None
  <2> SUFFICES ASSUME NEW k PROVE Way(L, k)' = None
    OBVIOUS
  <2>1. Above(L, k)' = {}
    BY <1>6, <1>8 DEF Above, BlankRecord
  <2>2. PICK f, e : f = First({}) /\ e = End
    OBVIOUS
  <2>3. Way(L, k)' = IF HasKey(L, k)' THEN None
                     ELSE IF {} # {} THEN Rec(L, f)'.left
                     ELSE Rec(L, e)'.right
    BY <1>6, <2>1, <2>2, WayAfter
  <2>4. e \in Offs
    BY <1>3, <2>2, Geometry
  <2>5. Rec(L, e)'.right = None
    BY <1>8, <2>4 DEF BlankRecord
  <2> QED
    BY <2>3, <2>5
<1>10. Ordered(L)'
  BY <1>6, <1>8 DEF Ordered, BlankRecord
<1>11. \A n \in Number : Ordered(n)'
  BY <1>6, <1>7 DEF FoundInv, Ordered, BlankRecord
<1>12. \A n \in Number : \A k :
         Way(n, k)' = Way(n, k) /\ Way(n, k) \in Number \cup {None}
  BY <1>3, <1>6, <1>7, WaySame, WayIsPage
<1>13. PICK R : Divided(R) /\ Arrived(R)
  BY DEF FoundInv
<1>14. PICK Q \in [Number' -> SUBSET Nat] :
         /\ Q[L] = {}
         /\ \A n \in Number : Q[n] = R[n]
  <2> DEFINE S == [n \in Number' |-> IF n = L THEN {} ELSE R[n]]
  <2>1. S \in [Number' -> SUBSET Nat]
    BY <1>4, <1>13 DEF Divided
  <2>2. S[L] = {} /\ \A n \in Number : S[n] = R[n]
    BY <1>4, <1>5
  <2> QED
    BY <2>1, <2>2
<1>15. Divided(Q)'
  <2>1. Q[0] = Nat
    BY <1>3, <1>13, <1>14, PagesArePages DEF Divided
  <2>2. \A n \in Number' : \A i \in Offs :
          Rec(n, i)'.key # None => Rec(n, i)'.key \in Q[n]
    BY <1>4, <1>7, <1>8, <1>13, <1>14 DEF Divided, BlankRecord
  <2>3. ASSUME NEW n \in Number', NEW k \in Q[n], Way(n, k)' # None
        PROVE  Way(n, k)' > n /\ k \in Q[Way(n, k)']
    <3>1. n \in Number /\ k \in R[n]
      BY <1>4, <1>14, <2>3
    <3>2. Way(n, k)' = Way(n, k) /\ Way(n, k) \in Number
      BY <1>12, <2>3, <3>1
    <3>3. Way(n, k) > n /\ k \in R[Way(n, k)]
      BY <1>13, <2>3, <3>1, <3>2 DEF Divided
    <3> QED
      BY <1>14, <3>2, <3>3
  <2>4. ASSUME NEW m \in Number', NEW n \in Number', NEW k \in Q[n],
               m < n, k \in Q[m]
        PROVE  Way(m, k)' # None
    <3>1. m \in Number /\ n \in Number /\ k \in R[m] /\ k \in R[n]
      BY <1>4, <1>14, <2>4
    <3>2. Way(m, k) # None
      BY <1>13, <2>4, <3>1 DEF Divided
    <3> QED
      BY <1>12, <3>1, <3>2
  <2> QED
    BY <1>6, <1>14, <2>1, <2>2, <2>3, <2>4 DEF Divided
<1>16. Arrived(Q)'
  <2>1. key \in Q[curr_page]
    BY <1>1, <1>3, <1>13, <1>14 DEF Arrived
  <2>2. Q[Len(pages') - 1] = {}
    BY <1>3, <1>4, <1>14
  <2> QED
    BY <1>1, <2>1, <2>2 DEF Arrived
<1>17. record = Rec(curr_page, at) /\ Open(curr_page, at)
  BY <1>1 DEF FoundInv, Decided
<1>18. Decided'
  <2>1. PICK p, o : p = curr_page /\ o = at
    OBVIOUS
  <2>2. Rec(p, o)' = Rec(p, o) /\ \A j : Rec(p, j)' = Rec(p, j)
    BY <1>3, <1>7, <2>1
  <2>3. Open(p, o)'
    <3>1. Open(p, o)
      BY <1>17, <2>1
    <3> QED
      BY <1>1, <1>6, <2>2, <3>1 DEF Open, Comes
  <2>4. record' = [Rec(p, o)' EXCEPT ![side'] = L]
    BY <1>1, <1>4, <1>17, <2>1, <2>2
  <2>5. curr_page' = p /\ at' = o /\ Len(pages') - 1 = L
    BY <1>1, <1>3, <1>4, <2>1
  <2>6. Rec(curr_page, at)' = Rec(p, o)' /\ Open(curr_page, at)'
    BY <2>3, <2>5 DEF Rec, FromBytes, CellToAddr, Open, Comes
  <2>7. \A i : Rec(Len(pages) - 1, i)' = Rec(L, i)'
    BY <2>5 DEF Rec, FromBytes, CellToAddr
  <2>8. \A i \in Offs' : Rec(Len(pages) - 1, i)' = BlankRecord
    BY <1>6, <1>8, <2>7
  <2>9. record' = [Rec(curr_page, at)' EXCEPT ![side'] = Len(pages') - 1]
    BY <2>4, <2>5, <2>6
  <2> QED
    BY <1>1, <2>6, <2>8, <2>9 DEF Decided, BlankRecord
<1>19. Remembered'
  <2>1. \A j : LatestValue(j)' = LatestValue(j)
    BY <1>1 DEF LatestValue, Last
  <2>2. \A j \in DOMAIN inserted : \E n \in Number' : \E i \in Offs' :
          Rec(n, i)'.key = inserted[j][1] /\ Rec(n, i)'.value = LatestValue(j)'
    BY <1>4, <1>6, <1>7, <2>1 DEF FoundInv, Remembered
  <2> QED
    BY <1>1, <2>2 DEF FoundInv, Remembered
<1>20. page_size' > 2 /\ \A n \in Number' : Ordered(n)'
  BY <1>3, <1>4, <1>10, <1>11
<1> QED
  BY <1>2, <1>15, <1>16, <1>18, <1>19, <1>20 DEF FoundInv

\* The new page is linked, and takes the keys that had nowhere to go.
LEMMA LinkChildFound ==
  ASSUME FoundInv, LinkChild, ~ spoilt'
  PROVE  FoundInv'
<1>1. /\ pc = "link" /\ pc' = "read" /\ WriteRecord
      /\ curr_page' = record[side]
      /\ UNCHANGED <<key, inserted>>
  BY DEF LinkChild
<1>2. TreeInv'
  BY LinkChildKeeps DEF FoundInv
<1>3. PICK R : Divided(R) /\ Arrived(R)
  BY DEF FoundInv
<1>4. PICK c, p, o : c = Len(pages) - 1 /\ p = curr_page /\ o = at
  OBVIOUS
<1>5. /\ TableInv /\ p \in Number /\ page_size > 2
      /\ Len(pages) \in Nat /\ 0 \in Number
      /\ side \in {"left", "right"}
      /\ \A n \in Number : Ordered(n)
  BY <1>4, PagesArePages DEF FoundInv, TreeInv, TreeTypeOK
<1>6. c \in Number /\ \A n \in Number : n \in Nat /\ n <= c
  BY <1>4, <1>5 DEF Number
<1>7. /\ Open(p, o) /\ o \in Offs /\ Rec(p, o).key # None
      /\ record = [Rec(p, o) EXCEPT ![side] = c]
      /\ \A i \in Offs : Rec(c, i) = BlankRecord
  BY <1>1, <1>4 DEF FoundInv, Decided, Open, Comes
<1>8. R[p] \subseteq Nat /\ key \in R[p] /\ key \in Nat /\ R[c] = {}
  BY <1>1, <1>3, <1>4, <1>5 DEF Arrived, Divided
<1>9. p # c /\ p < c /\ c # 0
  BY <1>5, <1>6, <1>8
<1>10. /\ page_size' = page_size /\ Number' = Number
       /\ Offs' = Offs /\ End' = End
       /\ \A n \in Number : \A i \in Offs :
            Rec(n, i)' = IF n = p /\ i = o THEN record ELSE Rec(n, i)
  <2>1. /\ TreeInv /\ WriteRecord /\ ~ spoilt' /\ page_size > 2
        /\ Ordered(curr_page) /\ AtRecord
    BY <1>1, <1>4, <1>5, <1>7 DEF FoundInv, AtRecord
  <2>2. \A n \in Number : \A i \in Offs :
          Rec(n, i)' = IF n = curr_page /\ i = at THEN record ELSE Rec(n, i)
    BY <2>1, Written
  <2>3. page_size' = page_size /\ Number' = Number /\ Offs' = Offs /\ End' = End
    BY <2>1, Written
  <2> QED
    BY <1>4, <2>2, <2>3
<1>11. Rec(p, o) \in Record
  BY <1>5, <1>7, RecordsAt
<1>12. /\ record.key = Rec(p, o).key /\ record.value = Rec(p, o).value
       /\ record[side] = c
  BY <1>5, <1>7, <1>11 DEF Record
<1>13. /\ \A k : k = key => Way(p, k) = None /\ Way(p, k)' = c
       /\ \A k \in Nat : Way(p, k)' # Way(p, k) =>
                           Way(p, k) = None /\ Way(p, k)' = c
       /\ Ordered(p)'
  <2>1. \A j \in Offs : Rec(p, j)' = IF j = o
                                     THEN [Rec(p, o) EXCEPT ![side] = c]
                                     ELSE Rec(p, j)
    BY <1>5, <1>7, <1>10
  <2>2. Ordered(p)
    BY <1>5
  <2> QED
    BY <1>5, <1>7, <1>8, <1>10, <2>1, <2>2, WayLinked
<1>14. \A n \in Number : n # p =>
         (\A k : Way(n, k)' = Way(n, k)) /\ Ordered(n)'
  <2> SUFFICES ASSUME NEW n \in Number, n # p
               PROVE  (\A k : Way(n, k)' = Way(n, k)) /\ Ordered(n)'
    OBVIOUS
  <2>1. \A j \in Offs : Rec(n, j)' = Rec(n, j)
    BY <1>10
  <2>2. \A k : Way(n, k)' = Way(n, k)
    BY <1>5, <1>10, <2>1, WaySame
  <2> QED
    BY <1>5, <1>10, <2>1, <2>2 DEF Ordered, BlankRecord
<1>15. PICK T : T = {k \in R[p] : Way(p, k)' # Way(p, k)}
  OBVIOUS
<1>16. c # None /\ \A n \in Number : n # None
  BY <1>6, BTreeAssumption
<1>17. /\ T \subseteq R[p]
       /\ \A k \in T : Way(p, k) = None /\ Way(p, k)' = c
       /\ \A k \in R[p] : k \notin T => Way(p, k)' = Way(p, k)
  BY <1>8, <1>13, <1>15
<1>18. \A k : k = key => k \in T
  BY <1>8, <1>13, <1>15, <1>16
<1>19. PICK Q \in [Number -> SUBSET Nat] :
         Q[c] = T /\ \A n \in Number : n # c => Q[n] = R[n]
  <2> DEFINE S == [n \in Number |-> IF n = c THEN T ELSE R[n]]
  <2>1. S \in [Number -> SUBSET Nat]
    BY <1>3, <1>8, <1>17 DEF Divided
  <2>2. S[c] = T /\ \A n \in Number : n # c => S[n] = R[n]
    BY <1>6
  <2> QED
    BY <2>1, <2>2
<1>20. \A n \in Number : \A k : Way(n, k) \in Number \cup {None}
  BY <1>5, WayIsPage
<1>21. \A k : Way(c, k) = None
  <2> SUFFICES ASSUME NEW k PROVE Way(c, k) = None
    OBVIOUS
  <2>1. Above(c, k) = {}
    BY <1>7 DEF Above, BlankRecord
  <2>2. Rec(c, End).right = None
    BY <1>5, <1>7, Geometry DEF BlankRecord
  <2> QED
    BY <2>1, <2>2 DEF Way
<1>22. Divided(Q)'
  <2>1. Q[0] = Nat
    BY <1>3, <1>5, <1>9, <1>19 DEF Divided
  <2>2. \A n \in Number : \A i \in Offs :
          Rec(n, i)'.key # None => Rec(n, i)'.key \in Q[n]
    <3> SUFFICES ASSUME NEW n \in Number, NEW i \in Offs,
                        Rec(n, i)'.key # None
                 PROVE  Rec(n, i)'.key \in Q[n]
      OBVIOUS
    <3>1. Rec(n, i)'.key = Rec(n, i).key
      BY <1>10, <1>12
    <3>2. n # c
      BY <1>7, <3>1 DEF BlankRecord
    <3> QED
      BY <1>3, <1>19, <3>1, <3>2 DEF Divided
  <2>3. ASSUME NEW n \in Number, NEW k \in Q[n], Way(n, k)' # None
        PROVE  Way(n, k)' > n /\ k \in Q[Way(n, k)']
    <3>1. n # c
      BY <1>6, <1>9, <1>14, <1>21, <2>3
    <3>2. k \in R[n]
      BY <1>19, <3>1
    <3>3. CASE n = p /\ k \in T
      BY <1>9, <1>17, <1>19, <3>3
    <3>4. CASE n # p \/ k \notin T
      <4>1. Way(n, k)' = Way(n, k)
        BY <1>14, <1>17, <3>2, <3>4
      <4>2. Way(n, k) \in Number
        BY <1>20, <2>3, <4>1
      <4>3. Way(n, k) > n /\ k \in R[Way(n, k)]
        BY <1>3, <2>3, <3>2, <4>1 DEF Divided
      <4>4. Way(n, k) # c
        BY <1>8, <4>3
      <4> QED
        BY <1>19, <4>1, <4>2, <4>3, <4>4
    <3> QED
      BY <3>3, <3>4
  <2>4. ASSUME NEW m \in Number, NEW n \in Number, NEW k \in Q[n],
               m < n, k \in Q[m]
        PROVE  Way(m, k)' # None
    <3>1. m # c
      BY <1>6, <2>4
    <3>2. k \in R[m]
      BY <1>19, <2>4, <3>1
    <3>3. CASE n # c
      <4>1. k \in R[n]
        BY <1>19, <3>3
      <4>2. Way(m, k) # None
        BY <1>3, <2>4, <3>2, <4>1 DEF Divided
      <4>3. CASE m = p
        BY <1>17, <3>2, <4>2, <4>3
      <4>4. CASE m # p
        BY <1>14, <4>2, <4>4
      <4> QED
        BY <4>3, <4>4
    <3>4. CASE n = c
      <4>1. k \in T /\ k \in R[p]
        BY <1>17, <1>19, <3>4
      <4>2. CASE m = p
        BY <1>16, <1>17, <4>1, <4>2
      <4>3. CASE m < p
        <5>1. Way(m, k) # None
          BY <1>3, <1>5, <3>2, <4>1, <4>3 DEF Divided
        <5>2. m # p
          BY <1>5, <1>6, <4>3
        <5> QED
          BY <1>14, <5>1, <5>2
      <4>4. CASE p < m
        <5>1. Way(p, k) # None
          BY <1>3, <1>5, <3>2, <4>1, <4>4 DEF Divided
        <5> QED
          BY <1>17, <4>1, <5>1
      <4> QED
        BY <1>5, <1>6, <4>2, <4>3, <4>4
    <3> QED
      BY <3>3, <3>4
  <2> QED
    BY <1>10, <1>19, <2>1, <2>2, <2>3, <2>4 DEF Divided
<1>23. curr_page' = c
  BY <1>1, <1>12
<1>24. Arrived(Q)' /\ Decided'
  BY <1>1, <1>18, <1>19, <1>23 DEF Arrived, Decided
<1>25. Remembered'
  <2>1. \A j : LatestValue(j)' = LatestValue(j)
    BY <1>1 DEF LatestValue, Last
  <2>2. \A n \in Number : \A i \in Offs :
          /\ Rec(n, i)'.key = Rec(n, i).key
          /\ Rec(n, i)'.value = Rec(n, i).value
    BY <1>10, <1>12
  <2> QED
    BY <1>1, <1>10, <2>1, <2>2 DEF FoundInv, Remembered
<1>26. page_size' > 2 /\ \A n \in Number' : Ordered(n)'
  BY <1>5, <1>10, <1>13, <1>14
<1> QED
  BY <1>2, <1>22, <1>24, <1>25, <1>26 DEF FoundInv

\* A tree begins with one page, which all keys come to.
LEMMA FoundInit ==
  ASSUME RoomForRecords, TreeInit
  PROVE  FoundInv
<1>1. TreeInv
  BY InitHolds
<1>2. page_size > 2
  <2>1. PICK tree \in Trees : page_size = tree.size
    BY DEF TreeInit
  <2>2. MaxRecords(page_size) > 0 /\ page_size \in Nat \ {0, 1}
    BY <1>1, <2>1 DEF RoomForRecords, TreeInv, TableInv
  <2> QED
    BY <2>2, SizeForRecords
<1>3. Len(pages) = 1 /\ pages[1].body = [i \in 1 .. page_size |-> Zero]
  BY DEF TreeInit
<1>4. Number = {0}
  BY <1>3 DEF Number
<1>5. \A i \in Offs : Rec(0, i) = BlankRecord
  <2> SUFFICES ASSUME NEW i \in Offs PROVE Rec(0, i) = BlankRecord
    OBVIOUS
  <2>1. i + 2 \in 1 .. page_size
    BY <1>1, <1>2, Geometry DEF TreeInv
  <2>2. pages[1].body[i + 2] = Zero
    BY <1>3, <2>1
  <2>3. pages[0 + 1].body[i + 2] = Zero
    BY <2>2
  <2> QED
    BY <2>3 DEF Rec, FromBytes
<1>6. \A k : Way(0, k) = None
  <2> SUFFICES ASSUME NEW k PROVE Way(0, k) = None
    OBVIOUS
  <2>1. Above(0, k) = {}
    BY <1>5 DEF Above, BlankRecord
  <2>2. Rec(0, End).right = None
    BY <1>1, <1>2, <1>5, Geometry DEF BlankRecord, TreeInv
  <2> QED
    BY <2>1, <2>2 DEF Way
<1>7. \A n \in Number : Ordered(n)
  BY <1>4, <1>5 DEF Ordered, BlankRecord
<1>8. PICK R \in [Number -> SUBSET Nat] : R[0] = Nat
  <2>1. [n \in Number |-> Nat] \in [Number -> SUBSET Nat]
    OBVIOUS
  <2> QED
    BY <1>4, <2>1
<1>9. Divided(R)
  BY <1>4, <1>5, <1>6, <1>8 DEF Divided, BlankRecord
<1>10. Arrived(R) /\ Decided
  BY DEF TreeInit, Arrived, Decided
<1>11. Remembered
  BY DEF TreeInit, Remembered
<1> QED
  BY <1>1, <1>2, <1>7, <1>9, <1>10, <1>11 DEF FoundInv

\* Every step keeps what a search needs, or spoils a page.
LEMMA StepFound ==
  FoundInv /\ [TreeNext]_treeVars /\ ~ spoilt' => FoundInv'
<1> SUFFICES ASSUME FoundInv, [TreeNext]_treeVars, ~ spoilt' PROVE FoundInv'
  OBVIOUS
<1>1. CASE UNCHANGED treeVars
  <2>1. TreeInv'
    BY <1>1, StepKeeps DEF FoundInv
  <2>2. /\ page_size' > 2 /\ Number' = Number /\ Offs' = Offs /\ End' = End
        /\ \A n, i : Rec(n, i)' = Rec(n, i)
        /\ \A n, i, k : Comes(n, i, k)' <=> Comes(n, i, k)
        /\ \A n \in Number' : Ordered(n)'
        /\ \A R : Divided(R) => Divided(R)'
        /\ Remembered'
    BY <1>1, PagesStay DEF treeVars, vars
  <2>3. PICK R : Divided(R) /\ Arrived(R)
    BY DEF FoundInv
  <2>4. /\ pc' = pc /\ key' = key /\ value' = value /\ at' = at
        /\ record' = record /\ side' = side /\ curr_page' = curr_page
        /\ inserted' = inserted /\ pages' = pages
    BY <1>1 DEF treeVars, vars
  <2>5. Arrived(R)'
    BY <2>3, <2>4 DEF Arrived
  <2>6. /\ Rec(curr_page, at)' = Rec(curr_page, at)
        /\ Rec(curr_page, End)' = Rec(curr_page, End)
        /\ \A i : Rec(Len(pages) - 1, i)' = Rec(Len(pages) - 1, i)
    BY <2>2, <2>4 DEF Rec, FromBytes, CellToAddr
  <2>7. Comes(curr_page, at, key)' <=> Comes(curr_page, at, key)
    BY <2>2, <2>4 DEF Comes, Rec, FromBytes, CellToAddr
  <2>8. Open(curr_page, at)' <=> Open(curr_page, at)
    BY <2>2, <2>4, <2>6, <2>7 DEF Open
  <2>9. Decided'
    BY <2>2, <2>4, <2>6, <2>7, <2>8
       DEF FoundInv, Decided, NewRecord, Revalued, BlankRecord
  <2> QED
    BY <2>1, <2>2, <2>3, <2>5, <2>9 DEF FoundInv
<1>2. CASE \E v \in Values : Insert(v)
  BY <1>2, InsertFound
<1>3. CASE InsertStep
  BY <1>3, FindRoomFound, FindKeyFound, FindGreaterFound, FindSmallerFound,
     FinishFound, WriteBehindFound, CreateChildFound, LinkChildFound
     DEF InsertStep
<1> QED
  BY <1>1, <1>2, <1>3 DEF TreeNext

\* What is spoilt stays so.
LEMMA SpoiltStays ==
  ASSUME [TreeNext]_treeVars, ~ spoilt'
  PROVE  ~ spoilt
  BY DEF TreeNext, treeVars, InsertStep, Insert, FindRoom, FindKey, FindGreater,
     FindSmaller, ReadBody, Finish, WriteBehind, CreateChild, LinkChild,
     WriteRecord

-----------------------------------------------------------------------------
(***************************************************************************)
(* The search.                                                             *)
(***************************************************************************)

\* The properties speak of the records with a key.
LEMMA RecordsIn ==
  ASSUME TableInv, NEW n \in Number, NEW r
  PROVE  r \in RecordsOf(n) <=>
           \E i \in Offs : r = Rec(n, i) /\ Rec(n, i).key # None
<1>1. Offsets(pages[n + 1].body) = Offs
  BY RecordsAt
<1> QED
  BY <1>1 DEF RecordsOf, Rec

\* Keys grow with the offsets.
LEMMA KeysGrow ==
  ASSUME TableInv, page_size > 2, NEW n \in Number, Ordered(n),
         NEW i \in Offs, NEW j \in Offs,
         Rec(n, i).key # None, Rec(n, j).key # None
  PROVE  /\ Rec(n, i).key \in Nat /\ Rec(n, j).key \in Nat
         /\ i <= j => Rec(n, i).key <= Rec(n, j).key
         /\ Rec(n, i).key = Rec(n, j).key => i = j
<1>1. i \in Nat /\ j \in Nat
  BY Geometry
<1>2. Rec(n, i).key \in Nat /\ Rec(n, j).key \in Nat
  BY RecordsAt DEF Record
<1>3. /\ i < j => Rec(n, i).key < Rec(n, j).key
      /\ j < i => Rec(n, j).key < Rec(n, i).key
  BY DEF Ordered
<1> QED
  BY <1>1, <1>2, <1>3

\* They say of a search what the code does.
LEMMA BetweenIsWay ==
  ASSUME TableInv, page_size > 2, NEW n \in Number, Ordered(n), NEW k \in Nat
  PROVE  Between(n, k) = Way(n, k)
<1> DEFINE smaller == {r \in RecordsOf(n) : r.key < k}
           greater == {r \in RecordsOf(n) : r.key > k}
           least   == CHOOSE r \in greater : \A s \in greater : r.key <= s.key
           most    == CHOOSE r \in smaller : \A s \in smaller : r.key >= s.key
<1>1. Between(n, k) = IF \E r \in RecordsOf(n) : r.key = k THEN None
                      ELSE IF greater # {} THEN least.left
                      ELSE IF smaller # {} THEN most.right
                      ELSE None
  BY DEF Between
<1>2. /\ End \in Offs /\ None \notin Nat
      /\ \A i \in Offs : i \in Nat /\ i <= End
  BY Geometry, BTreeAssumption
<1>3. \A r \in greater : \E i \in Above(n, k) : r = Rec(n, i)
  BY RecordsIn DEF Above
<1>4. \A i \in Above(n, k) : Rec(n, i) \in greater
  BY RecordsIn DEF Above
<1>5. \A r \in smaller :
        \E i \in Offs : r = Rec(n, i) /\ r.key # None /\ r.key < k
  BY RecordsIn
<1>6. \A i \in Offs : Rec(n, i).key # None /\ Rec(n, i).key < k =>
                        Rec(n, i) \in smaller
  BY RecordsIn
<1> HIDE DEF greater, smaller
<1>7. CASE HasKey(n, k)
  <2>1. \E r \in RecordsOf(n) : r.key = k
    BY <1>2, <1>7, RecordsIn DEF HasKey
  <2> QED
    BY <1>1, <1>7, <2>1 DEF Way
<1>8. CASE ~ HasKey(n, k)
  <2>1. ~ \E r \in RecordsOf(n) : r.key = k
    BY <1>8, RecordsIn DEF HasKey
  <2>2. CASE Above(n, k) # {}
    <3>1. PICK f : f = First(Above(n, k))
      OBVIOUS
    <3>2. f \in Above(n, k) /\ \A j \in Above(n, k) : f <= j
      <4>1. Above(n, k) \subseteq Offs
        BY DEF Above
      <4> QED
        BY <2>2, <3>1, <4>1, FirstOfOffs
    <3>3. \A j \in Above(n, k) :
            /\ j \in Offs /\ Rec(n, j).key # None
            /\ Rec(n, f).key <= Rec(n, j).key
            /\ Rec(n, f).key \in Nat /\ Rec(n, j).key \in Nat
            /\ Rec(n, f).key = Rec(n, j).key => f = j
      BY <3>2, KeysGrow DEF Above
    <3>4. Rec(n, f) \in greater /\ \A s \in greater : Rec(n, f).key <= s.key
      BY <1>3, <1>4, <3>2, <3>3
    <3>5. least \in greater /\ \A s \in greater : least.key <= s.key
      BY <3>4
    <3> HIDE DEF least
    <3>6. PICK j \in Above(n, k) : least = Rec(n, j)
      BY <1>3, <3>5
    <3>7. Rec(n, j).key <= Rec(n, f).key
      BY <3>4, <3>5, <3>6
    <3>8. f = j
      BY <3>3, <3>7
    <3> QED
      BY <1>1, <1>8, <2>1, <2>2, <3>1, <3>4, <3>6, <3>8 DEF Way
  <2>3. CASE Above(n, k) = {}
    <3>1. greater = {}
      BY <1>3, <2>3
    <3>2. Way(n, k) = Rec(n, End).right
      BY <1>8, <2>3 DEF Way
    <3>3. \A i \in Offs : Rec(n, i).key # None =>
            Rec(n, i).key \in Nat /\ Rec(n, i).key < k
      <4> SUFFICES ASSUME NEW i \in Offs, Rec(n, i).key # None
                   PROVE  Rec(n, i).key \in Nat /\ Rec(n, i).key < k
        OBVIOUS
      <4>1. Rec(n, i).key \in Nat /\ Rec(n, i).key # k
        BY <1>8, KeysGrow DEF HasKey
      <4>2. ~ (Rec(n, i).key > k)
        BY <2>3 DEF Above
      <4> QED
        BY <4>1, <4>2
    <3>4. \A i \in Offs : i # End => Rec(n, i).right = None
      BY DEF Ordered
    <3>5. Rec(n, End).key = None => Rec(n, End).right = None
      BY <1>2 DEF Ordered, BlankRecord
    <3>6. CASE smaller = {}
      <4>1. Rec(n, End).key = None
        BY <1>2, <1>6, <3>3, <3>6
      <4> QED
        BY <1>1, <2>1, <3>1, <3>2, <3>5, <3>6, <4>1
    <3>7. CASE smaller # {}
      <4> DEFINE S == {i \in Offs : Rec(n, i).key # None}
      <4>1. S # {} /\ S \subseteq Offs
        BY <1>5, <3>7
      <4>2. PICK l \in S : \A j \in S : j <= l
        <5>1. S \subseteq 0 .. End /\ End \in Nat
          BY <1>2, <4>1
        <5>2. Last(S) \in S /\ \A j \in S : Last(S) >= j
          BY <4>1, <5>1, LastOfNumbers
        <5> HIDE DEF S
        <5>3. \A j \in S : j \in Nat
          BY <1>2, <4>1
        <5> QED
          BY <5>2, <5>3
      <4>3. \A j \in S : Rec(n, j).key <= Rec(n, l).key
        BY <4>2, KeysGrow
      <4>4. Rec(n, l) \in smaller /\ \A s \in smaller : Rec(n, l).key >= s.key
        <5>1. \A s \in smaller : \E j \in S : s = Rec(n, j)
          BY <1>5
        <5>2. \A j \in S : Rec(n, j).key \in Nat
          BY <3>3
        <5> QED
          BY <1>6, <3>3, <4>2, <4>3, <5>1, <5>2
      <4>5. most \in smaller /\ \A s \in smaller : most.key >= s.key
        BY <4>4
      <4> HIDE DEF most
      <4>6. PICK j \in S : most = Rec(n, j)
        BY <1>5, <4>5
      <4>7. Rec(n, j).key >= Rec(n, l).key
        BY <4>4, <4>5, <4>6
      <4>8. j = l
        BY <4>2, <4>3, <4>6, <4>7, KeysGrow
      <4>9. most.right = Rec(n, End).right
        <5>1. CASE l = End
          BY <4>6, <4>8, <5>1
        <5>2. CASE l # End
          <6>1. End \notin S
            BY <1>2, <4>2, <5>2
          <6>2. Rec(n, End).key = None
            BY <1>2, <6>1
          <6> QED
            BY <3>4, <3>5, <4>2, <4>6, <4>8, <5>2, <6>2
        <5> QED
          BY <5>1, <5>2
      <4> QED
        BY <1>1, <2>1, <3>1, <3>2, <3>7, <4>9
    <3> QED
      BY <3>6, <3>7
  <2> QED
    BY <2>2, <2>3
<1> QED
  BY <1>7, <1>8

\* Two pages in which a search for one key could end are one page.
LEMMA OneEnd ==
  ASSUME NEW R, Divided(R), TableInv, NEW m \in Number, NEW n \in Number,
         NEW k \in Nat, k \in R[m], k \in R[n],
         Way(m, k) = None, Way(n, k) = None
  PROVE  m = n
<1>1. m \in Nat /\ n \in Nat
  BY PagesArePages
<1>2. ~ (m < n) /\ ~ (n < m)
  BY DEF Divided
<1> QED
  BY <1>1, <1>2

\* A key is in one page, and there in one record.
LEMMA KeysApart ==
  ASSUME FoundInv, NEW m \in Number, NEW n \in Number,
         NEW i \in Offs, NEW j \in Offs,
         Rec(m, i).key # None, Rec(m, i).key = Rec(n, j).key
  PROVE  m = n /\ i = j
<1>1. PICK R : Divided(R)
  BY DEF FoundInv
<1> DEFINE k == Rec(m, i).key
<1>2. k \in R[m] /\ k \in R[n]
  BY <1>1 DEF Divided
<1>3. k \in Nat
  BY <1>1, <1>2 DEF Divided
<1>4. Way(m, k) = None /\ Way(n, k) = None
  BY DEF Way, HasKey
<1>5. k # None /\ k = Rec(n, j).key
  OBVIOUS
<1> HIDE DEF k
<1>6. m = n
  BY <1>1, <1>2, <1>3, <1>4, OneEnd DEF FoundInv, TreeInv
<1>7. i = j
  BY <1>6, KeysGrow DEF FoundInv, TreeInv
<1> QED
  BY <1>6, <1>7

\* The path of a search, of which the definition speaks by itself, exists.
LEMMA PathOfSearch ==
  ASSUME FoundInv, NEW k \in Nat
  PROVE  \A d \in 0 .. Len(pages) :
           /\ SearchPath(k)[d] \in Number \cup {None}
           /\ SearchPath(k)[d] =
                IF d = 0 THEN 0
                ELSE IF SearchPath(k)[d - 1] = None THEN None
                ELSE Way(SearchPath(k)[d - 1], k)
<1>1. /\ Len(pages) \in Nat /\ 0 \in Number /\ None \notin Number
      /\ \A n \in Number : Way(n, k) \in Number \cup {None}
  <2>1. Len(pages) \in Nat /\ 0 \in Number /\ None \notin Number
    BY PagesArePages, BTreeAssumption DEF FoundInv, TreeInv
  <2> QED
    BY <2>1, WayIsPage DEF FoundInv, TreeInv
<1>2. PICK L \in Nat : L = Len(pages)
  BY <1>1
<1> DEFINE g == [n \in Number \cup {None} |->
                   IF n = None THEN None ELSE Between(n, k)]
<1>3. \A n \in Number \cup {None} :
        g[n] = IF n = None THEN None ELSE Way(n, k)
  BY BetweenIsWay DEF FoundInv, TreeInv
<1>4. \A n \in Number \cup {None} : g[n] \in Number \cup {None}
  BY <1>1, <1>3
<1>5. \A n \in Number \cup {None} :
        g[n] = IF n = None THEN None ELSE Between(n, k)
  OBVIOUS
<1> HIDE DEF g
<1> DEFINE Is(f) == f = [d \in 0 .. Len(pages) |->
                           IF d = 0 THEN 0
                           ELSE IF f[d - 1] = None THEN None
                           ELSE Between(f[d - 1], k)]
<1>6. \E f : Is(f)
  <2>1. PICK f : Iterates(f, 0, g, L)
    BY IterationExists
  <2>2. \A d \in 0 .. L : f[d] = IF d = 0 THEN 0 ELSE g[f[d - 1]]
    BY <2>1 DEF Iterates
  <2>3. f = [d \in 0 .. L |-> f[d]]
    BY <2>1 DEF Iterates
  <2> DEFINE A == {d \in Nat : d <= L => f[d] \in Number \cup {None}}
  <2>4. 0 \in A
    BY <1>1, <1>2, <2>2
  <2>5. ASSUME NEW d \in Nat, d \in A
        PROVE  d + 1 \in A
    BY <1>4, <2>2, <2>5
  <2>6. Nat \subseteq A
    BY <2>4, <2>5, SetInduction
  <2>7. \A d \in 0 .. L : f[d] \in Number \cup {None}
    BY <2>6
  <2>8. \A d \in 0 .. L :
          f[d] = IF d = 0 THEN 0
                 ELSE IF f[d - 1] = None THEN None ELSE Between(f[d - 1], k)
    <3> SUFFICES ASSUME NEW d \in 0 .. L, d # 0
                 PROVE  f[d] = IF f[d - 1] = None THEN None
                               ELSE Between(f[d - 1], k)
      BY <2>2
    <3>1. d - 1 \in 0 .. L
      OBVIOUS
    <3> QED
      BY <1>5, <2>2, <2>7, <3>1
  <2>9. Is(f)
    BY <1>2, <2>3, <2>8
  <2> QED
    BY <2>9
<1>7. Is(SearchPath(k))
  BY <1>6 DEF SearchPath
<1> DEFINE path == SearchPath(k)
<1>8. \A d \in 0 .. L :
        path[d] = IF d = 0 THEN 0
                  ELSE IF path[d - 1] = None THEN None
                  ELSE Between(path[d - 1], k)
  BY <1>2, <1>7
<1> HIDE DEF path
<1> DEFINE B == {d \in Nat : d <= L => path[d] \in Number \cup {None}}
<1>9. \A d \in 0 .. L : d # 0 => d - 1 \in 0 .. L
  OBVIOUS
<1>10. ASSUME NEW d \in 0 .. L, d # 0, path[d - 1] \in Number \cup {None}
       PROVE  path[d] = IF path[d - 1] = None THEN None
                        ELSE Way(path[d - 1], k)
  BY <1>8, <1>10, BetweenIsWay DEF FoundInv, TreeInv
<1>11. 0 \in B
  BY <1>1, <1>8
<1>12. ASSUME NEW d \in Nat, d \in B
       PROVE  d + 1 \in B
  <2> SUFFICES ASSUME d + 1 <= L PROVE path[d + 1] \in Number \cup {None}
    OBVIOUS
  <2>1. d + 1 \in 0 .. L /\ d + 1 # 0 /\ (d + 1) - 1 = d
    OBVIOUS
  <2>2. path[d] \in Number \cup {None}
    BY <1>12
  <2>3. path[d + 1] = IF path[d] = None THEN None ELSE Way(path[d], k)
    BY <1>10, <2>1, <2>2
  <2> QED
    BY <1>1, <2>2, <2>3
<1>13. Nat \subseteq B
  BY <1>11, <1>12, SetInduction
<1>14. \A d \in 0 .. L : path[d] \in Number \cup {None}
  BY <1>13
<1>15. ASSUME NEW d \in 0 .. L
       PROVE  path[d] = IF d = 0 THEN 0
                        ELSE IF path[d - 1] = None THEN None
                        ELSE Way(path[d - 1], k)
  <2>1. CASE d = 0
    BY <1>8, <2>1
  <2>2. CASE d # 0
    BY <1>9, <1>10, <1>14, <2>2
  <2> QED
    BY <2>1, <2>2
<1> QED
  BY <1>2, <1>14, <1>15 DEF path

\* A search passes by the page of its key: it comes to later and later pages,
\* all of which have a part in the key, and ends where the key is.
LEMMA SearchFinds ==
  ASSUME FoundInv, NEW n \in Number, NEW i \in Offs, Rec(n, i).key # None
  PROVE  \E d \in 0 .. Len(pages) : SearchPath(Rec(n, i).key)[d] = n
<1>1. PICK R : Divided(R)
  BY DEF FoundInv
<1>2. PICK k : k = Rec(n, i).key
  OBVIOUS
<1>3. k \in R[n] /\ k \in Nat /\ R[0] = Nat /\ Way(n, k) = None
  BY <1>1, <1>2 DEF Divided, Way, HasKey
<1>4. PICK L \in Nat : L = Len(pages)
  BY PagesArePages DEF FoundInv, TreeInv
<1>5. \A m \in Number : m \in Nat /\ m < L
  BY <1>4 DEF Number
<1>6. None \notin Number
  BY <1>5, BTreeAssumption
<1> DEFINE path == SearchPath(k)
<1>7. \A d \in 0 .. L :
        /\ path[d] \in Number \cup {None}
        /\ path[d] = IF d = 0 THEN 0
                     ELSE IF path[d - 1] = None THEN None
                     ELSE Way(path[d - 1], k)
  BY <1>3, <1>4, PathOfSearch
<1> HIDE DEF path
<1> DEFINE A == {d \in Nat : d <= L /\ path[d] # None =>
                               path[d] >= d /\ k \in R[path[d]]}
<1>8. 0 \in A
  BY <1>3, <1>7
<1>9. ASSUME NEW d \in Nat, d \in A
      PROVE  d + 1 \in A
  <2> SUFFICES ASSUME d + 1 <= L, path[d + 1] # None
               PROVE  path[d + 1] >= d + 1 /\ k \in R[path[d + 1]]
    OBVIOUS
  <2>1. d + 1 \in 0 .. L /\ d \in 0 .. L /\ d + 1 # 0 /\ (d + 1) - 1 = d
    OBVIOUS
  <2>2. path[d] # None /\ path[d + 1] = Way(path[d], k)
    BY <1>7, <2>1
  <2>3. path[d] \in Number /\ path[d + 1] \in Number
    BY <1>7, <2>1, <2>2
  <2>4. path[d] >= d /\ k \in R[path[d]]
    BY <1>9, <2>1, <2>2
  <2>5. path[d + 1] > path[d] /\ k \in R[path[d + 1]]
    BY <1>1, <2>2, <2>3, <2>4 DEF Divided
  <2> QED
    BY <1>5, <2>3, <2>4, <2>5
<1>10. Nat \subseteq A
  BY <1>8, <1>9, SetInduction
<1>11. \A d \in 0 .. L : path[d] # None =>
         path[d] \in Number /\ path[d] >= d /\ k \in R[path[d]]
  BY <1>7, <1>10
<1>12. path[L] = None
  <2> SUFFICES ASSUME path[L] # None PROVE FALSE
    OBVIOUS
  <2>1. path[L] \in Number /\ path[L] >= L
    BY <1>11
  <2> QED
    BY <1>5, <2>1
<1> DEFINE B == {d \in 0 .. L : path[d] = None}
<1>13. PICK e \in B : \A f \in B : e <= f
  <2>1. B \subseteq Nat /\ B # {}
    BY <1>12
  <2> QED
    BY <2>1, LeastNumber
<1>14. 0 \in Number
  BY PagesArePages DEF FoundInv, TreeInv
<1>15. e # 0 /\ e - 1 \in 0 .. L /\ e \in 0 .. L
  BY <1>6, <1>7, <1>13, <1>14
<1>16. path[e - 1] # None /\ path[e] = None
  BY <1>13, <1>15
<1>17. path[e - 1] \in Number /\ k \in R[path[e - 1]]
  BY <1>11, <1>15, <1>16
<1>18. Way(path[e - 1], k) = None
  BY <1>7, <1>15, <1>16
<1>19. path[e - 1] = n
  BY <1>1, <1>3, <1>17, <1>18, OneEnd DEF FoundInv, TreeInv
<1> QED
  BY <1>2, <1>4, <1>15, <1>19 DEF path

-----------------------------------------------------------------------------
(***************************************************************************)
(* What the invariant says of the properties.                              *)
(***************************************************************************)

\* Keys are in one page, and there in one record.
LEMMA OnceEach ==
  FoundInv => EachKeyOnce
<1> SUFFICES ASSUME FoundInv, NEW m \in Number, NEW n \in Number,
                    NEW r \in RecordsOf(m), NEW s \in RecordsOf(n),
                    r.key = s.key
             PROVE  m = n /\ r = s
  BY DEF EachKeyOnce
<1>1. PICK i \in Offs : r = Rec(m, i) /\ Rec(m, i).key # None
  BY RecordsIn DEF FoundInv, TreeInv
<1>2. PICK j \in Offs : s = Rec(n, j) /\ Rec(n, j).key # None
  BY RecordsIn DEF FoundInv, TreeInv
<1>3. m = n /\ i = j
  BY <1>1, <1>2, KeysApart
<1> QED
  BY <1>1, <1>2, <1>3

\* The search for a key that a page holds finds the value there and no other.
LEMMA StoredValue ==
  ASSUME FoundInv, NEW n \in Number, NEW i \in Offs, Rec(n, i).key # None
  PROVE  Stored(Rec(n, i).key) = {Rec(n, i).value}
<1>1. PICK k, v : k = Rec(n, i).key /\ v = Rec(n, i).value
  OBVIOUS
<1> DEFINE way == {SearchPath(k)[d] : d \in 0 .. Len(pages)} \ {None}
<1>2. k \in Nat /\ None \notin Number
  <2>1. Rec(n, i) \in Record
    BY RecordsAt DEF FoundInv, TreeInv
  <2> QED
    BY <1>1, <2>1, PagesArePages, BTreeAssumption DEF Record, FoundInv, TreeInv
<1>3. way \subseteq Number
  BY <1>2, PathOfSearch
<1>4. n \in way
  BY <1>1, <1>2, SearchFinds
<1>5. \A m \in Number : \A r \in RecordsOf(m) :
        r.key = k => m = n /\ r = Rec(n, i)
  <2> SUFFICES ASSUME NEW m \in Number, NEW r \in RecordsOf(m), r.key = k
               PROVE  m = n /\ r = Rec(n, i)
    OBVIOUS
  <2>1. PICK j \in Offs : r = Rec(m, j) /\ Rec(m, j).key # None
    BY RecordsIn DEF FoundInv, TreeInv
  <2>2. m = n /\ j = i
    BY <1>1, <2>1, KeysApart
  <2> QED
    BY <2>1, <2>2
<1>6. Rec(n, i) \in RecordsOf(n)
  BY RecordsIn DEF FoundInv, TreeInv
<1> DEFINE found(m) == {r.value : r \in {s \in RecordsOf(m) : s.key = k}}
<1>7. Stored(k) = UNION {found(m) : m \in way}
  BY DEF Stored
<1>8. found(n) = {v}
  BY <1>1, <1>5, <1>6
<1>9. \A m \in way : m # n => found(m) = {}
  BY <1>3, <1>5
<1> HIDE DEF way, found
<1>10. UNION {found(m) : m \in way} = {v}
  BY <1>4, <1>8, <1>9
<1> QED
  BY <1>1, <1>7, <1>10

\* What was inserted is found.
LEMMA AllFound ==
  FoundInv => EveryKeyIsFound
<1> SUFFICES ASSUME FoundInv, NEW j \in DOMAIN inserted
             PROVE  Stored(inserted[j][1]) = {LatestValue(j)}
  BY DEF EveryKeyIsFound
<1>1. PICK n \in Number, i \in Offs : /\ Rec(n, i).key = inserted[j][1]
                                      /\ Rec(n, i).value = LatestValue(j)
  BY DEF FoundInv, Remembered
<1>2. inserted[j][1] # None
  <2>1. inserted \in Seq(Nat \X (Values \cup {None}))
    BY DEF FoundInv, Remembered
  <2>2. DOMAIN inserted = 1 .. Len(inserted)
    BY <2>1, LenProperties
  <2>3. inserted[j] \in Nat \X (Values \cup {None})
    BY <2>1, <2>2, ElementOfSeq
  <2> QED
    BY <2>3, BTreeAssumption
<1>3. Rec(n, i).key # None
  BY <1>1, <1>2
<1>4. Stored(Rec(n, i).key) = {Rec(n, i).value}
  BY <1>3, StoredValue
<1> QED
  BY <1>1, <1>4

\* The invariant of every behaviour of a tree whose pages have room for a
\* record.
LEMMA SoundInvariance ==
  ASSUME RoomForRecords
  PROVE  TreeSpec => []SoundInv
<1>1. TreeInit => SoundInv
  BY FoundInit DEF SoundInv, FoundInv
<1>2. SoundInv /\ [TreeNext]_treeVars => SoundInv'
  BY StepKeeps, StepFound, SpoiltStays DEF SoundInv
<1> QED
  BY <1>1, <1>2, PTL DEF TreeSpec

\* Whatever the order of the keys and however many records a page has room for,
\* every key whose insertion has returned is found with its last value, after
\* every task of every later call, until a record is written over the left
\* address of the one behind it: tree.rs:62-235 keeps the order of keys that
\* tree.rs:13-19 promises, but for the overlap of the records.
THEOREM KeysAreFound ==
  ASSUME RoomForRecords
  PROVE  TreeSpec => []FoundUnlessSpoilt
<1>1. SoundInv => FoundUnlessSpoilt
  BY AllFound DEF SoundInv, FoundUnlessSpoilt
<1> QED
  BY <1>1, SoundInvariance, PTL

\* Until then no key is ever in two records: a search that comes to the key's
\* range comes to its record (tree.rs:82-138).
THEOREM KeysAreOnce ==
  ASSUME RoomForRecords
  PROVE  TreeSpec => []OnceUnlessSpoilt
<1>1. SoundInv => OnceUnlessSpoilt
  BY OnceEach DEF SoundInv, OnceUnlessSpoilt
<1> QED
  BY <1>1, SoundInvariance, PTL

=============================================================================
