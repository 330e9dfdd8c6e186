--------------------------- MODULE EntryTreeProofs ---------------------------
(***************************************************************************)
(* Proofs about the tree of filesystem entries: links lead to entries that *)
(* were written, whichever clones write and wherever the process ends, as  *)
(* long as no page of the book is unlinked; the new address that an        *)
(* insertion takes is one that nothing leads to; and a reader that nobody  *)
(* disturbs follows the links.                                             *)
(***************************************************************************)
EXTENDS EntryTree, NumberInduction, SequenceTheorems

\* The one-line operators of the code are read as what they stand for.
USE DEF NextAddress, FirstWrite, AfterWrite, Opened

-----------------------------------------------------------------------------
(***************************************************************************)
(* What can be reached along links.                                        *)
(***************************************************************************)

Wider(S) == S \cup UNION {Linked(m) : m \in S}

\* What is within d links of n, for d up to k.
IsWithin(within, n, k) ==
  within = [d \in 0 .. k |-> IF d = 0 THEN {n} ELSE Wider(within[d - 1])]

\* There is such a function, however far it goes.
LEMMA WithinExists ==
  ASSUME NEW n, NEW k \in Nat
  PROVE  \E within : IsWithin(within, n, k)
<1> DEFINE A == {j \in Nat : \E within : IsWithin(within, n, j)}
<1>1. 0 \in A
  <2>1. IsWithin([d \in 0 .. 0 |-> {n}], n, 0)
    BY DEF IsWithin
  <2> QED
    BY <2>1
<1>2. ASSUME NEW j \in Nat, j \in A
      PROVE  j + 1 \in A
  <2>1. PICK within : IsWithin(within, n, j)
    BY <1>2
  <2> DEFINE step   == Wider(within[j])
             longer == [d \in 0 .. (j + 1) |->
                          IF d = j + 1 THEN step ELSE within[d]]
             again  == [d \in 0 .. (j + 1) |->
                          IF d = 0 THEN {n} ELSE Wider(longer[d - 1])]
  <2>2. \A d \in 0 .. j :
          within[d] = IF d = 0 THEN {n} ELSE Wider(within[d - 1])
    BY <2>1 DEF IsWithin
  <2>3. \A d \in 0 .. j : longer[d] = within[d]
    OBVIOUS
  <2>4. ASSUME NEW d \in 0 .. (j + 1)
        PROVE  longer[d] = again[d]
    <3>1. CASE d = 0
      BY <2>2, <3>1
    <3>2. CASE d # 0
      <4>1. d - 1 \in 0 .. j
        BY <3>2
      <4>2. longer[d - 1] = within[d - 1]
        BY <2>3, <4>1
      <4>3. again[d] = Wider(within[d - 1])
        BY <3>2, <4>2
      <4>4. CASE d = j + 1
        BY <4>3, <4>4
      <4>5. CASE d # j + 1
        BY <2>2, <3>2, <4>3, <4>5
      <4> QED
        BY <4>4, <4>5
    <3> QED
      BY <3>1, <3>2
  <2>5. longer = again
    BY <2>4
  <2>6. IsWithin(longer, n, j + 1)
    BY <2>5 DEF IsWithin
  <2> QED
    BY <2>6
<1>3. Nat \subseteq A
  BY <1>1, <1>2, SetInduction
<1> QED
  BY <1>3

\* A set that links do not lead out of holds what can be reached from it.
LEMMA ReachableStaysIn ==
  ASSUME NEW S, NEW n \in S, \A m \in S : Linked(m) \subseteq S
  PROVE  Reachable(n) \subseteq S
<1> DEFINE depth  == MaxCalls + 1
           within == CHOOSE within : IsWithin(within, n, depth)
<1>1. depth \in Nat
  BY EntryTreeAssumption
<1>2. IsWithin(within, n, depth)
  BY <1>1, WithinExists
<1>3. Reachable(n) = within[depth]
  BY DEF Reachable, IsWithin, Wider
<1> HIDE DEF within, depth
<1>4. \A d \in 0 .. depth :
        within[d] = IF d = 0 THEN {n} ELSE Wider(within[d - 1])
  BY <1>2 DEF IsWithin
<1> DEFINE A == {d \in Nat : d <= depth => within[d] \subseteq S}
<1>5. 0 \in A
  BY <1>1, <1>4
<1>6. ASSUME NEW d \in Nat, d \in A
      PROVE  d + 1 \in A
  <2> SUFFICES ASSUME d + 1 <= depth
               PROVE  within[d + 1] \subseteq S
    OBVIOUS
  <2>1. within[d] \subseteq S
    BY <1>1, <1>6
  <2>2. within[d + 1] = Wider(within[d])
    BY <1>1, <1>4
  <2> QED
    BY <2>1, <2>2 DEF Wider
<1>7. Nat \subseteq A
  BY <1>5, <1>6, SetInduction
<1> QED
  BY <1>1, <1>3, <1>7

-----------------------------------------------------------------------------
(***************************************************************************)
(* The inductive invariant: types, addresses that the calls so far can     *)
(* have taken, and entries that links may lead to.                         *)
(***************************************************************************)

Entry  == [name : Names \cup {NoName}, sibling : Target, child : Target]
Item   == [at : Address, entry : Entry]
Reader == [offset : Address, from : Address, buf : Seq(Entry)]
Call   == [kind : {"none", "child", "sibling", "edit", "read"}, at : Address,
           name : Names \cup {NoName}, mode : {"sibling", "child"}]

Kind(c) == call[c].kind

ShapeInv ==
  /\ entries \in [Address -> Entry]
  /\ counter \in Target
  /\ last \in [Clients -> Address]
  /\ new \in [Clients -> Address]
  /\ pc \in [Clients -> {"idle", "write", "walk", "count", "attach", "link", "place"}]
  /\ call \in [Clients -> Call]
  /\ held \in [Clients -> Item]
  /\ reader \in [Clients -> Reader]
  /\ got \in [Clients -> Seq(Item)]
  /\ quiet \in [Clients -> BOOLEAN]
  /\ inserted \subseteq Address
  /\ calls \in 0 .. MaxCalls

\* What a call may do next depends on its kind; calls with a name have one.
KindInv(c) ==
  /\ pc[c] \in {"write", "count"} => Kind(c) \in {"child", "sibling"}
  /\ pc[c] = "attach" => Kind(c) = "child"
  /\ pc[c] = "place" => Kind(c) = "sibling"
  /\ pc[c] = "walk" => Kind(c) \in {"child", "sibling", "read"}
  /\ pc[c] = "link" => Kind(c) \in {"child", "sibling", "edit"}
  /\ Kind(c) \in {"child", "sibling"} => call[c].name \in Names

\* A buffer that was filled holds as many entries as there is room for.
FilledInv(c) == reader[c].buf # <<>> => Len(reader[c].buf) = BufEntries

\* The call is about to write to its new address, or to count it.
TakesNew(c) ==
  pc[c] \in {"write", "count"} \/ (pc[c] = "link" /\ Kind(c) = "sibling")

\* It has written its new entry.
HasWritten(c) ==
  \/ pc[c] \in {"count", "attach"}
  \/ pc[c] \in {"walk", "link"} /\ Kind(c) = "child"
  \/ pc[c] = "link" /\ Kind(c) = "sibling"

\* A call that has yet to take an address is counted already.
TakenInv(c) ==
  /\ last[c] <= calls + 1
  /\ pc[c] = "walk" /\ Kind(c) = "sibling" => last[c] <= calls
  /\ TakesNew(c) => new[c] <= calls + 1

LinksOf(e) == {e.sibling, e.child} \ {0}

\* Something was written to address m.
Solid(m) == m \in Address /\ entries[m] # Empty

\* The entries that a call has read, or is to write, link to solid ones, but
\* for the link that insert_sibling holds back until it has written.
SolidInv(c) ==
  /\ \A m \in LinksOf(held[c].entry) :
       \/ Solid(m)
       \/ m = new[c] /\ pc[c] = "write" /\ Kind(c) = "sibling"
  /\ \A i \in DOMAIN reader[c].buf :
       \A m \in LinksOf(reader[c].buf[i]) : Solid(m)
  /\ \A i \in DOMAIN got[c] : \A m \in LinksOf(got[c][i].entry) : Solid(m)

\* The new entry is written before it is linked, and what is written back has a
\* link.
OrderInv(c) ==
  /\ HasWritten(c) => Solid(new[c])
  /\ (pc[c] = "link" \/ (pc[c] = "write" /\ Kind(c) = "sibling")) =>
       LinksOf(held[c].entry) # {}

CallInv(c) ==
  KindInv(c) /\ FilledInv(c) /\ TakenInv(c) /\ SolidInv(c) /\ OrderInv(c)

\* The same of what is in the book and of what callers know.
BookInv ==
  /\ counter <= calls + 1
  /\ \A n \in Address : \A m \in LinksOf(entries[n]) : Solid(m)
  /\ \A m \in inserted : Solid(m)

TreeInv == ShapeInv /\ BookInv /\ \A c \in Clients : CallInv(c)

\* The empty entry has no links, and one with a name or a link is not empty.
LEMMA EntryFacts ==
  /\ Empty \in Entry
  /\ LinksOf(Empty) = {}
  /\ \A name \in Names : /\ NewEntry(name) \in Entry
                         /\ NewEntry(name) # Empty
                         /\ LinksOf(NewEntry(name)) = {}
  /\ \A e \in Entry : LinksOf(e) # {} => e # Empty
  /\ \A e \in Entry : LinksOf(e) \subseteq Address
BY EntryTreeAssumption DEF Entry, Empty, NewEntry, LinksOf, Target

\* Addresses are numbers, the root is one, 0 is none.
LEMMA AddressFacts ==
  /\ MaxCalls \in Nat
  /\ Address \subseteq Nat
  /\ Root \in Address
  /\ 0 \notin Address
  /\ \A n \in 1 .. MaxCalls + 1 : n \in Address
  /\ \A n \in Address : n <= MaxCalls + 1
BY EntryTreeAssumption DEF Address, Root

\* Callers know entries that were written, apart from the root.
LEMMA KnownIsSolid ==
  ASSUME TreeInv
  PROVE  Known \subseteq Address /\ \A m \in Known \ {Root} : Solid(m)
<1> DEFINE S == {Root} \cup {m \in Address : Solid(m)}
<1>1. \A m \in S : Linked(m) \subseteq S
  <2>1. \A m \in Address : Linked(m) = LinksOf(entries[m])
    BY DEF Linked, LinksOf
  <2>2. S \subseteq Address
    BY AddressFacts
  <2> QED
    BY <2>1, <2>2 DEF TreeInv, BookInv, Solid
<1>2. Reachable(Root) \subseteq S
  BY <1>1, ReachableStaysIn
<1> QED
  BY <1>2, AddressFacts DEF Known, TreeInv, BookInv, ShapeInv

\* The buffer of a reader holds the entry at its offset, and entries like those
\* of the book.
LEMMA BufferedFacts ==
  ASSUME TreeInv, NEW c \in Clients
  PROVE  LET r == Buffered(reader[c]) IN
           /\ r \in Reader
           /\ r.offset = reader[c].offset
           /\ Len(r.buf) = BufEntries
           /\ r.offset - r.from + 1 \in 1 .. BufEntries
           /\ r.offset - r.from + 1 \in DOMAIN r.buf
           /\ EntryAt(r) \in Entry
           /\ \A i \in DOMAIN r.buf : \A m \in LinksOf(r.buf[i]) : Solid(m)
<1> DEFINE r    == reader[c]
           fill == [i \in 1 .. BufEntries |-> FromBook(r.offset + i - 1)]
<1>1. /\ r \in Reader /\ r.offset \in Nat /\ r.offset \in Address
      /\ r.from \in Nat /\ BufEntries \in Nat /\ BufEntries > 0
      /\ r.buf \in Seq(Entry)
  <2>1. r \in Reader
    BY DEF TreeInv, ShapeInv
  <2> HIDE DEF r
  <2>2. r.offset \in Address /\ r.from \in Address /\ r.buf \in Seq(Entry)
    BY <2>1 DEF Reader
  <2>3. BufEntries \in Nat /\ BufEntries > 0
    BY EntryTreeAssumption
  <2>4. r.offset \in Nat /\ r.from \in Nat
    BY <2>2, AddressFacts
  <2> QED
    BY <2>1, <2>2, <2>3, <2>4
<1>2. CASE Outside(r)
  <2>1. Buffered(r) = [offset |-> r.offset, from |-> r.offset, buf |-> fill]
    BY <1>2 DEF Buffered
  <2>2. \A n : FromBook(n) \in Entry /\ \A m \in LinksOf(FromBook(n)) : Solid(m)
    BY EntryFacts DEF FromBook, TreeInv, ShapeInv, BookInv
  <2>3. fill \in Seq(Entry) /\ Len(fill) = BufEntries /\ DOMAIN fill = 1 .. BufEntries
    BY <1>1, <2>2
  <2>4. \A i \in DOMAIN fill : fill[i] \in Entry /\ \A m \in LinksOf(fill[i]) : Solid(m)
    BY <2>2
  <2>5. r.offset - r.offset + 1 = 1 /\ 1 \in 1 .. BufEntries
    BY <1>1
  <2> HIDE DEF fill
  <2> QED
    BY <1>1, <2>1, <2>3, <2>4, <2>5 DEF EntryAt, Reader
<1>3. CASE ~ Outside(r)
  <2>1. Buffered(r) = r
    BY <1>3 DEF Buffered
  <2>2. r.buf # <<>> /\ r.offset <= r.from + BufEntries - 1 /\ r.from <= r.offset
    BY <1>1, <1>3 DEF Outside
  <2>3. Len(r.buf) = BufEntries /\ DOMAIN r.buf = 1 .. BufEntries
    BY <1>1, <2>2, LenProperties DEF TreeInv, CallInv, FilledInv
  <2>4. r.offset - r.from + 1 \in 1 .. BufEntries
    BY <1>1, <2>2
  <2>5. r.buf[r.offset - r.from + 1] \in Entry
    BY <1>1, <2>3, <2>4, ElementOfSeq
  <2> QED
    BY <1>1, <2>1, <2>3, <2>4, <2>5 DEF EntryAt, TreeInv, CallInv, SolidInv
<1> QED
  BY <1>2, <1>3

\* Nothing has happened yet.
LEMMA TreeInitInv == Init => TreeInv
<1> SUFFICES ASSUME Init PROVE TreeInv
  OBVIOUS
<1>1. ShapeInv
  <2>1. Nobody \in Item /\ Idle \in Call /\ Closed \in Reader
    BY AddressFacts, EntryFacts DEF Nobody, Item, Idle, Call, Closed, Reader
  <2> QED
    BY <2>1, AddressFacts, EntryFacts DEF Init, ShapeInv, Target
<1>2. BookInv
  <2>1. \A n \in Address : LinksOf(entries[n]) = {}
    BY EntryFacts DEF Init
  <2> QED
    BY <2>1 DEF BookInv, Init
<1>3. ASSUME NEW c \in Clients
      PROVE  CallInv(c)
  <2>1. /\ pc[c] = "idle" /\ Kind(c) = "none" /\ last[c] = 1
        /\ reader[c].buf = <<>> /\ got[c] = <<>> /\ held[c].entry = Empty
        /\ calls = 0
    BY DEF Init, Kind, Idle, Closed, Nobody, Root
  <2>2. KindInv(c) /\ FilledInv(c) /\ OrderInv(c)
    BY <2>1 DEF KindInv, FilledInv, OrderInv, HasWritten
  <2>3. TakenInv(c)
    BY <2>1 DEF TakenInv, TakesNew
  <2>4. SolidInv(c)
    BY <2>1, EntryFacts DEF SolidInv
  <2> QED
    BY <2>2, <2>3, <2>4 DEF CallInv
<1> QED
  BY <1>1, <1>2, <1>3 DEF TreeInv

\* All that a step of c may do to the others.
OthersKept(c) ==
  /\ \A d \in Clients : d # c =>
       /\ pc'[d] = pc[d] /\ call'[d] = call[d] /\ new'[d] = new[d]
       /\ last'[d] = last[d] /\ held'[d] = held[d]
       /\ reader'[d] = reader[d] /\ got'[d] = got[d]
  /\ calls' \in {calls, calls + 1}
  /\ \A m : Solid(m) => Solid(m)'

\* A step of c has to keep the invariant of c and of the book.
LEMMA StepOf ==
  ASSUME TreeInv, NEW c \in Clients, OthersKept(c),
         ShapeInv', BookInv', CallInv(c)'
  PROVE  TreeInv'
<1> SUFFICES ASSUME NEW d \in Clients, d # c
             PROVE  CallInv(d)'
  BY DEF TreeInv
<1>1. /\ pc'[d] = pc[d] /\ call'[d] = call[d] /\ new'[d] = new[d]
      /\ last'[d] = last[d] /\ held'[d] = held[d]
      /\ reader'[d] = reader[d] /\ got'[d] = got[d]
      /\ \A m : Solid(m) => Solid(m)'
      /\ Kind(d)' = Kind(d)
  BY DEF OthersKept, Kind
<1>2. /\ calls \in Nat /\ calls' \in Nat /\ calls <= calls'
      /\ last[d] \in Nat /\ new[d] \in Nat
  <2>1. calls \in 0 .. MaxCalls /\ last[d] \in Address /\ new[d] \in Address
    BY DEF TreeInv, ShapeInv
  <2>2. calls \in Nat
    BY <2>1
  <2>4. last[d] \in Nat
    BY <2>1, AddressFacts
  <2>5. new[d] \in Nat
    BY <2>1, AddressFacts
  <2>3. calls' = calls \/ calls' = calls + 1
    BY DEF OthersKept
  <2> QED
    BY <2>2, <2>3, <2>4, <2>5
<1>3. CallInv(d)
  BY DEF TreeInv
<1>4. KindInv(d)' /\ FilledInv(d)'
  BY <1>1, <1>3 DEF CallInv, KindInv, FilledInv
<1>5. TakenInv(d)'
  BY <1>1, <1>2, <1>3 DEF CallInv, TakenInv, TakesNew
<1>6. SolidInv(d)'
  BY <1>1, <1>3 DEF CallInv, SolidInv
<1>7. OrderInv(d)'
  BY <1>1, <1>3 DEF CallInv, OrderInv, HasWritten
<1> QED
  BY <1>4, <1>5, <1>6, <1>7 DEF CallInv

\* What was written stays written when the book does not change.
LEMMA BookKept ==
  ASSUME TreeInv, UNCHANGED <<entries, counter, inserted>>,
         calls' \in {calls, calls + 1}
  PROVE  BookInv' /\ \A m : Solid(m)' <=> Solid(m)
<1>1. \A m : Solid(m)' <=> Solid(m)
  BY DEF Solid
<1>2. counter' <= calls' + 1
  <2>1. counter \in Nat /\ calls \in Nat /\ counter <= calls + 1
    BY AddressFacts DEF TreeInv, ShapeInv, BookInv, Target
  <2>2. counter' = counter /\ (calls' = calls \/ calls' = calls + 1)
    OBVIOUS
  <2>3. CASE calls' = calls
    BY <2>1, <2>2, <2>3
  <2>4. CASE calls' = calls + 1
    BY <2>1, <2>2, <2>4
  <2> QED
    BY <2>2, <2>3, <2>4
<1>3. \A n \in Address : \A m \in LinksOf(entries'[n]) : Solid(m)'
  BY <1>1 DEF TreeInv, BookInv
<1>4. \A m \in inserted' : Solid(m)'
  BY <1>1 DEF TreeInv, BookInv
<1> QED
  BY <1>1, <1>2, <1>3, <1>4 DEF BookInv, LinksOf

\* A reader that is made has read nothing.
LEMMA OpenReaderFacts ==
  ASSUME ShapeInv, NEW c \in Clients, NEW n \in Address, OpenReader(c, n)
  PROVE  /\ reader' \in [Clients -> Reader] /\ got' \in [Clients -> Seq(Item)]
         /\ reader'[c].buf = <<>> /\ reader'[c].offset = n /\ got'[c] = <<>>
         /\ \A d \in Clients : d # c => /\ reader'[d] = reader[d]
                                        /\ got'[d] = got[d]
<1> DEFINE opened == [offset |-> n, from |-> Root, buf |-> <<>>]
<1>1. [Closed EXCEPT !.offset = n] = opened
  BY DEF Closed
<1>2. opened \in Reader /\ opened.buf = <<>> /\ opened.offset = n
  BY AddressFacts DEF Reader
<1> HIDE DEF opened
<1>3. /\ reader' = [reader EXCEPT ![c] = opened]
      /\ got' = [got EXCEPT ![c] = <<>>]
  BY <1>1 DEF OpenReader
<1>4. <<>> \in Seq(Item)
  BY EmptySeq
<1>5. reader \in [Clients -> Reader] /\ got \in [Clients -> Seq(Item)]
  BY DEF ShapeInv
<1> QED
  BY <1>2, <1>3, <1>4, <1>5

\* A call that begins is counted.
LEMMA BeginFacts ==
  ASSUME TreeInv, NEW c \in Clients, NEW kind, Begin(c, kind)
  PROVE  /\ pc[c] = "idle" /\ UNCHANGED <<entries, counter, inserted>>
         /\ calls \in Nat /\ calls' = calls + 1 /\ calls' \in 0 .. MaxCalls
         /\ BookInv' /\ \A m : Solid(m)' <=> Solid(m)
         /\ CallInv(c) /\ last[c] \in Nat /\ last[c] <= calls + 1
<1>1. /\ pc[c] = "idle" /\ UNCHANGED <<entries, counter, inserted>>
      /\ calls \in Nat /\ calls' = calls + 1 /\ calls' \in 0 .. MaxCalls
  BY AddressFacts DEF Begin, bookVars, TreeInv, ShapeInv
<1>2. CallInv(c) /\ last[c] \in Nat /\ last[c] <= calls + 1
  BY AddressFacts DEF TreeInv, ShapeInv, CallInv, TakenInv
<1> QED
  BY <1>1, <1>2, BookKept

\* insert_child begins.
LEMMA InsertChildKeeps ==
  ASSUME TreeInv, NEW c \in Clients, NEW parent \in Known, NEW name \in Names,
         InsertChild(c, parent, name)
  PROVE  TreeInv'
<1> DEFINE this == [Idle EXCEPT !.kind = "child", !.name = name]
           item == [at |-> parent, entry |-> entries[parent]]
           next == last[c] + 1
<1>1. /\ call' = [call EXCEPT ![c] = this]
      /\ held' = [held EXCEPT ![c] = item]
      /\ new' = [new EXCEPT ![c] = next]
      /\ last' = [last EXCEPT ![c] = next]
      /\ pc' = [pc EXCEPT ![c] = "write"]
      /\ UNCHANGED <<reader, got, quiet>>
  BY DEF InsertChild, walkVars
<1>2. /\ UNCHANGED <<entries, counter, inserted>>
      /\ calls \in Nat /\ calls' = calls + 1 /\ calls' \in 0 .. MaxCalls
      /\ BookInv' /\ \A m : Solid(m)' <=> Solid(m)
      /\ CallInv(c) /\ last[c] \in Nat /\ last[c] <= calls + 1
  BY BeginFacts DEF InsertChild
<1>3. next <= calls' + 1 /\ next \in Address /\ next \in Nat
  BY <1>2, AddressFacts
<1>4. this \in Call /\ this.kind = "child" /\ this.name = name
  BY AddressFacts DEF Idle, Call
<1>5. item \in Item /\ item.entry = entries[parent] /\ parent \in Address
  BY KnownIsSolid DEF Item, TreeInv, ShapeInv
<1> HIDE DEF this, item, next
<1>6. ShapeInv'
  BY <1>1, <1>2, <1>3, <1>4, <1>5 DEF TreeInv, ShapeInv
<1>7. OthersKept(c)
  BY <1>1, <1>2 DEF OthersKept, TreeInv, ShapeInv
<1>8. /\ pc'[c] = "write" /\ Kind(c)' = "child" /\ call'[c] = this
      /\ held'[c] = item /\ new'[c] = next /\ last'[c] = next
      /\ reader'[c] = reader[c] /\ got'[c] = got[c]
  BY <1>1, <1>4 DEF TreeInv, ShapeInv, Kind
<1>9. KindInv(c)' /\ FilledInv(c)' /\ OrderInv(c)'
  BY <1>2, <1>4, <1>8 DEF CallInv, KindInv, FilledInv, OrderInv, HasWritten
<1>10. TakenInv(c)'
  BY <1>3, <1>8 DEF TakenInv, TakesNew
<1>11. SolidInv(c)'
  BY <1>2, <1>5, <1>8 DEF TreeInv, BookInv, CallInv, SolidInv
<1>12. CallInv(c)'
  BY <1>9, <1>10, <1>11 DEF CallInv
<1> QED
  BY <1>2, <1>6, <1>7, <1>12, StepOf

\* A call begins that makes a reader: insert_sibling, or one that only reads.
LEMMA BeginWalkKeeps ==
  ASSUME TreeInv, NEW c \in Clients, NEW n \in Known, NEW kind, NEW this \in Call,
         Begin(c, kind), this.kind \in {"sibling", "read"},
         this.kind = "sibling" => this.name \in Names,
         call' = [call EXCEPT ![c] = this], OpenReader(c, n),
         pc' = [pc EXCEPT ![c] = "walk"],
         UNCHANGED <<last, new, held>>, quiet' \in [Clients -> BOOLEAN]
  PROVE  TreeInv'
<1>1. /\ UNCHANGED <<entries, counter, inserted>>
      /\ calls \in Nat /\ calls' = calls + 1 /\ calls' \in 0 .. MaxCalls
      /\ BookInv' /\ \A m : Solid(m)' <=> Solid(m)
      /\ pc[c] = "idle"
      /\ CallInv(c) /\ last[c] \in Nat /\ last[c] <= calls + 1
  BY BeginFacts
<1>2. /\ reader' \in [Clients -> Reader] /\ got' \in [Clients -> Seq(Item)]
      /\ reader'[c].buf = <<>> /\ got'[c] = <<>>
      /\ \A d \in Clients : d # c => /\ reader'[d] = reader[d]
                                     /\ got'[d] = got[d]
  BY KnownIsSolid, OpenReaderFacts DEF TreeInv
<1>3. ShapeInv'
  BY <1>1, <1>2 DEF TreeInv, ShapeInv
<1>4. OthersKept(c)
  BY <1>1, <1>2 DEF OthersKept, TreeInv, ShapeInv
<1>5. pc'[c] = "walk" /\ Kind(c)' = this.kind /\ call'[c] = this
  BY DEF TreeInv, ShapeInv, Kind
<1>6. KindInv(c)' /\ FilledInv(c)' /\ OrderInv(c)'
  BY <1>2, <1>5 DEF KindInv, FilledInv, OrderInv, HasWritten
<1>7. TakenInv(c)'
  BY <1>1, <1>5 DEF TakenInv, TakesNew
<1>8. SolidInv(c)'
  BY <1>1, <1>2 DEF CallInv, SolidInv
<1>9. CallInv(c)'
  BY <1>6, <1>7, <1>8 DEF CallInv
<1> QED
  BY <1>1, <1>3, <1>4, <1>9, StepOf

\* insert_sibling begins.
LEMMA InsertSiblingKeeps ==
  ASSUME TreeInv, NEW c \in Clients, NEW n \in Known, NEW name \in Names,
         InsertSibling(c, n, name)
  PROVE  TreeInv'
<1> DEFINE this == [Idle EXCEPT !.kind = "sibling", !.at = n, !.name = name]
<1>1. this \in Call /\ this.kind = "sibling" /\ this.name = name
  BY KnownIsSolid DEF Idle, Call
<1>2. /\ Begin(c, "sibling") /\ call' = [call EXCEPT ![c] = this]
      /\ OpenReader(c, n) /\ pc' = [pc EXCEPT ![c] = "walk"]
      /\ UNCHANGED <<last, new, held>> /\ quiet' \in [Clients -> BOOLEAN]
  BY DEF InsertSibling, TreeInv, ShapeInv
<1> HIDE DEF this
<1> QED
  BY <1>1, <1>2, BeginWalkKeeps

\* A client makes a reader.
LEMMA ReadKeeps ==
  ASSUME TreeInv, NEW c \in Clients, NEW n \in Known,
         NEW mode \in {"sibling", "child"}, Read(c, n, mode)
  PROVE  TreeInv'
<1> DEFINE this == [Idle EXCEPT !.kind = "read", !.at = n, !.mode = mode]
<1>1. this \in Call /\ this.kind = "read"
  BY KnownIsSolid DEF Idle, Call
<1>2. /\ Begin(c, "read") /\ call' = [call EXCEPT ![c] = this]
      /\ OpenReader(c, n) /\ pc' = [pc EXCEPT ![c] = "walk"]
      /\ UNCHANGED <<last, new, held>> /\ quiet' \in [Clients -> BOOLEAN]
  BY DEF Read, TreeInv, ShapeInv
<1> HIDE DEF this
<1> QED
  BY <1>1, <1>2, BeginWalkKeeps

\* A client takes an entry to give it another sibling.
LEMMA EditKeeps ==
  ASSUME TreeInv, NEW c \in Clients, NEW n \in Known, NEW m \in Known \ {Root},
         Edit(c, n, m)
  PROVE  TreeInv'
<1> DEFINE this == [Idle EXCEPT !.kind = "edit"]
           e    == [entries[n] EXCEPT !.sibling = m]
           item == [at |-> n, entry |-> e]
<1>1. /\ call' = [call EXCEPT ![c] = this]
      /\ held' = [held EXCEPT ![c] = item]
      /\ pc' = [pc EXCEPT ![c] = "link"]
      /\ UNCHANGED <<last, new, reader, got, quiet>>
  BY DEF Edit, walkVars
<1>2. /\ UNCHANGED <<entries, counter, inserted>>
      /\ calls \in Nat /\ calls' = calls + 1 /\ calls' \in 0 .. MaxCalls
      /\ BookInv' /\ \A x : Solid(x)' <=> Solid(x)
      /\ CallInv(c) /\ last[c] \in Nat /\ last[c] <= calls + 1
  BY BeginFacts DEF Edit
<1>3. this \in Call /\ this.kind = "edit"
  BY AddressFacts DEF Idle, Call
<1>4. /\ n \in Address /\ m \in Address /\ m # 0 /\ Solid(m)
      /\ entries[n] \in Entry
  BY KnownIsSolid, AddressFacts DEF TreeInv, ShapeInv
<1>5. /\ e \in Entry
      /\ m \in LinksOf(e)
      /\ \A x \in LinksOf(e) : x = m \/ x \in LinksOf(entries[n])
  BY <1>4 DEF Entry, LinksOf, Target
<1> HIDE DEF this, e
<1>6. item \in Item /\ item.entry = e
  BY <1>4, <1>5 DEF Item
<1>7. \A x \in LinksOf(e) : Solid(x)
  BY <1>4, <1>5 DEF TreeInv, BookInv
<1> HIDE DEF item
<1>8. ShapeInv'
  BY <1>1, <1>2, <1>3, <1>6 DEF TreeInv, ShapeInv
<1>9. OthersKept(c)
  BY <1>1, <1>2 DEF OthersKept, TreeInv, ShapeInv
<1>10. /\ pc'[c] = "link" /\ Kind(c)' = "edit" /\ call'[c] = this
       /\ held'[c] = item /\ reader'[c] = reader[c] /\ got'[c] = got[c]
  BY <1>1, <1>3 DEF TreeInv, ShapeInv, Kind
<1>11. KindInv(c)' /\ FilledInv(c)' /\ OrderInv(c)'
  BY <1>1, <1>2, <1>3, <1>5, <1>6, <1>10
     DEF CallInv, KindInv, FilledInv, OrderInv, HasWritten
<1>12. TakenInv(c)'
  BY <1>1, <1>2, <1>10 DEF TakenInv, TakesNew
<1>13. SolidInv(c)'
  BY <1>2, <1>6, <1>7, <1>10 DEF CallInv, SolidInv
<1>14. CallInv(c)'
  BY <1>11, <1>12, <1>13 DEF CallInv
<1> QED
  BY <1>2, <1>8, <1>9, <1>14, StepOf

-----------------------------------------------------------------------------
(***************************************************************************)
(* The steps of a reader keep the invariant.                               *)
(***************************************************************************)

\* An entry with another link has that one and the rest of those it had.
LEMMA SiblingFacts ==
  ASSUME NEW item \in Item, NEW n \in Address
  PROVE  /\ LinkedTo(item, n) \in Item
         /\ LinkedTo(item, n).at = item.at
         /\ LinkedTo(item, n).entry.sibling = n
         /\ n \in LinksOf(LinkedTo(item, n).entry)
         /\ LinksOf(LinkedTo(item, n).entry) \subseteq LinksOf(item.entry) \cup {n}
<1> DEFINE e == item.entry
           s == [name |-> e.name, sibling |-> n, child |-> e.child]
<1>1. e \in Entry /\ item.at \in Address /\ item = [at |-> item.at, entry |-> e]
  BY DEF Item
<1>2. e = [name |-> e.name, sibling |-> e.sibling, child |-> e.child]
  BY <1>1 DEF Entry
<1>3. LinkedTo(item, n) = [at |-> item.at, entry |-> s]
  BY <1>1, <1>2 DEF LinkedTo, Item, Entry
<1>4. s \in Entry /\ s.sibling = n
  BY <1>1 DEF Entry, Target
<1>5. n \in LinksOf(s) /\ LinksOf(s) \subseteq LinksOf(e) \cup {n}
  BY AddressFacts DEF LinksOf
<1> HIDE DEF s
<1> QED
  BY <1>1, <1>3, <1>4, <1>5 DEF Item

\* The same of the link to a child.
LEMMA ChildFacts ==
  ASSUME NEW item \in Item, NEW n \in Address
  PROVE  LET linked == [item EXCEPT !.entry.child = n] IN
           /\ linked \in Item
           /\ linked.at = item.at
           /\ n \in LinksOf(linked.entry)
           /\ LinksOf(linked.entry) \subseteq LinksOf(item.entry) \cup {n}
<1> DEFINE e == item.entry
           h == [name |-> e.name, sibling |-> e.sibling, child |-> n]
<1>1. e \in Entry /\ item.at \in Address /\ item = [at |-> item.at, entry |-> e]
  BY DEF Item
<1>2. e = [name |-> e.name, sibling |-> e.sibling, child |-> e.child]
  BY <1>1 DEF Entry
<1>3. [item EXCEPT !.entry.child = n] = [at |-> item.at, entry |-> h]
  BY <1>1, <1>2 DEF Item, Entry
<1>4. h \in Entry
  BY <1>1 DEF Entry, Target
<1>5. n \in LinksOf(h) /\ LinksOf(h) \subseteq LinksOf(e) \cup {n}
  BY AddressFacts DEF LinksOf
<1> HIDE DEF h
<1> QED
  BY <1>1, <1>3, <1>4, <1>5 DEF Item

\* The last entry that a reader has returned.
LEMMA LatestFacts ==
  ASSUME TreeInv, NEW c \in Clients, got[c] # <<>>
  PROVE  /\ Latest(c) \in Item
         /\ \A m \in LinksOf(Latest(c).entry) : Solid(m)
<1>1. got[c] \in Seq(Item)
  BY DEF TreeInv, ShapeInv
<1>2. Len(got[c]) \in DOMAIN got[c] /\ Latest(c) \in Item
  BY <1>1, EmptySeq, LenProperties, ElementOfSeq DEF Latest
<1> QED
  BY <1>2 DEF TreeInv, CallInv, SolidInv, Latest

\* The reader at the end of its walk.
LEMMA NoMoreFacts ==
  ASSUME TreeInv, NEW c \in Clients, NEW kind, NEW next, NoMore(c, kind, next)
  PROVE  /\ pc[c] = "walk" /\ Kind(c) = kind /\ CallInv(c)
         /\ pc' = [pc EXCEPT ![c] = next]
         /\ UNCHANGED <<entries, counter, call, got, last, quiet, inserted, calls>>
         /\ BookInv' /\ \A m : Solid(m)' <=> Solid(m)
         /\ reader' \in [Clients -> Reader]
         /\ \A d \in Clients : d # c => reader'[d] = reader[d]
         /\ reader'[c].buf # <<>> => Len(reader'[c].buf) = BufEntries
         /\ \A i \in DOMAIN reader'[c].buf :
              \A m \in LinksOf(reader'[c].buf[i]) : Solid(m)
<1> DEFINE r == Buffered(reader[c])
           s == IF kind = "read" THEN r ELSE Closed
<1>1. /\ pc[c] = "walk" /\ Kind(c) = kind /\ CallInv(c)
      /\ pc' = [pc EXCEPT ![c] = next]
      /\ UNCHANGED <<entries, counter, call, got, last, quiet, inserted, calls>>
      /\ reader' = [reader EXCEPT ![c] = s]
  BY DEF NoMore, bookVars, historyVars, TreeInv, Kind
<1>2. /\ r \in Reader /\ Len(r.buf) = BufEntries
      /\ \A i \in DOMAIN r.buf : \A m \in LinksOf(r.buf[i]) : Solid(m)
  BY BufferedFacts
<1>3. Closed \in Reader /\ Closed.buf = <<>>
  BY AddressFacts DEF Closed, Reader
<1>4. /\ s \in Reader /\ (s.buf # <<>> => Len(s.buf) = BufEntries)
      /\ \A i \in DOMAIN s.buf : \A m \in LinksOf(s.buf[i]) : Solid(m)
  <2> HIDE DEF r
  <2>1. CASE kind = "read"
    BY <1>2, <2>1
  <2>2. CASE kind # "read"
    BY <1>3, <2>2
  <2> QED
    BY <2>1, <2>2
<1> HIDE DEF s
<1>5. reader'[c] = s /\ reader' \in [Clients -> Reader]
      /\ \A d \in Clients : d # c => reader'[d] = reader[d]
  BY <1>1, <1>4 DEF TreeInv, ShapeInv
<1>6. BookInv' /\ \A m : Solid(m)' <=> Solid(m)
  <2>1. UNCHANGED <<entries, counter, inserted>> /\ calls' \in {calls, calls + 1}
    BY <1>1
  <2> QED
    BY <2>1, BookKept
<1> QED
  BY <1>1, <1>4, <1>5, <1>6

\* insert_child has read all the children.
LEMMA LastChildKeeps ==
  ASSUME TreeInv, NEW c \in Clients, LastChild(c)
  PROVE  TreeInv'
<1> DEFINE item == IF got[c] = <<>>
                     THEN [held[c] EXCEPT !.entry.child = new[c]]
                     ELSE LinkedTo(Latest(c), new[c])
<1>1. NoMore(c, "child", "link") /\ UNCHANGED new
  BY DEF LastChild
<1>2. /\ pc[c] = "walk" /\ Kind(c) = "child" /\ CallInv(c)
      /\ pc' = [pc EXCEPT ![c] = "link"]
      /\ UNCHANGED <<entries, counter, call, got, last, quiet, inserted, calls>>
      /\ BookInv' /\ \A m : Solid(m)' <=> Solid(m)
      /\ reader' \in [Clients -> Reader]
      /\ \A d \in Clients : d # c => reader'[d] = reader[d]
      /\ reader'[c].buf # <<>> => Len(reader'[c].buf) = BufEntries
      /\ \A i \in DOMAIN reader'[c].buf :
           \A m \in LinksOf(reader'[c].buf[i]) : Solid(m)
  BY <1>1, NoMoreFacts
<1>3. held' = [held EXCEPT ![c] = item]
  BY DEF LastChild
<1>4. new[c] \in Address /\ held[c] \in Item /\ Solid(new[c])
  BY <1>2 DEF TreeInv, ShapeInv, CallInv, OrderInv, HasWritten
<1>5. /\ item \in Item /\ new[c] \in LinksOf(item.entry)
      /\ \A m \in LinksOf(item.entry) : Solid(m)
  <2>1. CASE got[c] = <<>>
    <3>1. \A m \in LinksOf(held[c].entry) : Solid(m)
      BY <1>2 DEF CallInv, SolidInv
    <3>2. item = [held[c] EXCEPT !.entry.child = new[c]]
      BY <2>1
    <3> HIDE DEF item
    <3> QED
      BY <1>4, <3>1, <3>2, ChildFacts
  <2>2. CASE got[c] # <<>>
    <3>1. PICK latest \in Item : latest = Latest(c)
      BY <2>2, LatestFacts
    <3>2. \A m \in LinksOf(latest.entry) : Solid(m)
      BY <2>2, <3>1, LatestFacts
    <3>3. item = LinkedTo(latest, new[c])
      BY <2>2, <3>1
    <3> HIDE DEF item
    <3> QED
      BY <1>4, <3>2, <3>3, SiblingFacts, SMTT(40)
  <2> QED
    BY <2>1, <2>2
<1> HIDE DEF item
<1>6. ShapeInv'
  BY <1>1, <1>2, <1>3, <1>5 DEF TreeInv, ShapeInv
<1>7. OthersKept(c)
  BY <1>1, <1>2, <1>3 DEF OthersKept, TreeInv, ShapeInv
<1>8. /\ pc'[c] = "link" /\ Kind(c)' = "child" /\ call'[c] = call[c]
      /\ held'[c] = item /\ new'[c] = new[c] /\ last'[c] = last[c]
      /\ got'[c] = got[c] /\ calls' = calls
  BY <1>1, <1>2, <1>3 DEF TreeInv, ShapeInv, Kind
<1>9. KindInv(c)' /\ FilledInv(c)' /\ OrderInv(c)'
  BY <1>2, <1>4, <1>5, <1>8 DEF CallInv, KindInv, FilledInv, OrderInv, HasWritten
<1>10. TakenInv(c)'
  BY <1>2, <1>8 DEF CallInv, TakenInv, TakesNew
<1>11. SolidInv(c)'
  BY <1>2, <1>5, <1>8 DEF CallInv, SolidInv
<1>12. CallInv(c)'
  BY <1>9, <1>10, <1>11 DEF CallInv
<1> QED
  BY <1>2, <1>6, <1>7, <1>12, StepOf

\* insert_sibling has read all the siblings, and takes an address.
LEMMA LastSiblingKeeps ==
  ASSUME TreeInv, NEW c \in Clients, LastSibling(c)
  PROVE  TreeInv'
<1> DEFINE next == last[c] + 1
           item == LinkedTo(Latest(c), next)
<1>1. /\ NoMore(c, "sibling", "write") /\ got[c] # <<>>
      /\ new' = [new EXCEPT ![c] = next]
      /\ held' = [held EXCEPT ![c] = item]
  BY DEF LastSibling
<1>2. /\ pc[c] = "walk" /\ Kind(c) = "sibling" /\ CallInv(c)
      /\ pc' = [pc EXCEPT ![c] = "write"]
      /\ UNCHANGED <<entries, counter, call, got, last, quiet, inserted, calls>>
      /\ BookInv' /\ \A m : Solid(m)' <=> Solid(m)
      /\ reader' \in [Clients -> Reader]
      /\ \A d \in Clients : d # c => reader'[d] = reader[d]
      /\ reader'[c].buf # <<>> => Len(reader'[c].buf) = BufEntries
      /\ \A i \in DOMAIN reader'[c].buf :
           \A m \in LinksOf(reader'[c].buf[i]) : Solid(m)
  BY <1>1, NoMoreFacts
<1>3. next \in Address /\ next <= calls + 1
  <2>1. last[c] \in Nat /\ calls \in 0 .. MaxCalls /\ last[c] <= calls
    BY <1>2, AddressFacts DEF TreeInv, ShapeInv, CallInv, TakenInv
  <2>2. next \in 1 .. MaxCalls + 1
    BY <2>1, AddressFacts
  <2> QED
    BY <2>1, <2>2, AddressFacts
<1> HIDE DEF next
<1>4. /\ item \in Item /\ next \in LinksOf(item.entry)
      /\ \A m \in LinksOf(item.entry) : Solid(m) \/ m = next
  <2>1. PICK latest \in Item : latest = Latest(c)
    BY <1>1, LatestFacts
  <2>2. \A m \in LinksOf(latest.entry) : Solid(m)
    BY <1>1, <2>1, LatestFacts
  <2>3. item = LinkedTo(latest, next)
    BY <2>1
  <2> HIDE DEF item
  <2> QED
    BY <1>3, <2>2, <2>3, SiblingFacts
<1> HIDE DEF item
<1>6. ShapeInv'
  BY <1>1, <1>2, <1>3, <1>4 DEF TreeInv, ShapeInv
<1>7. OthersKept(c)
  BY <1>1, <1>2 DEF OthersKept, TreeInv, ShapeInv
<1>8. /\ pc'[c] = "write" /\ Kind(c)' = "sibling" /\ call'[c] = call[c]
      /\ held'[c] = item /\ new'[c] = next /\ last'[c] = last[c]
      /\ got'[c] = got[c] /\ calls' = calls
  BY <1>1, <1>2 DEF TreeInv, ShapeInv, Kind
<1>9. KindInv(c)' /\ FilledInv(c)' /\ OrderInv(c)'
  BY <1>2, <1>4, <1>8 DEF CallInv, KindInv, FilledInv, OrderInv, HasWritten
<1>10. TakenInv(c)'
  BY <1>2, <1>3, <1>8 DEF CallInv, TakenInv, TakesNew
<1>11. SolidInv(c)'
  BY <1>2, <1>4, <1>8 DEF CallInv, SolidInv
<1>12. CallInv(c)'
  BY <1>9, <1>10, <1>11 DEF CallInv
<1> QED
  BY <1>2, <1>6, <1>7, <1>12, StepOf

\* insert_sibling has read nothing.
LEMMA NoSiblingKeeps ==
  ASSUME TreeInv, NEW c \in Clients, NoSibling(c)
  PROVE  TreeInv'
<1>1. /\ NoMore(c, "sibling", "place") /\ UNCHANGED held
      /\ new' = [new EXCEPT ![c] = call[c].at]
  BY DEF NoSibling
<1>2. /\ pc[c] = "walk" /\ Kind(c) = "sibling" /\ CallInv(c)
      /\ pc' = [pc EXCEPT ![c] = "place"]
      /\ UNCHANGED <<entries, counter, call, got, last, quiet, inserted, calls>>
      /\ BookInv' /\ \A m : Solid(m)' <=> Solid(m)
      /\ reader' \in [Clients -> Reader]
      /\ \A d \in Clients : d # c => reader'[d] = reader[d]
      /\ reader'[c].buf # <<>> => Len(reader'[c].buf) = BufEntries
      /\ \A i \in DOMAIN reader'[c].buf :
           \A m \in LinksOf(reader'[c].buf[i]) : Solid(m)
  BY <1>1, NoMoreFacts
<1>3. call[c].at \in Address
  BY DEF TreeInv, ShapeInv, Call
<1>4. ShapeInv'
  BY <1>1, <1>2, <1>3 DEF TreeInv, ShapeInv
<1>5. OthersKept(c)
  BY <1>1, <1>2 DEF OthersKept, TreeInv, ShapeInv
<1>6. /\ pc'[c] = "place" /\ Kind(c)' = "sibling" /\ call'[c] = call[c]
      /\ held'[c] = held[c] /\ last'[c] = last[c]
      /\ got'[c] = got[c] /\ calls' = calls
  BY <1>1, <1>2 DEF TreeInv, ShapeInv, Kind
<1>7. KindInv(c)' /\ FilledInv(c)' /\ OrderInv(c)'
  BY <1>2, <1>6 DEF CallInv, KindInv, FilledInv, OrderInv, HasWritten
<1>8. TakenInv(c)'
  BY <1>2, <1>6 DEF CallInv, TakenInv, TakesNew
<1>9. SolidInv(c)'
  BY <1>2, <1>6 DEF CallInv, SolidInv
<1>10. CallInv(c)'
  BY <1>7, <1>8, <1>9 DEF CallInv
<1> QED
  BY <1>2, <1>4, <1>5, <1>10, StepOf

\* A client has read to the end.
LEMMA EndOfReadKeeps ==
  ASSUME TreeInv, NEW c \in Clients, EndOfRead(c)
  PROVE  TreeInv'
<1>1. NoMore(c, "read", "idle") /\ UNCHANGED <<new, held>>
  BY DEF EndOfRead
<1>2. /\ pc[c] = "walk" /\ Kind(c) = "read" /\ CallInv(c)
      /\ pc' = [pc EXCEPT ![c] = "idle"]
      /\ UNCHANGED <<entries, counter, call, got, last, quiet, inserted, calls>>
      /\ BookInv' /\ \A m : Solid(m)' <=> Solid(m)
      /\ reader' \in [Clients -> Reader]
      /\ \A d \in Clients : d # c => reader'[d] = reader[d]
      /\ reader'[c].buf # <<>> => Len(reader'[c].buf) = BufEntries
      /\ \A i \in DOMAIN reader'[c].buf :
           \A m \in LinksOf(reader'[c].buf[i]) : Solid(m)
  BY <1>1, NoMoreFacts
<1>4. ShapeInv'
  BY <1>1, <1>2 DEF TreeInv, ShapeInv
<1>5. OthersKept(c)
  BY <1>1, <1>2 DEF OthersKept, TreeInv, ShapeInv
<1>6. /\ pc'[c] = "idle" /\ Kind(c)' = "read" /\ call'[c] = call[c]
      /\ held'[c] = held[c] /\ last'[c] = last[c]
      /\ got'[c] = got[c] /\ calls' = calls
  BY <1>1, <1>2 DEF TreeInv, ShapeInv, Kind
<1>7. KindInv(c)' /\ FilledInv(c)' /\ OrderInv(c)'
  BY <1>2, <1>6 DEF CallInv, KindInv, FilledInv, OrderInv, HasWritten
<1>8. TakenInv(c)'
  BY <1>2, <1>6 DEF CallInv, TakenInv, TakesNew
<1>9. SolidInv(c)'
  BY <1>2, <1>6 DEF CallInv, SolidInv
<1>10. CallInv(c)'
  BY <1>7, <1>8, <1>9 DEF CallInv
<1> QED
  BY <1>2, <1>4, <1>5, <1>10, StepOf

\* A reader returns an entry.
LEMMA StepKeeps ==
  ASSUME TreeInv, NEW c \in Clients, Step(c)
  PROVE  TreeInv'
<1> DEFINE r    == Buffered(reader[c])
           next == NextOffset(c, r)
           item == [at |-> r.offset, entry |-> EntryAt(r)]
           s    == [offset |-> next, from |-> r.from, buf |-> r.buf]
           k    == r.offset - r.from + 1
<1>1. /\ pc[c] = "walk" /\ CallInv(c) /\ next # 0
      /\ UNCHANGED <<entries, counter, last, pc, call, new, held, quiet,
                     inserted, calls>>
      /\ reader' = [reader EXCEPT ![c] = [r EXCEPT !.offset = next]]
      /\ got' = [got EXCEPT ![c] = Append(@, item)]
  BY DEF Step, bookVars, historyVars, TreeInv
<1>2. /\ r \in Reader /\ Len(r.buf) = BufEntries /\ k \in DOMAIN r.buf
      /\ EntryAt(r) \in Entry /\ EntryAt(r) = r.buf[k]
      /\ \A i \in DOMAIN r.buf : \A m \in LinksOf(r.buf[i]) : Solid(m)
  BY BufferedFacts DEF EntryAt
<1> HIDE DEF k
<1>3. next \in LinksOf(EntryAt(r)) /\ next \in Address
  <2>1. next \in LinksOf(EntryAt(r))
    BY <1>1 DEF NextOffset, Successor, LinksOf
  <2> HIDE DEF next
  <2> QED
    BY <1>2, <2>1, EntryFacts
<1> HIDE DEF next
<1>4. /\ r.offset \in Address /\ r.from \in Address /\ r.buf \in Seq(Entry)
      /\ [r EXCEPT !.offset = next] = s
  BY <1>2 DEF Reader
<1>5. s \in Reader /\ s.buf = r.buf /\ s.offset = next
  BY <1>3, <1>4 DEF Reader
<1>6. /\ item \in Item
      /\ \A m \in LinksOf(item.entry) : Solid(m)
  BY <1>2, <1>4 DEF Item
<1> HIDE DEF r, s, item
<1>7. got[c] \in Seq(Item)
  BY DEF TreeInv, ShapeInv
<1>8. /\ Append(got[c], item) \in Seq(Item)
      /\ \A i \in DOMAIN Append(got[c], item) :
           \A m \in LinksOf(Append(got[c], item)[i].entry) : Solid(m)
  <2>1. \A i \in DOMAIN got[c] : \A m \in LinksOf(got[c][i].entry) : Solid(m)
    BY <1>1 DEF CallInv, SolidInv
  <2>2. Append(got[c], item) \in Seq(Item)
    BY <1>6, <1>7, AppendProperties
  <2>3. \A i \in DOMAIN Append(got[c], item) :
          \/ i \in DOMAIN got[c] /\ Append(got[c], item)[i] = got[c][i]
          \/ Append(got[c], item)[i] = item
    BY <1>6, <1>7
  <2> QED
    BY <1>6, <2>1, <2>2, <2>3
<1>9. /\ reader' = [reader EXCEPT ![c] = s]
      /\ got' = [got EXCEPT ![c] = Append(got[c], item)]
      /\ reader'[c] = s /\ got'[c] = Append(got[c], item)
  BY <1>1, <1>4 DEF TreeInv, ShapeInv
<1>10. BookInv' /\ \A m : Solid(m)' <=> Solid(m)
  BY <1>1, BookKept
<1>11. ShapeInv'
  <2>1. reader' \in [Clients -> Reader] /\ got' \in [Clients -> Seq(Item)]
    BY <1>5, <1>8, <1>9 DEF TreeInv, ShapeInv
  <2> QED
    BY <1>1, <2>1 DEF TreeInv, ShapeInv
<1>12. OthersKept(c)
  BY <1>1, <1>9, <1>10 DEF OthersKept, TreeInv, ShapeInv
<1>13. /\ pc'[c] = pc[c] /\ Kind(c)' = Kind(c) /\ call'[c] = call[c]
       /\ held'[c] = held[c] /\ last'[c] = last[c] /\ new'[c] = new[c]
       /\ calls' = calls
  BY <1>1 DEF Kind
<1>14. KindInv(c)' /\ FilledInv(c)' /\ OrderInv(c)'
  BY <1>1, <1>2, <1>5, <1>9, <1>10, <1>13
     DEF CallInv, KindInv, FilledInv, OrderInv, HasWritten
<1>15. TakenInv(c)'
  BY <1>1, <1>13 DEF CallInv, TakenInv, TakesNew
<1>16. SolidInv(c)'
  BY <1>1, <1>2, <1>5, <1>8, <1>9, <1>10, <1>13 DEF CallInv, SolidInv
<1>17. CallInv(c)'
  BY <1>14, <1>15, <1>16 DEF CallInv
<1> QED
  BY <1>10, <1>11, <1>12, <1>17, StepOf

-----------------------------------------------------------------------------
(***************************************************************************)
(* The writes keep the invariant.                                          *)
(***************************************************************************)

\* A write of an entry that is not empty, and whose links lead to entries that
\* are not, leaves every link leading to one.
LEMMA StoreFacts ==
  ASSUME TreeInv, NEW c \in Clients, NEW n \in Address, NEW e \in Entry,
         Store(c, n, e), e # Empty, \A m \in LinksOf(e) : Solid(m)
  PROVE  /\ entries' \in [Address -> Entry] /\ entries'[n] = e
         /\ \A k \in Address : k # n => entries'[k] = entries[k]
         /\ quiet' \in [Clients -> BOOLEAN]
         /\ UNCHANGED <<counter, new, call, got, calls>>
         /\ \A m : Solid(m) => Solid(m)'
         /\ Solid(n)'
         /\ \A k \in Address : \A m \in LinksOf(entries'[k]) : Solid(m)'
<1>1. /\ entries' = [entries EXCEPT ![n] = e]
      /\ quiet' = [d \in Clients |-> FALSE]
      /\ UNCHANGED <<counter, new, call, got, calls>>
  BY DEF Store, historyVars
<1>2. /\ entries' \in [Address -> Entry] /\ entries'[n] = e
      /\ \A k \in Address : k # n => entries'[k] = entries[k]
  BY <1>1 DEF TreeInv, ShapeInv
<1>3. \A m : Solid(m) => Solid(m)'
  BY <1>2 DEF Solid
<1>4. Solid(n)'
  BY <1>2 DEF Solid
<1>5. ASSUME NEW k \in Address, NEW m \in LinksOf(entries'[k])
      PROVE  Solid(m)'
  <2>1. CASE k = n
    BY <1>2, <1>3, <1>5, <2>1
  <2>2. CASE k # n
    BY <1>2, <1>3, <1>5, <2>2 DEF TreeInv, BookInv
  <2> QED
    BY <2>1, <2>2
<1> QED
  BY <1>1, <1>2, <1>3, <1>4, <1>5

\* A step of writing goes on; what it returns was written.
LEMMA GoOnFacts ==
  ASSUME TreeInv, NEW c \in Clients, NEW next, GoOn(c, next), UNCHANGED new,
         \A m : Solid(m) => Solid(m)',
         next = "idle" /\ Kind(c) # "edit" => Solid(new[c])'
  PROVE  /\ pc' = [pc EXCEPT ![c] = next] /\ pc'[c] = next
         /\ inserted' \subseteq Address
         /\ \A m \in inserted' : Solid(m)'
<1>1. /\ pc' = [pc EXCEPT ![c] = next] /\ pc'[c] = next
      /\ \/ inserted' = inserted
         \/ inserted' = inserted \cup {new[c]} /\ Solid(new[c])'
  BY DEF GoOn, TreeInv, ShapeInv, Kind
<1>2. new[c] \in Address /\ inserted \subseteq Address
  BY DEF TreeInv, ShapeInv
<1>3. \A m \in inserted : Solid(m)'
  BY DEF TreeInv, BookInv
<1>4. inserted' \subseteq Address /\ \A m \in inserted' : Solid(m)'
  <2>1. CASE inserted' = inserted
    BY <1>2, <1>3, <2>1
  <2>2. CASE inserted' = inserted \cup {new[c]} /\ Solid(new[c])'
    <3>1. \A m \in inserted' : m \in inserted \/ m = new'[c]
      BY <2>2
    <3> QED
      BY <1>2, <1>3, <2>2, <3>1
  <2> QED
    BY <1>1, <2>1, <2>2
<1> QED
  BY <1>1, <1>4

\* A write that c makes, with the state it leaves c in.
LEMMA StoreKeeps ==
  ASSUME TreeInv, NEW c \in Clients, NEW n \in Address, NEW e \in Entry, NEW next,
         Store(c, n, e), e # Empty, \A m \in LinksOf(e) : Solid(m),
         GoOn(c, next), next \in {"idle", "count", "attach", "link"},
         next = "idle" /\ Kind(c) # "edit" => Solid(new[c])',
         UNCHANGED <<last, reader>>, held' \in [Clients -> Item],
         \A d \in Clients : d # c => held'[d] = held[d],
         KindInv(c)', TakenInv(c)', OrderInv(c)',
         \A m \in LinksOf(held'[c].entry) : Solid(m) \/ m = n
  PROVE  TreeInv'
<1>1. /\ entries' \in [Address -> Entry] /\ entries'[n] = e
      /\ quiet' \in [Clients -> BOOLEAN]
      /\ UNCHANGED <<counter, new, call, got, calls>>
      /\ \A m : Solid(m) => Solid(m)'
      /\ Solid(n)'
      /\ \A k \in Address : \A m \in LinksOf(entries'[k]) : Solid(m)'
  BY StoreFacts
<1>2. /\ pc' = [pc EXCEPT ![c] = next]
      /\ inserted' \subseteq Address
      /\ \A m \in inserted' : Solid(m)'
  BY <1>1, GoOnFacts
<1>3. ShapeInv'
  BY <1>1, <1>2 DEF TreeInv, ShapeInv
<1>4. OthersKept(c)
  BY <1>1, <1>2 DEF OthersKept, TreeInv, ShapeInv
<1>5. BookInv'
  <2>1. \A k \in Address : \A m \in LinksOf(entries[k])' : Solid(m)'
    BY <1>1 DEF LinksOf
  <2> QED
    BY <1>1, <1>2, <2>1 DEF TreeInv, BookInv
<1>6. CallInv(c)
  BY DEF TreeInv
<1>7. FilledInv(c)'
  BY <1>6 DEF CallInv, FilledInv
<1>8. SolidInv(c)'
  <2>1. \A m \in LinksOf(held'[c].entry) : Solid(m)'
    BY <1>1
  <2> QED
    BY <1>1, <1>6, <2>1 DEF CallInv, SolidInv
<1> QED
  BY <1>3, <1>4, <1>5, <1>7, <1>8, StepOf DEF CallInv

\* The new entry is written.
LEMMA WriteEntryKeeps ==
  ASSUME TreeInv, NEW c \in Clients, WriteEntry(c)
  PROVE  TreeInv'
<1> DEFINE e    == NewEntry(call[c].name)
           next == IF Kind(c) = "child" THEN "count" ELSE "link"
<1>1. /\ pc[c] = "write" /\ CallInv(c) /\ Store(c, new[c], e) /\ GoOn(c, next)
      /\ UNCHANGED <<last, held, reader>>
  BY DEF WriteEntry, TreeInv, Kind
<1>2. Kind(c) \in {"child", "sibling"} /\ call[c].name \in Names
  BY <1>1 DEF CallInv, KindInv
<1>3. e \in Entry /\ e # Empty /\ LinksOf(e) = {}
  BY <1>2, EntryFacts
<1>4. next \in {"count", "link"} /\ (next = "link" <=> Kind(c) = "sibling")
  BY <1>2
<1> HIDE DEF e, next
<1>5. new[c] \in Address /\ held \in [Clients -> Item]
  BY DEF TreeInv, ShapeInv
<1>6. /\ UNCHANGED <<counter, new, call, got, calls>>
      /\ Solid(new[c])' /\ \A m : Solid(m) => Solid(m)'
  BY <1>1, <1>3, <1>5, StoreFacts
<1>7. pc'[c] = next
  BY <1>1 DEF GoOn, TreeInv, ShapeInv
<1>8. KindInv(c)' /\ TakenInv(c)'
  BY <1>1, <1>2, <1>4, <1>6, <1>7
     DEF CallInv, KindInv, TakenInv, TakesNew, Kind
<1>9. OrderInv(c)'
  BY <1>1, <1>2, <1>4, <1>6, <1>7 DEF CallInv, OrderInv, HasWritten, Kind
<1>10. \A m \in LinksOf(held'[c].entry) : Solid(m) \/ m = new[c]
  BY <1>1 DEF CallInv, SolidInv
<1> QED
  BY <1>1, <1>3, <1>4, <1>5, <1>6, <1>8, <1>9, <1>10, StoreKeeps

\* The entry with the new link is written back.
LEMMA LinkKeeps ==
  ASSUME TreeInv, NEW c \in Clients, Link(c)
  PROVE  TreeInv'
<1> DEFINE n    == held[c].at
           e    == held[c].entry
           next == IF Kind(c) = "sibling" THEN "count" ELSE "idle"
<1>1. /\ pc[c] = "link" /\ CallInv(c) /\ Store(c, n, e) /\ GoOn(c, next)
      /\ held' = [held EXCEPT ![c] = Nobody] /\ UNCHANGED <<last, reader>>
  BY DEF Link, TreeInv, Kind
<1>2. Kind(c) \in {"child", "sibling", "edit"}
  BY <1>1 DEF CallInv, KindInv
<1>3. n \in Address /\ e \in Entry /\ Nobody \in Item
  BY AddressFacts, EntryFacts DEF TreeInv, ShapeInv, Item, Nobody
<1>4. e # Empty /\ \A m \in LinksOf(e) : Solid(m)
  BY <1>1, <1>3, EntryFacts DEF CallInv, SolidInv, OrderInv
<1>5. next \in {"count", "idle"} /\ (next = "count" <=> Kind(c) = "sibling")
  OBVIOUS
<1>6. Kind(c) # "edit" => Solid(new[c])
  BY <1>1, <1>2 DEF CallInv, OrderInv, HasWritten
<1> HIDE DEF n, e, next
<1>7. /\ UNCHANGED <<counter, new, call, got, calls>>
      /\ \A m : Solid(m) => Solid(m)'
  BY <1>1, <1>3, <1>4, StoreFacts
<1>8. Kind(c) # "edit" => Solid(new[c])'
  BY <1>6, <1>7 DEF Solid
<1>9. pc'[c] = next
  BY <1>1 DEF GoOn, TreeInv, ShapeInv
<1>10. KindInv(c)' /\ TakenInv(c)'
  BY <1>1, <1>2, <1>5, <1>7, <1>9
     DEF CallInv, KindInv, TakenInv, TakesNew, Kind
<1>11. OrderInv(c)'
  BY <1>5, <1>7, <1>8, <1>9 DEF OrderInv, HasWritten, Kind
<1>12. /\ held' \in [Clients -> Item]
       /\ \A d \in Clients : d # c => held'[d] = held[d]
       /\ held'[c].entry = Empty
  BY <1>1, <1>3 DEF TreeInv, ShapeInv, Nobody
<1>13. \A m \in LinksOf(held'[c].entry) : Solid(m) \/ m = n
  BY <1>12, EntryFacts
<1> QED
  BY <1>1, <1>3, <1>4, <1>5, <1>8, <1>10, <1>11, <1>12, <1>13, StoreKeeps

\* insert_sibling writes the entry to the offset it was given.
LEMMA PlaceKeeps ==
  ASSUME TreeInv, NEW c \in Clients, Place(c)
  PROVE  TreeInv'
<1> DEFINE e == NewEntry(call[c].name)
<1>1. /\ pc[c] = "place" /\ CallInv(c) /\ Store(c, new[c], e) /\ GoOn(c, "idle")
      /\ UNCHANGED <<last, held, reader>>
  BY DEF Place, TreeInv
<1>2. Kind(c) = "sibling" /\ call[c].name \in Names
  BY <1>1 DEF CallInv, KindInv
<1>3. e \in Entry /\ e # Empty /\ LinksOf(e) = {}
  BY <1>2, EntryFacts
<1> HIDE DEF e
<1>4. new[c] \in Address /\ held \in [Clients -> Item]
  BY DEF TreeInv, ShapeInv
<1>5. /\ UNCHANGED <<counter, new, call, got, calls>>
      /\ Solid(new[c])' /\ \A m : Solid(m) => Solid(m)'
  BY <1>1, <1>3, <1>4, StoreFacts
<1>6. pc'[c] = "idle"
  BY <1>1 DEF GoOn, TreeInv, ShapeInv
<1>7. KindInv(c)' /\ TakenInv(c)' /\ OrderInv(c)'
  BY <1>1, <1>2, <1>5, <1>6
     DEF CallInv, KindInv, TakenInv, TakesNew, OrderInv, HasWritten, Kind
<1>8. \A m \in LinksOf(held'[c].entry) : Solid(m) \/ m = new[c]
  BY <1>1 DEF CallInv, SolidInv
<1> QED
  BY <1>1, <1>3, <1>4, <1>5, <1>7, <1>8, StoreKeeps

\* The new entry is counted.
LEMMA CountKeeps ==
  ASSUME TreeInv, NEW c \in Clients, Count(c)
  PROVE  TreeInv'
<1> DEFINE next == IF Kind(c) = "child" THEN "attach" ELSE "idle"
<1>1. /\ pc[c] = "count" /\ CallInv(c) /\ GoOn(c, next)
      /\ last' = [last EXCEPT ![c] = new[c]] /\ counter' = new[c]
      /\ UNCHANGED <<entries, call, new, held, reader, got, quiet, calls>>
  BY DEF Count, walkVars, historyVars, TreeInv, Kind
<1>2. Kind(c) \in {"child", "sibling"} /\ Solid(new[c]) /\ new[c] <= calls + 1
  BY <1>1 DEF CallInv, KindInv, OrderInv, HasWritten, TakenInv, TakesNew
<1>3. /\ next \in {"attach", "idle"} /\ (next = "attach" => Kind(c) = "child")
      /\ (next = "idle" => Kind(c) = "sibling")
  BY <1>2
<1> HIDE DEF next
<1>4. \A m : Solid(m) => Solid(m)'
  BY <1>1 DEF Solid
<1>5. Solid(new[c])'
  BY <1>1, <1>2 DEF Solid
<1>6. new[c] \in Address /\ counter' \in Target
  BY <1>1 DEF TreeInv, ShapeInv, Target
<1>7. /\ pc' = [pc EXCEPT ![c] = next] /\ pc'[c] = next
      /\ inserted' \subseteq Address
      /\ \A m \in inserted' : Solid(m)'
  BY <1>1, <1>4, <1>5, GoOnFacts
<1>8. ShapeInv'
  BY <1>1, <1>3, <1>6, <1>7 DEF TreeInv, ShapeInv
<1>9. OthersKept(c)
  BY <1>1, <1>4, <1>7 DEF OthersKept, TreeInv, ShapeInv
<1>10. BookInv'
  <2>1. \A k \in Address : \A m \in LinksOf(entries[k])' : Solid(m)'
    BY <1>1, <1>4 DEF TreeInv, BookInv, LinksOf
  <2>2. counter' <= calls' + 1
    BY <1>1, <1>2
  <2> QED
    BY <1>7, <2>1, <2>2 DEF BookInv
<1>11. last'[c] = new[c] /\ calls' = calls /\ new'[c] = new[c]
  BY <1>1 DEF TreeInv, ShapeInv
<1>12. KindInv(c)' /\ FilledInv(c)' /\ TakenInv(c)'
  BY <1>1, <1>2, <1>3, <1>7, <1>11
     DEF CallInv, KindInv, FilledInv, TakenInv, TakesNew, Kind
<1>13. SolidInv(c)'
  BY <1>1, <1>4 DEF CallInv, SolidInv
<1>14. OrderInv(c)'
  BY <1>3, <1>5, <1>7 DEF OrderInv, HasWritten, Kind
<1> QED
  BY <1>8, <1>9, <1>10, <1>12, <1>13, <1>14, StepOf DEF CallInv

\* insert_child finds that the parent has no child, or reads its children.
LEMMA AttachKeeps ==
  ASSUME TreeInv, NEW c \in Clients, Attach(c)
  PROVE  TreeInv'
<1> DEFINE child == held[c].entry.child
           item  == [held[c] EXCEPT !.entry.child = new[c]]
<1>1. /\ pc[c] = "attach" /\ CallInv(c)
      /\ UNCHANGED <<entries, counter, last, call, new, quiet, inserted, calls>>
  BY DEF Attach, bookVars, historyVars, TreeInv
<1>2. Kind(c) = "child" /\ Solid(new[c])
  BY <1>1 DEF CallInv, KindInv, OrderInv, HasWritten
<1>3. BookInv' /\ \A m : Solid(m)' <=> Solid(m)
  BY <1>1, BookKept
<1>4. held[c] \in Item /\ new[c] \in Address
  BY DEF TreeInv, ShapeInv
<1>5. \A m \in LinksOf(held[c].entry) : Solid(m)
  BY <1>1 DEF CallInv, SolidInv
<1>6. CASE child = 0
  <2>1. /\ held' = [held EXCEPT ![c] = item] /\ pc' = [pc EXCEPT ![c] = "link"]
        /\ UNCHANGED <<reader, got>>
    BY <1>6 DEF Attach, walkVars
  <2>2. /\ item \in Item /\ new[c] \in LinksOf(item.entry)
        /\ \A m \in LinksOf(item.entry) : Solid(m)
    BY <1>2, <1>4, <1>5, ChildFacts
  <2> HIDE DEF item
  <2>3. ShapeInv'
    BY <1>1, <2>1, <2>2 DEF TreeInv, ShapeInv
  <2>4. OthersKept(c)
    BY <1>1, <1>3, <2>1 DEF OthersKept, TreeInv, ShapeInv
  <2>5. pc'[c] = "link" /\ held'[c] = item
    BY <2>1 DEF TreeInv, ShapeInv
  <2>6. KindInv(c)' /\ FilledInv(c)' /\ TakenInv(c)'
    BY <1>1, <1>2, <2>1, <2>5
       DEF CallInv, KindInv, FilledInv, TakenInv, TakesNew, Kind
  <2>7. SolidInv(c)'
    BY <1>1, <1>3, <2>1, <2>2, <2>5 DEF CallInv, SolidInv
  <2>8. OrderInv(c)'
    BY <1>1, <1>2, <1>3, <2>2, <2>5 DEF OrderInv, HasWritten, Kind
  <2> QED
    BY <1>3, <2>3, <2>4, <2>6, <2>7, <2>8, StepOf DEF CallInv
<1>7. CASE child # 0
  <2>1. /\ OpenReader(c, child) /\ pc' = [pc EXCEPT ![c] = "walk"]
        /\ UNCHANGED held
    BY <1>7 DEF Attach
  <2>2. child \in Address
    BY <1>4, <1>7 DEF Item, Entry, Target
  <2> HIDE DEF child
  <2>3. /\ reader' \in [Clients -> Reader] /\ got' \in [Clients -> Seq(Item)]
        /\ reader'[c].buf = <<>> /\ got'[c] = <<>>
        /\ \A d \in Clients : d # c => /\ reader'[d] = reader[d]
                                       /\ got'[d] = got[d]
    BY <2>1, <2>2, OpenReaderFacts DEF TreeInv
  <2>4. ShapeInv'
    BY <1>1, <2>1, <2>3 DEF TreeInv, ShapeInv
  <2>5. OthersKept(c)
    BY <1>1, <1>3, <2>1, <2>3 DEF OthersKept, TreeInv, ShapeInv
  <2>6. pc'[c] = "walk"
    BY <2>1 DEF TreeInv, ShapeInv
  <2>7. KindInv(c)' /\ FilledInv(c)' /\ TakenInv(c)'
    BY <1>1, <1>2, <2>3, <2>6
       DEF CallInv, KindInv, FilledInv, TakenInv, TakesNew, Kind
  <2>8. SolidInv(c)'
    BY <1>1, <1>3, <1>5, <2>1, <2>3 DEF SolidInv
  <2>9. OrderInv(c)'
    BY <1>1, <1>2, <1>3, <2>6 DEF OrderInv, HasWritten, Kind
  <2> QED
    BY <1>3, <2>4, <2>5, <2>7, <2>8, <2>9, StepOf DEF CallInv
<1> QED
  BY <1>6, <1>7

\* The book is opened again, and no call goes on.
LEMMA CrashKeeps == TreeInv /\ Crash => TreeInv'
<1> SUFFICES ASSUME TreeInv, Crash PROVE TreeInv'
  OBVIOUS
<1> DEFINE opened == IF counter = 0 THEN Root ELSE counter
<1>1. /\ UNCHANGED <<entries, counter, calls>> /\ inserted' = {}
      /\ last' = [c \in Clients |-> opened]
      /\ pc' = [c \in Clients |-> "idle"]
      /\ call' = [c \in Clients |-> Idle]
      /\ new' = [c \in Clients |-> Root]
      /\ held' = [c \in Clients |-> Nobody]
      /\ reader' = [c \in Clients |-> Closed]
      /\ got' = [c \in Clients |-> <<>>]
      /\ quiet' = [c \in Clients |-> TRUE]
  BY DEF Crash, bookVars
<1>2. opened \in Address /\ opened <= calls + 1
  <2>1. counter \in Target /\ calls \in Nat /\ counter <= calls + 1
    BY AddressFacts DEF TreeInv, ShapeInv, BookInv
  <2>2. CASE counter = 0
    BY <2>1, <2>2, AddressFacts DEF Root
  <2>3. CASE counter # 0
    BY <2>1, <2>3 DEF Target
  <2> QED
    BY <2>2, <2>3
<1> HIDE DEF opened
<1>3. Nobody \in Item /\ Idle \in Call /\ Closed \in Reader /\ <<>> \in Seq(Item)
  BY AddressFacts, EntryFacts, EmptySeq
     DEF Nobody, Item, Idle, Call, Closed, Reader
<1>4. ShapeInv'
  BY <1>1, <1>2, <1>3, AddressFacts DEF TreeInv, ShapeInv
<1>5. BookInv'
  <2>1. \A m : Solid(m) => Solid(m)'
    BY <1>1 DEF Solid
  <2>2. \A k \in Address : \A m \in LinksOf(entries[k])' : Solid(m)'
    BY <1>1, <2>1 DEF TreeInv, BookInv, LinksOf
  <2> QED
    BY <1>1, <2>2 DEF TreeInv, BookInv
<1>6. ASSUME NEW c \in Clients
      PROVE  CallInv(c)'
  <2>1. /\ pc'[c] = "idle" /\ Kind(c)' = "none" /\ last'[c] = opened
        /\ reader'[c].buf = <<>> /\ got'[c] = <<>> /\ held'[c].entry = Empty
    BY <1>1 DEF Kind, Idle, Closed, Nobody
  <2>2. KindInv(c)' /\ FilledInv(c)' /\ OrderInv(c)'
    BY <2>1 DEF KindInv, FilledInv, OrderInv, HasWritten
  <2>3. TakenInv(c)'
    BY <1>1, <1>2, <2>1 DEF TakenInv, TakesNew
  <2>4. SolidInv(c)'
    BY <2>1, EntryFacts DEF SolidInv
  <2> QED
    BY <2>2, <2>3, <2>4 DEF CallInv
<1> QED
  BY <1>4, <1>5, <1>6 DEF TreeInv

\* Nothing happens.
LEMMA TreeStutter == TreeInv /\ UNCHANGED vars => TreeInv'
<1> SUFFICES ASSUME TreeInv, UNCHANGED vars PROVE TreeInv'
  OBVIOUS
<1>1. /\ UNCHANGED <<entries, counter, last, pc, call, new, held, reader, got,
                     quiet, inserted, calls>>
  BY DEF vars, bookVars, walkVars, historyVars
<1>2. \A m : Solid(m) <=> Solid(m)'
  BY <1>1 DEF Solid
<1>3. ShapeInv'
  BY <1>1 DEF TreeInv, ShapeInv
<1>4. BookInv'
  <2>1. UNCHANGED <<entries, counter, inserted>> /\ calls' \in {calls, calls + 1}
    BY <1>1
  <2> QED
    BY <2>1, BookKept
<1>5. ASSUME NEW c \in Clients
      PROVE  CallInv(c)'
  <2>1. CallInv(c)
    BY DEF TreeInv
  <2>2. KindInv(c)' /\ FilledInv(c)' /\ TakenInv(c)'
    BY <1>1, <2>1 DEF CallInv, KindInv, FilledInv, TakenInv, TakesNew, Kind
  <2>3. SolidInv(c)'
    BY <1>1, <1>2, <2>1 DEF CallInv, SolidInv, Kind
  <2>4. OrderInv(c)'
    BY <1>1, <1>2, <2>1 DEF CallInv, OrderInv, HasWritten, Kind
  <2> QED
    BY <2>2, <2>3, <2>4 DEF CallInv
<1> QED
  BY <1>3, <1>4, <1>5 DEF TreeInv

\* The pages of the book: numbers of entries.
EdgeInv == edge \in Nat /\ growing \in [Clients -> Nat]

\* A page that is found missing, or added where none was, takes nothing away.
LEMMA GrowEntries ==
  ASSUME ShapeInv, EdgeInv, NEW c \in Clients, Missing(c) \/ Extend(c), ~ raced'
  PROVE  entries' = entries
<1>1. CASE Missing(c)
  BY <1>1 DEF Missing, bookVars
<1>2. CASE Extend(c)
  <2>1. growing[c] \in Nat /\ edge \in Nat /\ ~ (edge > growing[c])
    BY <1>2 DEF Extend, EdgeInv
  <2>2. growing[c] + 1 .. edge = {}
    BY <2>1
  <2>3. entries' = [n \in Address |-> entries[n]]
    BY <1>2, <2>2 DEF Extend
  <2> QED
    BY <2>3 DEF ShapeInv
<1> QED
  BY <1>1, <1>2

\* A page is found missing, or added where none was.
LEMMA GrowKeeps ==
  ASSUME TreeInv, EdgeInv, NEW c \in Clients, Missing(c) \/ Extend(c), ~ raced'
  PROVE  TreeInv'
<1>1. /\ UNCHANGED <<counter, last, pc, call, new, held, reader, got, inserted, calls>>
      /\ quiet' \in [Clients -> BOOLEAN]
  BY DEF Missing, Extend, walkVars, bookVars, historyVars, TreeInv, ShapeInv
<1>2. entries' = entries
  BY GrowEntries DEF TreeInv
<1>3. \A m : Solid(m) <=> Solid(m)'
  BY <1>2 DEF Solid
<1>4. ShapeInv'
  BY <1>1, <1>2 DEF TreeInv, ShapeInv
<1>5. BookInv'
  <2>1. UNCHANGED <<entries, counter, inserted>> /\ calls' \in {calls, calls + 1}
    BY <1>1, <1>2
  <2> QED
    BY <2>1, BookKept
<1>6. ASSUME NEW d \in Clients
      PROVE  CallInv(d)'
  <2>1. CallInv(d)
    BY DEF TreeInv
  <2>2. KindInv(d)' /\ FilledInv(d)' /\ TakenInv(d)'
    BY <1>1, <2>1 DEF CallInv, KindInv, FilledInv, TakenInv, TakesNew, Kind
  <2>3. SolidInv(d)'
    BY <1>1, <1>3, <2>1 DEF CallInv, SolidInv, Kind
  <2>4. OrderInv(d)'
    BY <1>1, <1>3, <2>1 DEF CallInv, OrderInv, HasWritten, Kind
  <2> QED
    BY <2>2, <2>3, <2>4 DEF CallInv
<1> QED
  BY <1>4, <1>5, <1>6 DEF TreeInv

\* A page that is added in place of another takes entries away, no more.
LEMMA GrowShape ==
  ASSUME ShapeInv, EdgeInv, NEW c \in Clients, Missing(c) \/ Extend(c)
  PROVE  ShapeInv' /\ EdgeInv'
<1>1. /\ UNCHANGED <<counter, last, pc, call, new, held, reader, got, inserted, calls>>
      /\ quiet' \in [Clients -> BOOLEAN]
  BY DEF Missing, Extend, walkVars, bookVars, historyVars, ShapeInv
<1>2. entries' \in [Address -> Entry]
  BY EntryFacts DEF Missing, Extend, bookVars, ShapeInv
<1>3. EdgeInv'
  <2>1. PageEntries \in Nat
    BY EntryTreeAssumption
  <2>2. CASE Missing(c)
    BY <2>2 DEF Missing, EdgeInv
  <2>3. CASE Extend(c)
    BY <2>1, <2>3 DEF Extend, EdgeInv
  <2> QED
    BY <2>2, <2>3
<1> QED
  BY <1>1, <1>2, <1>3 DEF ShapeInv

\* The invariant: that of the tree, until a page is unlinked.
PagedInv == EdgeInv /\ ShapeInv /\ (raced \/ TreeInv)

\* A step of client d on pages that are linked.
Acts(d) == (\E n \in Known : BeginCall(d, n)) \/ Proceed(d)

\* Every step is one of a client, a crash, or has to do with the book's pages.
LEMMA NextIsActs ==
  Next => /\ ~ raced
          /\ \/ Crash /\ raced' = raced
             \/ \E d \in Clients :
                  \/ Acts(d) /\ UNCHANGED pageVars
                  \/ Missing(d) \/ Extend(d)
BY DEF Next, Acts, BeginCall, ClientStep, Going, Crash

\* Every step keeps the invariant.
LEMMA PagedStepInv == PagedInv /\ [Next]_vars => PagedInv'
<1> SUFFICES ASSUME PagedInv, [Next]_vars PROVE PagedInv'
  OBVIOUS
<1>1. CASE UNCHANGED vars
  <2>1. UNCHANGED <<edge, growing, raced>>
    BY <1>1 DEF vars, pageVars
  <2>2. ShapeInv'
    BY <1>1 DEF PagedInv, ShapeInv, vars, bookVars, walkVars, historyVars
  <2> QED
    BY <1>1, <2>1, <2>2, TreeStutter DEF PagedInv, EdgeInv
<1>2. CASE Next /\ Crash /\ raced' = raced
  <2>1. TreeInv'
    BY <1>2, NextIsActs, CrashKeeps DEF PagedInv
  <2>2. EdgeInv'
    BY <1>2 DEF Crash, PagedInv, EdgeInv
  <2> QED
    BY <2>1, <2>2 DEF PagedInv, TreeInv
<1>3. ASSUME NEW d \in Clients, Next, Acts(d), UNCHANGED pageVars
      PROVE  PagedInv'
  <2>1. TreeInv
    BY <1>3, NextIsActs DEF PagedInv
  <2>2. TreeInv'
    <3>1. CASE \E n \in Known : BeginCall(d, n)
      BY <2>1, <3>1, InsertChildKeeps, InsertSiblingKeeps, EditKeeps, ReadKeeps
         DEF BeginCall
    <3>2. CASE Proceed(d)
      BY <2>1, <3>2, StepKeeps, LastChildKeeps, LastSiblingKeeps, NoSiblingKeeps,
         EndOfReadKeeps, WriteEntryKeeps, CountKeeps, AttachKeeps, LinkKeeps,
         PlaceKeeps DEF Proceed
    <3> QED
      BY <1>3, <3>1, <3>2 DEF Acts
  <2> QED
    BY <1>3, <2>2 DEF PagedInv, EdgeInv, pageVars, TreeInv
<1>4. ASSUME NEW d \in Clients, Next, Missing(d) \/ Extend(d)
      PROVE  PagedInv'
  <2>1. ~ raced /\ TreeInv
    BY <1>4, NextIsActs DEF PagedInv
  <2>2. ShapeInv' /\ EdgeInv'
    BY <1>4, GrowShape DEF PagedInv
  <2>3. ~ raced' => TreeInv'
    BY <1>4, <2>1, GrowKeeps DEF PagedInv
  <2> QED
    BY <2>2, <2>3 DEF PagedInv
<1> QED
  BY <1>1, <1>2, <1>3, <1>4, NextIsActs

\* The invariant holds in every state.
LEMMA PagedAlwaysInv == Spec => []PagedInv
<1>1. Init => PagedInv
  BY TreeInitInv, EntryTreeAssumption DEF Init, PagedInv, EdgeInv, TreeInv
<1> QED
  BY <1>1, PagedStepInv, PTL DEF Spec

-----------------------------------------------------------------------------
\* Every address that is stored in the book or held by a call is one of the
\* entries, and no clone ever goes on from address 0.
THEOREM EntriesTypeCorrect == Spec => []EntriesTypeOK
<1>1. PagedInv => EntriesTypeOK
  <2> SUFFICES ASSUME ShapeInv PROVE EntriesTypeOK
    BY DEF PagedInv
  <2>1. \A n \in Address : {entries[n].sibling, entries[n].child} \subseteq Target
    BY DEF ShapeInv, Entry
  <2>2. \A c \in Clients : held[c].at \in Address /\ reader[c].offset \in Address
    BY DEF ShapeInv, Item, Reader
  <2> QED
    BY <2>1, <2>2 DEF EntriesTypeOK, ShapeInv
<1> QED
  BY <1>1, PagedAlwaysInv, PTL

\* A link, or an address that an insertion has returned, never leads to an entry
\* that was not written, however many clones write and wherever the process
\* ends, as long as no page is unlinked: insert_child and insert_sibling write
\* the entry before the link to it, and a page that is added where none was
\* takes nothing away.
THEOREM LinksAreBacked == Spec => []LinksLeadToEntries
<1>1. PagedInv => LinksLeadToEntries
  BY DEF PagedInv, TreeInv, BookInv, Solid, LinksLeadToEntries, Linked, LinksOf
<1> QED
  BY <1>1, PagedAlwaysInv, PTL

-----------------------------------------------------------------------------
(***************************************************************************)
(* A reader that nobody disturbs: what it holds is what the book holds, in *)
(* its buffer and in what it has returned.                                 *)
(***************************************************************************)

\* The address of the i-th entry that the reader returns.
At(c, i) == IF i <= Len(got[c]) THEN got[c][i].at ELSE reader[c].offset

FollowInv(c) ==
  quiet[c] /\ Kind(c) = "read" =>
    /\ \A i \in DOMAIN reader[c].buf :
         reader[c].buf[i] = FromBook(reader[c].from + i - 1)
    /\ At(c, 1) = call[c].at
    /\ \A i \in DOMAIN got[c] :
         /\ got[c][i].entry = entries[At(c, i)]
         /\ At(c, i + 1) = Successor(entries[At(c, i)], call[c].mode)
    /\ pc[c] = "idle" =>
         Successor(entries[reader[c].offset], call[c].mode) = 0

\* The other clients do not see it but in the book.
LEMMA OthersSee ==
  ASSUME TreeInv, NEW d \in Clients, Acts(d), NEW c \in Clients, c # d
  PROVE  /\ pc'[c] = pc[c] /\ call'[c] = call[c] /\ new'[c] = new[c]
         /\ last'[c] = last[c] /\ held'[c] = held[c]
         /\ reader'[c] = reader[c] /\ got'[c] = got[c]
         /\ (quiet'[c] = quiet[c] /\ entries' = entries) \/ ~ quiet'[c]
<1> USE DEF OpenReader, Begin, NoMore, GoOn, Store, bookVars, walkVars,
            historyVars, TreeInv, ShapeInv
<1>1. ASSUME NEW n \in Known, NEW name \in Names, InsertChild(d, n, name)
      PROVE  /\ pc'[c] = pc[c] /\ call'[c] = call[c] /\ new'[c] = new[c]
             /\ last'[c] = last[c] /\ held'[c] = held[c]
             /\ reader'[c] = reader[c] /\ got'[c] = got[c]
             /\ quiet'[c] = quiet[c] /\ entries' = entries
  BY <1>1 DEF InsertChild
<1>2. ASSUME NEW n \in Known, NEW name \in Names, InsertSibling(d, n, name)
      PROVE  /\ pc'[c] = pc[c] /\ call'[c] = call[c] /\ new'[c] = new[c]
             /\ last'[c] = last[c] /\ held'[c] = held[c]
             /\ reader'[c] = reader[c] /\ got'[c] = got[c]
             /\ quiet'[c] = quiet[c] /\ entries' = entries
  BY <1>2 DEF InsertSibling
<1>3. ASSUME NEW n \in Known, NEW m \in Known, Edit(d, n, m)
      PROVE  /\ pc'[c] = pc[c] /\ call'[c] = call[c] /\ new'[c] = new[c]
             /\ last'[c] = last[c] /\ held'[c] = held[c]
             /\ reader'[c] = reader[c] /\ got'[c] = got[c]
             /\ quiet'[c] = quiet[c] /\ entries' = entries
  BY <1>3 DEF Edit
<1>4. ASSUME NEW n \in Known, NEW mode, Read(d, n, mode)
      PROVE  /\ pc'[c] = pc[c] /\ call'[c] = call[c] /\ new'[c] = new[c]
             /\ last'[c] = last[c] /\ held'[c] = held[c]
             /\ reader'[c] = reader[c] /\ got'[c] = got[c]
             /\ quiet'[c] = quiet[c] /\ entries' = entries
  BY <1>4 DEF Read
<1>5. CASE Step(d)
  BY <1>5 DEF Step
<1>6. CASE LastChild(d)
  BY <1>6 DEF LastChild
<1>7. CASE LastSibling(d)
  BY <1>7 DEF LastSibling
<1>8. CASE NoSibling(d)
  BY <1>8 DEF NoSibling
<1>9. CASE EndOfRead(d)
  BY <1>9 DEF EndOfRead
<1>10. CASE WriteEntry(d)
  BY <1>10 DEF WriteEntry
<1>11. CASE Count(d)
  BY <1>11 DEF Count
<1>12. CASE Attach(d)
  BY <1>12 DEF Attach
<1>13. CASE Link(d)
  BY <1>13 DEF Link
<1>14. CASE Place(d)
  BY <1>14 DEF Place
<1> QED
  BY <1>1, <1>2, <1>3, <1>4, <1>5, <1>6, <1>7, <1>8, <1>9, <1>10, <1>11,
     <1>12, <1>13, <1>14 DEF Acts, BeginCall, Proceed

\* What they do see of the book ends the quiet.
LEMMA FollowKept ==
  ASSUME NEW c \in Clients, FollowInv(c), UNCHANGED <<pc[c], call[c], reader[c], got[c]>>,
         (quiet'[c] = quiet[c] /\ entries' = entries) \/ ~ quiet'[c]
  PROVE  FollowInv(c)'
<1>1. CASE ~ quiet'[c]
  BY <1>1 DEF FollowInv
<1>2. CASE quiet'[c] = quiet[c] /\ entries' = entries
  <2>1. \A i : At(c, i)' = At(c, i) /\ FromBook(i)' = FromBook(i)
    BY <1>2 DEF At, FromBook
  <2> QED
    BY <1>2, <2>1 DEF FollowInv, Kind
<1> QED
  BY <1>1, <1>2

\* The entry that the reader returns is the one in the book, when those in its
\* buffer are.
LEMMA BufferedFollows ==
  ASSUME TreeInv, NEW c \in Clients,
         \A i \in DOMAIN reader[c].buf :
           reader[c].buf[i] = FromBook(reader[c].from + i - 1)
  PROVE  LET r == Buffered(reader[c]) IN
           /\ \A i \in DOMAIN r.buf : r.buf[i] = FromBook(r.from + i - 1)
           /\ EntryAt(r) = entries[reader[c].offset]
<1> DEFINE r == Buffered(reader[c])
           n == reader[c].offset
           k == r.offset - r.from + 1
<1>1. /\ r \in Reader /\ r.offset = n /\ k \in DOMAIN r.buf
  BY BufferedFacts
<1>2. n \in Address /\ n \in Nat /\ r.from \in Nat
  BY <1>1, AddressFacts DEF Reader, TreeInv, ShapeInv
<1>3. \A i \in DOMAIN r.buf : r.buf[i] = FromBook(r.from + i - 1)
  <2>1. CASE Outside(reader[c])
    BY <2>1 DEF Buffered
  <2>2. CASE ~ Outside(reader[c])
    BY <2>2 DEF Buffered
  <2> QED
    BY <2>1, <2>2
<1>4. r.from + k - 1 = n
  BY <1>1, <1>2
<1>5. EntryAt(r) = r.buf[k]
  BY DEF EntryAt
<1> HIDE DEF r, k
<1>6. EntryAt(r) = FromBook(n)
  BY <1>1, <1>3, <1>4, <1>5
<1> QED
  BY <1>2, <1>3, <1>6 DEF FromBook, r

\* The reader is made.
LEMMA ReadFollows ==
  ASSUME TreeInv, NEW c \in Clients, NEW n \in Known, NEW mode, Read(c, n, mode)
  PROVE  FollowInv(c)'
<1>1. /\ reader'[c].buf = <<>> /\ reader'[c].offset = n /\ got'[c] = <<>>
      /\ pc'[c] = "walk" /\ call'[c].at = n
  BY KnownIsSolid, OpenReaderFacts DEF Read, TreeInv, ShapeInv, Idle
<1>2. At(c, 1)' = n
  BY <1>1 DEF At
<1> QED
  BY <1>1, <1>2 DEF FollowInv

\* It returns one entry more, and goes on at the link of that one.
LEMMA StepFollows ==
  ASSUME TreeInv, NEW c \in Clients, FollowInv(c), Step(c),
         quiet[c], Kind(c) = "read"
  PROVE  FollowInv(c)'
<1> DEFINE r    == Buffered(reader[c])
           next == NextOffset(c, r)
           item == [at |-> r.offset, entry |-> EntryAt(r)]
           n    == reader[c].offset
           mode == call[c].mode
<1>1. /\ pc[c] = "walk" /\ next # 0
      /\ UNCHANGED <<entries, pc, call, quiet>>
      /\ reader'[c] = [r EXCEPT !.offset = next]
      /\ got'[c] = Append(got[c], item)
  BY DEF Step, bookVars, TreeInv, ShapeInv
<1>2. /\ \A i \in DOMAIN reader[c].buf :
           reader[c].buf[i] = FromBook(reader[c].from + i - 1)
      /\ At(c, 1) = call[c].at
      /\ \A i \in DOMAIN got[c] :
           /\ got[c][i].entry = entries[At(c, i)]
           /\ At(c, i + 1) = Successor(entries[At(c, i)], mode)
  BY DEF FollowInv
<1>3. /\ r \in Reader /\ r.offset = n
  BY BufferedFacts
<1>4. /\ \A i \in DOMAIN r.buf : r.buf[i] = FromBook(r.from + i - 1)
      /\ EntryAt(r) = entries[n]
  BY <1>2, BufferedFollows
<1>5. /\ reader'[c].buf = r.buf /\ reader'[c].from = r.from
      /\ reader'[c].offset = next
  BY <1>1, <1>3 DEF Reader
<1>6. next = Successor(entries[n], mode)
  BY <1>1, <1>4 DEF NextOffset
<1>7. item.at = n /\ item.entry = entries[n]
  BY <1>3, <1>4
<1> HIDE DEF r, next, item, n
<1>0. got[c] \in Seq(Item) /\ Len(got[c]) \in Nat
  BY LenProperties DEF TreeInv, ShapeInv
<1>8. PICK k \in Nat : k = Len(got[c])
  BY <1>0
<1>9. /\ Len(got'[c]) = k + 1 /\ DOMAIN got'[c] = 1 .. k + 1
      /\ \A i \in 1 .. k : got'[c][i] = got[c][i]
      /\ got'[c][k + 1] = item
      /\ DOMAIN got[c] = 1 .. k
  BY <1>0, <1>1, <1>8
<1>10. At(c, k + 1) = n
  BY <1>8 DEF At, n
<1>11. /\ \A i \in 1 .. k : At(c, i)' = At(c, i)
       /\ At(c, k + 1)' = n
       /\ At(c, k + 2)' = next
  <2>1. \A i \in 1 .. k : At(c, i)' = got[c][i].at /\ At(c, i) = got[c][i].at
    BY <1>8, <1>9 DEF At
  <2>2. At(c, k + 1)' = got'[c][k + 1].at
    BY <1>8, <1>9 DEF At
  <2>3. At(c, k + 2)' = reader'[c].offset
    BY <1>8, <1>9 DEF At
  <2> QED
    BY <1>5, <1>7, <1>9, <2>1, <2>2, <2>3
<1>12. At(c, 1)' = call'[c].at
  <2>1. CASE k = 0
    BY <1>1, <1>2, <1>10, <1>11, <2>1
  <2>2. CASE k # 0
    <3>1. 1 \in 1 .. k
      BY <1>8, <2>2
    <3> QED
      BY <1>1, <1>2, <1>11, <3>1
  <2> QED
    BY <2>1, <2>2
<1>13. ASSUME NEW i \in DOMAIN got'[c]
       PROVE  /\ got'[c][i].entry = entries'[At(c, i)']
              /\ At(c, i + 1)' = Successor(entries'[At(c, i)'], mode)
  <2>1. CASE i = k + 1
    <3>1. i + 1 = k + 2
      BY <1>8, <2>1
    <3> QED
      BY <1>1, <1>6, <1>7, <1>9, <1>11, <2>1, <3>1
  <2>2. CASE i # k + 1
    <3>1. i \in 1 .. k
      BY <1>8, <1>9, <2>2
    <3>2. At(c, i + 1)' = At(c, i + 1)
      <4>1. CASE i = k
        BY <1>10, <1>11, <4>1
      <4>2. CASE i # k
        <5>1. i + 1 \in 1 .. k
          BY <1>8, <3>1, <4>2
        <5> QED
          BY <1>11, <5>1
      <4> QED
        BY <4>1, <4>2
    <3> QED
      BY <1>1, <1>2, <1>9, <1>11, <3>1, <3>2
  <2> QED
    BY <2>1, <2>2
<1>14. \A i : FromBook(i)' = FromBook(i)
  BY <1>1 DEF FromBook
<1>15. \A i \in DOMAIN reader'[c].buf :
         reader'[c].buf[i] = FromBook(reader[c].from + i - 1)'
  <2>1. \A i : FromBook(reader[c].from + i - 1)' = FromBook(r.from + i - 1)
    BY <1>5, <1>14
  <2> QED
    BY <1>4, <1>5, <2>1
<1> QED
  BY <1>1, <1>12, <1>13, <1>15 DEF FollowInv

\* It returns None when the entry has no link.
LEMMA EndFollows ==
  ASSUME TreeInv, NEW c \in Clients, FollowInv(c), EndOfRead(c), quiet[c]
  PROVE  FollowInv(c)'
<1> DEFINE r    == Buffered(reader[c])
           n    == reader[c].offset
           mode == call[c].mode
<1>1. /\ Kind(c) = "read" /\ NextOffset(c, r) = 0
      /\ UNCHANGED <<entries, call, quiet, got>>
      /\ reader'[c] = r
  BY DEF EndOfRead, NoMore, Kind, bookVars, TreeInv, ShapeInv
<1>2. /\ \A i \in DOMAIN reader[c].buf :
           reader[c].buf[i] = FromBook(reader[c].from + i - 1)
      /\ At(c, 1) = call[c].at
      /\ \A i \in DOMAIN got[c] :
           /\ got[c][i].entry = entries[At(c, i)]
           /\ At(c, i + 1) = Successor(entries[At(c, i)], mode)
  BY <1>1 DEF FollowInv
<1>3. /\ r \in Reader /\ r.offset = n
  BY BufferedFacts
<1>4. /\ \A i \in DOMAIN r.buf : r.buf[i] = FromBook(r.from + i - 1)
      /\ EntryAt(r) = entries[n]
  BY <1>2, BufferedFollows
<1>5. Successor(entries[n], mode) = 0
  <2>1. Successor(Empty, mode) = 0
    BY DEF Successor, Empty, NewEntry
  <2> QED
    BY <1>1, <1>4, <2>1 DEF NextOffset
<1> HIDE DEF r
<1>6. \A i : At(c, i)' = At(c, i) /\ FromBook(i)' = FromBook(i)
  BY <1>1, <1>3 DEF At, FromBook
<1> QED
  BY <1>1, <1>2, <1>3, <1>4, <1>5, <1>6 DEF FollowInv, Kind

\* A client's own steps keep what its reader holds to the book.
LEMMA ActsFollow ==
  ASSUME TreeInv, NEW c \in Clients, FollowInv(c), Acts(c)
  PROVE  FollowInv(c)'
<1>1. CASE Kind(c)' # "read" \/ ~ quiet'[c]
  BY <1>1 DEF FollowInv
<1>2. ASSUME NEW n \in Known, NEW name \in Names,
             InsertChild(c, n, name) \/ InsertSibling(c, n, name)
      PROVE  Kind(c)' # "read"
  <2>1. CASE InsertChild(c, n, name)
    BY <2>1 DEF InsertChild, Kind, Idle, TreeInv, ShapeInv
  <2>2. CASE InsertSibling(c, n, name)
    BY <2>2 DEF InsertSibling, Kind, Idle, TreeInv, ShapeInv
  <2> QED
    BY <1>2, <2>1, <2>2
<1>3. ASSUME NEW n \in Known, NEW m \in Known, Edit(c, n, m)
      PROVE  Kind(c)' # "read"
  BY <1>3 DEF Edit, Kind, Idle, TreeInv, ShapeInv
<1>4. ASSUME NEW n \in Known, NEW mode, Read(c, n, mode)
      PROVE  FollowInv(c)'
  BY <1>4, ReadFollows
<1>5. CASE Step(c)
  <2>1. CASE quiet[c] /\ Kind(c) = "read"
    BY <1>5, <2>1, StepFollows
  <2>2. CASE ~ (quiet[c] /\ Kind(c) = "read")
    BY <1>5, <2>2 DEF Step, Kind, FollowInv
  <2> QED
    BY <2>1, <2>2
<1>6. CASE EndOfRead(c)
  <2>1. CASE quiet[c]
    BY <1>6, <2>1, EndFollows
  <2>2. CASE ~ quiet[c]
    BY <1>6, <2>2 DEF EndOfRead, NoMore, FollowInv
  <2> QED
    BY <2>1, <2>2
<1>7. CASE LastChild(c) \/ LastSibling(c) \/ NoSibling(c)
  <2>1. Kind(c)' # "read"
    BY <1>7 DEF LastChild, LastSibling, NoSibling, NoMore, Kind
  <2> QED
    BY <1>1, <2>1
<1>8. CASE WriteEntry(c) \/ Link(c) \/ Place(c)
  <2>1. ~ quiet'[c]
    BY <1>8 DEF WriteEntry, Link, Place, Store
  <2> QED
    BY <1>1, <2>1
<1>9. CASE Count(c) \/ Attach(c)
  <2>1. pc[c] \in {"count", "attach"} /\ call' = call
    BY <1>9 DEF Count, Attach
  <2>2. KindInv(c)
    BY DEF TreeInv, CallInv
  <2>3. Kind(c)' # "read"
    BY <2>1, <2>2 DEF KindInv, Kind
  <2> QED
    BY <1>1, <2>3
<1> QED
  BY <1>1, <1>2, <1>3, <1>4, <1>5, <1>6, <1>7, <1>8, <1>9 DEF Acts, BeginCall, Proceed

\* A page that is missing, or is added, does not disturb a reader unless another
\* is unlinked for it.
LEMMA GrowFollows ==
  ASSUME TreeInv, EdgeInv, NEW d \in Clients, Missing(d) \/ Extend(d),
         NEW c \in Clients, FollowInv(c)
  PROVE  FollowInv(c)'
<1>1. UNCHANGED <<pc[c], call[c], reader[c], got[c]>>
  BY DEF Missing, Extend, walkVars
<1>2. (quiet'[c] = quiet[c] /\ entries' = entries) \/ ~ quiet'[c]
  <2>1. CASE Missing(d)
    BY <2>1 DEF Missing, bookVars
  <2>2. CASE Extend(d) /\ raced'
    BY <2>2 DEF Extend
  <2>3. CASE Extend(d) /\ ~ raced'
    <3>4. quiet'[c] = (quiet[c] /\ ~ raced')
      BY <2>3 DEF Extend
    <3>5. quiet[c] \in BOOLEAN /\ entries' = entries
      BY <2>3, GrowEntries DEF TreeInv, ShapeInv
    <3>6. quiet'[c] = quiet[c]
      BY <2>3, <3>4, <3>5
    <3> QED
      BY <3>5, <3>6
  <2> QED
    BY <2>1, <2>2, <2>3
<1> QED
  BY <1>1, <1>2, FollowKept

\* A reader that nobody disturbs returns entries as they are in the book, the one
\* it was made for first and each other one where the link of the one before
\* leads, and leaves out none but, if any, the last of the chain.
THEOREM ReadsFollowLinks == Spec => []ReadFollowsLinks
<1> DEFINE Inv == \A c \in Clients : FollowInv(c)
<1>1. Init => Inv
  BY DEF Init, FollowInv, Kind, Idle
<1>2. PagedInv /\ Inv /\ [Next]_vars => Inv'
  <2> SUFFICES ASSUME PagedInv, Inv, [Next]_vars, NEW c \in Clients
               PROVE  FollowInv(c)'
    OBVIOUS
  <2>1. CASE UNCHANGED vars
    BY <2>1, FollowKept DEF vars, bookVars, walkVars
  <2>2. CASE Next
    <3>1. TreeInv /\ EdgeInv
      BY <2>2, NextIsActs DEF PagedInv
    <3>2. CASE Crash
      <4>1. Kind(c)' = "none"
        BY <3>2 DEF Crash, Kind, Idle
      <4> QED
        BY <4>1 DEF FollowInv
    <3>3. ASSUME NEW d \in Clients, Acts(d)
          PROVE  FollowInv(c)'
      <4>1. CASE c = d
        BY <3>1, <3>3, <4>1, ActsFollow
      <4>2. CASE c # d
        BY <3>1, <3>3, <4>2, OthersSee, FollowKept
      <4> QED
        BY <4>1, <4>2
    <3>4. ASSUME NEW d \in Clients, Missing(d) \/ Extend(d)
          PROVE  FollowInv(c)'
      BY <3>1, <3>4, GrowFollows
    <3> QED
      BY <2>2, <3>2, <3>3, <3>4, NextIsActs
  <2> QED
    BY <2>1, <2>2
<1>3. PagedInv /\ Inv => ReadFollowsLinks
  <2> SUFFICES ASSUME ShapeInv, NEW c \in Clients, FollowInv(c),
                      pc[c] = "idle", Kind(c) = "read", quiet[c]
               PROVE  LET ats  == [i \in DOMAIN got[c] |-> got[c][i].at]
                          rest == IF ats = <<>> THEN call[c].at
                                  ELSE LinkFrom(c, ats[Len(ats)])
                      IN  /\ \A i \in DOMAIN ats :
                               /\ got[c][i].entry = entries[ats[i]]
                               /\ ats[i] = IF i = 1 THEN call[c].at
                                           ELSE LinkFrom(c, ats[i - 1])
                          /\ rest = 0 \/ LinkFrom(c, rest) = 0
    BY DEF ReadFollowsLinks, UndisturbedEnd, Kind, PagedInv
  <2> DEFINE ats  == [i \in DOMAIN got[c] |-> got[c][i].at]
             rest == IF ats = <<>> THEN call[c].at
                     ELSE LinkFrom(c, ats[Len(ats)])
             mode == call[c].mode
             k    == Len(got[c])
  <2>1. got[c] \in Seq(Item) /\ k \in Nat /\ DOMAIN got[c] = 1 .. k
    BY LenProperties DEF ShapeInv
  <2>2. ats \in Seq(Address) /\ Len(ats) = k
    <3>1. \A i \in 1 .. k : got[c][i] \in Item
      BY <2>1, ElementOfSeq
    <3>2. \A i \in 1 .. k : got[c][i].at \in Address
      BY <3>1 DEF Item
    <3> HIDE DEF k
    <3> QED
      BY <2>1, <3>2
  <2>3. /\ \A i \in 1 .. k : ats[i] = At(c, i)
        /\ At(c, k + 1) = reader[c].offset
        /\ At(c, 1) = call[c].at
    BY <2>1 DEF At, FollowInv
  <2>4. \A n : Successor(entries[n], mode) = LinkFrom(c, n)
    BY DEF Successor, LinkFrom
  <2>5. \A i \in 1 .. k : /\ got[c][i].entry = entries[At(c, i)]
                          /\ At(c, i + 1) = LinkFrom(c, At(c, i))
    BY <2>1, <2>4 DEF FollowInv
  <2>6. LinkFrom(c, reader[c].offset) = 0
    BY <2>4 DEF FollowInv
  <2> HIDE DEF ats, k
  <2>7. ASSUME NEW i \in DOMAIN ats
        PROVE  /\ got[c][i].entry = entries[ats[i]]
               /\ ats[i] = IF i = 1 THEN call[c].at ELSE LinkFrom(c, ats[i - 1])
    <3>1. i \in 1 .. k
      BY <2>2
    <3>2. CASE i = 1
      BY <2>3, <2>5, <3>1, <3>2
    <3>3. CASE i # 1
      <4>1. i - 1 \in 1 .. k /\ (i - 1) + 1 = i
        BY <2>1, <3>1, <3>3
      <4>2. At(c, i) = LinkFrom(c, At(c, i - 1))
        BY <2>5, <4>1
      <4> QED
        BY <2>3, <2>5, <3>1, <3>3, <4>1, <4>2
    <3> QED
      BY <3>2, <3>3
  <2>8. rest = reader[c].offset
    <3>1. CASE k = 0
      <4>1. ats = <<>>
        BY <2>2, <3>1, EmptySeq
      <4> QED
        BY <2>3, <3>1, <4>1
    <3>2. CASE k # 0
      <4>1. k \in 1 .. k /\ ats # <<>>
        BY <2>1, <2>2, <3>2
      <4>2. rest = LinkFrom(c, At(c, k))
        BY <2>2, <2>3, <4>1
      <4> QED
        BY <2>3, <2>5, <4>1, <4>2
    <3> QED
      BY <3>1, <3>2
  <2> QED
    BY <2>6, <2>7, <2>8 DEF ats
<1> QED
  BY <1>1, <1>2, <1>3, PagedAlwaysInv, PTL DEF Spec

-----------------------------------------------------------------------------
(***************************************************************************)
(* One clone alone is written through: addresses up to the counter are     *)
(* taken, and the others are free but for the one that insert_sibling has  *)
(* linked and is about to count.                                           *)
(***************************************************************************)

\* From here on it is cited where it is needed.
HIDE DEF Opened

Pending(m) ==
  \E c \in Clients : pc[c] = "count" /\ Kind(c) = "sibling" /\ m = new[c]

Settled(m) == m \in Address /\ (m <= Opened(counter) \/ Pending(m))

\* The call of c is one that writes.
Writing(c) == pc[c] # "idle" /\ Kind(c) # "read"

\* What the one clone knows of the counter, and where its new entry goes.
OwnInv(c) ==
  /\ Writing(c) => c \in writers
  /\ writers \subseteq {c} => last[c] >= Opened(counter)
  /\ TakesNew(c) => new[c] > Opened(counter)
  /\ pc[c] \in {"attach", "walk", "link"} /\ Kind(c) = "child" =>
       new[c] <= Opened(counter)
  /\ Kind(c) = "sibling" => call[c].at <= Opened(counter)
  /\ pc[c] = "place" => new[c] <= Opened(counter)

\* The entries that a call has read, or is to write, link to taken addresses,
\* but for the link to the new one.
SettledInv(c) ==
  /\ \A m \in LinksOf(held[c].entry) :
       \/ Settled(m)
       \/ m = new[c] /\ pc[c] \in {"write", "link"} /\ Kind(c) = "sibling"
  /\ \A i \in DOMAIN reader[c].buf :
       \A m \in LinksOf(reader[c].buf[i]) : Settled(m)
  /\ \A i \in DOMAIN got[c] : \A m \in LinksOf(got[c][i].entry) : Settled(m)

\* And so do those in the book.
BookSettled ==
  /\ \A n \in Address : \A m \in LinksOf(entries[n]) : Settled(m)
  /\ \A m \in inserted : m <= Opened(counter)

SoleInv ==
  sole => /\ \A c, d \in writers : c = d
          /\ writers \subseteq Clients
          /\ BookSettled
          /\ \A c \in Clients : OwnInv(c) /\ SettledInv(c)

\* The counter and the addresses are numbers.
LEMMA CounterFacts ==
  ASSUME TreeInv
  PROVE  /\ Opened(counter) \in Nat /\ Opened(counter) >= 1
         /\ \A c \in Clients : new[c] \in Nat /\ last[c] \in Nat
                               /\ call[c].at \in Nat
         /\ \A n \in Address : n \in Nat /\ n >= 1 /\ Opened(n) = n
<1>1. counter \in Target
  BY DEF TreeInv, ShapeInv
<1>2. \A n \in Address : n \in Nat /\ n >= 1 /\ n # 0
  BY AddressFacts DEF Address
<1>3. \A n \in Address : Opened(n) = n
  BY <1>2 DEF Opened
<1>4. \A c \in Clients : /\ new[c] \in Address /\ last[c] \in Address
                         /\ call[c].at \in Address
  BY DEF TreeInv, ShapeInv, Call
<1>5. Opened(counter) \in Nat /\ Opened(counter) >= 1
  <2>1. CASE counter = 0
    BY <2>1 DEF Root, Opened
  <2>2. CASE counter # 0
    BY <1>1, <1>2, <2>2 DEF Target, Opened
  <2> QED
    BY <2>1, <2>2
<1> QED
  BY <1>2, <1>3, <1>4, <1>5

\* Nothing is taken yet.
LEMMA SoleInitInv == Init => SoleInv
<1> SUFFICES ASSUME Init PROVE SoleInv
  OBVIOUS
<1>1. /\ writers = {} /\ inserted = {} /\ counter = 0
      /\ \A n \in Address : LinksOf(entries[n]) = {}
  BY EntryFacts DEF Init
<1>2. BookSettled
  BY <1>1 DEF BookSettled
<1>3. ASSUME NEW c \in Clients
      PROVE  OwnInv(c) /\ SettledInv(c)
  <2>1. /\ pc[c] = "idle" /\ Kind(c) = "none" /\ last[c] = 1 /\ Opened(counter) = 1
        /\ reader[c].buf = <<>> /\ got[c] = <<>> /\ held[c].entry = Empty
    BY DEF Init, Kind, Idle, Closed, Nobody, Root, Opened
  <2>2. OwnInv(c)
    BY <2>1 DEF OwnInv, Writing, TakesNew
  <2>3. SettledInv(c)
    BY <2>1, EntryFacts DEF SettledInv
  <2> QED
    BY <2>2, <2>3
<1> QED
  BY <1>1, <1>2, <1>3 DEF SoleInv

\* All that a step of d may do to the other clients, and to what is taken.
Around(d) ==
  /\ sole
  /\ \A c \in Clients : c # d =>
       /\ pc'[c] = pc[c] /\ call'[c] = call[c] /\ new'[c] = new[c]
       /\ last'[c] = last[c] /\ held'[c] = held[c]
       /\ reader'[c] = reader[c] /\ got'[c] = got[c]
  /\ writers \subseteq writers'
  /\ \/ counter' = counter
     \/ /\ d \in writers /\ Writing(d)
        /\ counter' \in Address /\ counter' >= Opened(counter)
  /\ \A m : Settled(m) => Settled(m)'

\* A step of d has to keep the invariant of d and of the book.
LEMMA SoleOf ==
  ASSUME TreeInv, TreeInv', SoleInv, NEW d \in Clients, Around(d),
         writers' \subseteq Clients, \A b, c \in writers' : b = c,
         BookSettled', OwnInv(d)', SettledInv(d)'
  PROVE  SoleInv'
<1> SUFFICES ASSUME NEW c \in Clients, c # d
             PROVE  OwnInv(c)' /\ SettledInv(c)'
  BY DEF SoleInv
<1>1. /\ pc'[c] = pc[c] /\ call'[c] = call[c] /\ new'[c] = new[c]
      /\ last'[c] = last[c] /\ held'[c] = held[c]
      /\ reader'[c] = reader[c] /\ got'[c] = got[c] /\ Kind(c)' = Kind(c)
      /\ \A m : Settled(m) => Settled(m)'
      /\ sole /\ writers \subseteq writers'
  BY DEF Around, Kind
<1>2. OwnInv(c) /\ SettledInv(c) /\ KindInv(c)
  BY <1>1 DEF SoleInv, TreeInv, CallInv
<1>3. SettledInv(c)'
  BY <1>1, <1>2 DEF SettledInv
<1>4. Writing(c)' => c \in writers'
  BY <1>1, <1>2 DEF OwnInv, Writing
<1>5. CASE counter' = counter
  <2>1. Opened(counter') = Opened(counter)
    BY <1>5
  <2>2. OwnInv(c)'
    BY <1>1, <1>2, <1>4, <2>1 DEF OwnInv, TakesNew
  <2> QED
    BY <1>3, <2>2
<1>6. CASE /\ d \in writers /\ Writing(d)
           /\ counter' \in Address /\ counter' >= Opened(counter)
  <2>1. c \notin writers
    BY <1>1, <1>6 DEF SoleInv
  <2>2. ~ Writing(c) /\ ~ (writers' \subseteq {c})
    BY <1>1, <1>2, <1>6, <2>1 DEF OwnInv
  <2>3. ~ Writing(c)'
    BY <1>1, <2>2 DEF Writing
  <2>4. ~ TakesNew(c)' /\ ~ (pc'[c] = "place")
        /\ ~ (pc'[c] \in {"attach", "walk", "link"} /\ Kind(c)' = "child")
    BY <1>1, <1>2, <2>2 DEF Writing, TakesNew, KindInv
  <2>5. Kind(c)' = "sibling" => call'[c].at <= Opened(counter')
    <3>1. /\ call[c].at \in Nat /\ Opened(counter) \in Nat /\ counter' \in Nat
          /\ Opened(counter') = counter'
      BY <1>6, CounterFacts
    <3>2. Kind(c) = "sibling" => call[c].at <= Opened(counter)
      BY <1>2 DEF OwnInv
    <3> QED
      BY <1>1, <1>6, <3>1, <3>2
  <2>6. OwnInv(c)'
    BY <2>2, <2>3, <2>4, <2>5 DEF OwnInv
  <2> QED
    BY <1>3, <2>6
<1> QED
  BY <1>5, <1>6 DEF Around

\* What is taken stays taken, when nobody counts.
LEMMA SettledKept ==
  ASSUME NEW d \in Clients, counter' = counter,
         pc[d] # "count" \/ Kind(d) # "sibling",
         \A c \in Clients : c # d =>
           pc'[c] = pc[c] /\ call'[c] = call[c] /\ new'[c] = new[c]
  PROVE  \A m : Settled(m) => Settled(m)'
<1> SUFFICES ASSUME NEW m, Settled(m), ~ (m <= Opened(counter))
             PROVE  Pending(m)'
  BY DEF Settled
<1>1. PICK c \in Clients : pc[c] = "count" /\ Kind(c) = "sibling" /\ m = new[c]
  BY DEF Settled, Pending
<1>2. c # d
  BY <1>1
<1> QED
  BY <1>1, <1>2 DEF Pending, Kind

\* A step that does not count leaves the others, and what is taken, as it was.
LEMMA AroundActs ==
  ASSUME TreeInv, SoleInv, NEW d \in Clients, Acts(d), sole, counter' = counter,
         writers \subseteq writers', pc[d] # "count" \/ Kind(d) # "sibling"
  PROVE  Around(d) /\ \A m : Settled(m) => Settled(m)'
<1>1. \A c \in Clients : c # d =>
        /\ pc'[c] = pc[c] /\ call'[c] = call[c] /\ new'[c] = new[c]
        /\ last'[c] = last[c] /\ held'[c] = held[c]
        /\ reader'[c] = reader[c] /\ got'[c] = got[c]
  BY OthersSee
<1>2. \A m : Settled(m) => Settled(m)'
  BY <1>1, SettledKept
<1> QED
  BY <1>1, <1>2 DEF Around

\* Callers know taken addresses, and a clone that begins to write no others.
LEMMA KnownIsSettled ==
  ASSUME TreeInv, SoleInv, sole
  PROVE  /\ \A m \in Known : Settled(m)
         /\ \A d \in Clients : pc[d] = "idle" /\ writers \subseteq {d} =>
              \A m \in Address : Settled(m) => m <= Opened(counter)
<1> DEFINE S == {m \in Address : Settled(m)}
<1>1. Root \in S
  BY AddressFacts, CounterFacts DEF Settled, Root
<1>2. \A m \in S : Linked(m) \subseteq S
  <2>1. \A m \in Address : Linked(m) = LinksOf(entries[m])
    BY DEF Linked, LinksOf
  <2>2. \A m \in Address : LinksOf(entries[m]) \subseteq Address
    BY EntryFacts DEF TreeInv, ShapeInv
  <2> QED
    BY <2>1, <2>2 DEF SoleInv, BookSettled
<1>3. Reachable(Root) \subseteq S
  BY <1>1, <1>2, ReachableStaysIn
<1>4. \A m \in inserted : Settled(m)
  BY DEF SoleInv, BookSettled, Settled, TreeInv, ShapeInv
<1>5. ASSUME NEW d \in Clients, pc[d] = "idle", writers \subseteq {d}, NEW m
      PROVE  ~ Pending(m)
  BY <1>5 DEF SoleInv, OwnInv, Pending, Writing
<1> QED
  BY <1>3, <1>4, <1>5 DEF Known, Settled

\* The buffer of a reader holds entries like those of the book.
LEMMA BufferedSettled ==
  ASSUME TreeInv, SoleInv, sole, NEW c \in Clients
  PROVE  \A i \in DOMAIN Buffered(reader[c]).buf :
           \A m \in LinksOf(Buffered(reader[c]).buf[i]) : Settled(m)
<1>1. \A n : \A m \in LinksOf(FromBook(n)) : Settled(m)
  BY EntryFacts DEF FromBook, SoleInv, BookSettled
<1>2. CASE Outside(reader[c])
  BY <1>1, <1>2 DEF Buffered
<1>3. CASE ~ Outside(reader[c])
  BY <1>3 DEF Buffered, SoleInv, SettledInv
<1> QED
  BY <1>2, <1>3

\* The book is left alone.
LEMMA BookSettledKept ==
  ASSUME SoleInv, sole, UNCHANGED <<entries, counter, inserted>>,
         \A m : Settled(m) => Settled(m)'
  PROVE  BookSettled'
<1>1. \A n \in Address : \A m \in LinksOf(entries[n])' : Settled(m)'
  BY DEF SoleInv, BookSettled, LinksOf
<1>2. \A m \in inserted' : m <= Opened(counter)'
  BY DEF SoleInv, BookSettled, Opened
<1> QED
  BY <1>1, <1>2 DEF BookSettled

-----------------------------------------------------------------------------
\* The calls begin.
LEMMA SoleBegin ==
  ASSUME TreeInv, TreeInv', SoleInv, sole', NEW d \in Clients, Acts(d),
         NEW kind, Begin(d, kind), Kind(d)' = kind
  PROVE  /\ Around(d) /\ \A m : Settled(m) => Settled(m)'
         /\ writers' \subseteq Clients /\ \A b, c \in writers' : b = c
         /\ kind # "read" => d \in writers' /\ writers \subseteq {d}
         /\ BookSettled' /\ counter' = counter /\ sole
         /\ OwnInv(d) /\ SettledInv(d) /\ pc[d] = "idle"
         /\ \A m \in Known : m \in Address /\ Settled(m)
         /\ kind # "read" => \A m \in Known : m <= Opened(counter)
<1>1. /\ pc[d] = "idle" /\ UNCHANGED <<entries, counter, inserted>>
      /\ sole /\ writers \subseteq writers'
      /\ kind # "read" => writers' = writers \cup {d} /\ writers \subseteq {d}
      /\ kind = "read" => writers' = writers
  BY DEF Begin, bookVars
<1>2. Around(d) /\ \A m : Settled(m) => Settled(m)'
  BY <1>1, AroundActs
<1>3. writers' \subseteq Clients /\ \A b, c \in writers' : b = c
  BY <1>1 DEF SoleInv
<1>4. BookSettled'
  BY <1>1, <1>2, BookSettledKept
<1>5. \A m \in Known : m \in Address /\ Settled(m)
  BY <1>1, KnownIsSettled, KnownIsSolid
<1>6. kind # "read" => \A m \in Known : m <= Opened(counter)
  BY <1>1, <1>5, KnownIsSettled
<1>7. OwnInv(d) /\ SettledInv(d)
  BY <1>1 DEF SoleInv
<1> QED
  BY <1>1, <1>2, <1>3, <1>4, <1>5, <1>6, <1>7

\* insert_child begins: the address behind the last one is free.
LEMMA SoleInsertChild ==
  ASSUME TreeInv, TreeInv', SoleInv, sole', NEW d \in Clients,
         NEW n \in Known, NEW name \in Names, InsertChild(d, n, name)
  PROVE  SoleInv'
<1>1. /\ Acts(d) /\ Begin(d, "child")
      /\ Kind(d)' = "child" /\ pc'[d] = "write"
      /\ held'[d].entry = entries[n]
      /\ new'[d] = last[d] + 1 /\ last'[d] = last[d] + 1
      /\ reader'[d] = reader[d] /\ got'[d] = got[d]
  <2>1. Acts(d)
    BY DEF Acts, BeginCall
  <2> QED
    BY <2>1 DEF InsertChild, Kind, Idle, walkVars, TreeInv, ShapeInv
<1>2. /\ Around(d) /\ \A m : Settled(m) => Settled(m)'
      /\ writers' \subseteq Clients /\ \A b, c \in writers' : b = c
      /\ d \in writers' /\ writers \subseteq {d}
      /\ BookSettled' /\ counter' = counter /\ sole
      /\ OwnInv(d) /\ SettledInv(d) /\ pc[d] = "idle"
      /\ n \in Address
  BY <1>1, SoleBegin
<1>3. /\ last[d] + 1 > Opened(counter) /\ last[d] + 1 >= Opened(counter)
  <2>1. last[d] >= Opened(counter)
    BY <1>2 DEF OwnInv
  <2>2. last[d] \in Nat /\ Opened(counter) \in Nat
    BY CounterFacts
  <2> QED
    BY <2>1, <2>2
<1>4. OwnInv(d)'
  BY <1>1, <1>2, <1>3 DEF OwnInv, TakesNew, Writing
<1>5. SettledInv(d)'
  BY <1>1, <1>2 DEF SettledInv, SoleInv, BookSettled
<1> QED
  BY <1>2, <1>4, <1>5, SoleOf

\* insert_sibling begins.
LEMMA SoleInsertSibling ==
  ASSUME TreeInv, TreeInv', SoleInv, sole', NEW d \in Clients,
         NEW n \in Known, NEW name \in Names, InsertSibling(d, n, name)
  PROVE  SoleInv'
<1>1. /\ Acts(d) /\ Begin(d, "sibling")
      /\ Kind(d)' = "sibling" /\ pc'[d] = "walk" /\ call'[d].at = n
      /\ UNCHANGED <<last, new, held>>
  <2>1. Acts(d)
    BY DEF Acts, BeginCall
  <2> QED
    BY <2>1 DEF InsertSibling, Kind, Idle, TreeInv, ShapeInv
<1>2. /\ Around(d) /\ \A m : Settled(m) => Settled(m)'
      /\ writers' \subseteq Clients /\ \A b, c \in writers' : b = c
      /\ d \in writers' /\ writers \subseteq {d}
      /\ BookSettled' /\ counter' = counter /\ sole
      /\ OwnInv(d) /\ SettledInv(d) /\ pc[d] = "idle"
      /\ n \in Address /\ n <= Opened(counter)
  BY <1>1, SoleBegin
<1>3. reader'[d].buf = <<>> /\ got'[d] = <<>>
  BY <1>2, OpenReaderFacts DEF InsertSibling, TreeInv
<1>4. OwnInv(d)'
  BY <1>1, <1>2 DEF OwnInv, TakesNew, Writing
<1>5. SettledInv(d)'
  BY <1>1, <1>2, <1>3 DEF SettledInv
<1> QED
  BY <1>2, <1>4, <1>5, SoleOf

\* A client takes an entry to give it another sibling.
LEMMA SoleEdit ==
  ASSUME TreeInv, TreeInv', SoleInv, sole', NEW d \in Clients,
         NEW n \in Known, NEW m \in Known \ {Root}, Edit(d, n, m)
  PROVE  SoleInv'
<1> DEFINE e == [entries[n] EXCEPT !.sibling = m]
<1>1. /\ Acts(d) /\ Begin(d, "edit")
      /\ Kind(d)' = "edit" /\ pc'[d] = "link"
      /\ held'[d].entry = e
      /\ UNCHANGED <<last, new, reader, got>>
  <2>1. Acts(d)
    BY DEF Acts, BeginCall
  <2> QED
    BY <2>1 DEF Edit, Kind, Idle, walkVars, TreeInv, ShapeInv
<1>2. /\ Around(d) /\ \A x : Settled(x) => Settled(x)'
      /\ writers' \subseteq Clients /\ \A b, c \in writers' : b = c
      /\ d \in writers' /\ writers \subseteq {d}
      /\ BookSettled' /\ counter' = counter /\ sole
      /\ OwnInv(d) /\ SettledInv(d) /\ pc[d] = "idle"
      /\ n \in Address /\ m \in Address /\ Settled(m)
  BY <1>1, SoleBegin
<1>3. \A x \in LinksOf(e) : Settled(x)
  <2>1. entries[n] \in Entry
    BY <1>2 DEF TreeInv, ShapeInv
  <2>2. \A x \in LinksOf(e) : x = m \/ x \in LinksOf(entries[n])
    BY <2>1 DEF Entry, LinksOf
  <2> HIDE DEF e
  <2> QED
    BY <1>2, <2>2 DEF SoleInv, BookSettled
<1> HIDE DEF e
<1>4. OwnInv(d)'
  BY <1>1, <1>2 DEF OwnInv, TakesNew, Writing
<1>5. SettledInv(d)'
  BY <1>1, <1>2, <1>3 DEF SettledInv
<1> QED
  BY <1>2, <1>4, <1>5, SoleOf

\* A client makes a reader.
LEMMA SoleRead ==
  ASSUME TreeInv, TreeInv', SoleInv, sole', NEW d \in Clients,
         NEW n \in Known, NEW mode \in {"sibling", "child"}, Read(d, n, mode)
  PROVE  SoleInv'
<1>1. /\ Acts(d) /\ Begin(d, "read")
      /\ Kind(d)' = "read" /\ pc'[d] = "walk"
      /\ UNCHANGED <<last, new, held, writers>>
  <2>1. Acts(d)
    BY DEF Acts, BeginCall
  <2> QED
    BY <2>1 DEF Read, Begin, Kind, Idle, TreeInv, ShapeInv
<1>2. /\ Around(d) /\ \A m : Settled(m) => Settled(m)'
      /\ writers' \subseteq Clients /\ \A b, c \in writers' : b = c
      /\ BookSettled' /\ counter' = counter /\ sole
      /\ OwnInv(d) /\ SettledInv(d) /\ pc[d] = "idle"
      /\ n \in Address
  BY <1>1, SoleBegin
<1>3. reader'[d].buf = <<>> /\ got'[d] = <<>>
  BY <1>2, OpenReaderFacts DEF Read, TreeInv
<1>4. OwnInv(d)'
  BY <1>1, <1>2 DEF OwnInv, TakesNew, Writing
<1>5. SettledInv(d)'
  BY <1>1, <1>2, <1>3 DEF SettledInv
<1> QED
  BY <1>2, <1>4, <1>5, SoleOf

-----------------------------------------------------------------------------
(***************************************************************************)
(* The readers go on, and the calls that read before they write.           *)
(***************************************************************************)

\* A step in a call that leaves the book alone.
LEMMA SoleInside ==
  ASSUME TreeInv, SoleInv, sole, NEW d \in Clients, Acts(d),
         UNCHANGED <<entries, counter, inserted, writers>>,
         pc[d] # "count" \/ Kind(d) # "sibling"
  PROVE  /\ Around(d) /\ \A m : Settled(m) => Settled(m)'
         /\ writers' \subseteq Clients /\ \A b, c \in writers' : b = c
         /\ BookSettled' /\ OwnInv(d) /\ SettledInv(d)
<1>1. Around(d) /\ \A m : Settled(m) => Settled(m)'
  BY AroundActs
<1> QED
  BY <1>1, BookSettledKept DEF SoleInv

\* The reader at the end of its walk.
LEMMA SoleNoMore ==
  ASSUME TreeInv, SoleInv, sole', NEW d \in Clients, Acts(d),
         NEW kind, NEW next, NoMore(d, kind, next)
  PROVE  /\ Around(d) /\ \A m : Settled(m) => Settled(m)'
         /\ writers' \subseteq Clients /\ \A b, c \in writers' : b = c
         /\ BookSettled' /\ OwnInv(d) /\ SettledInv(d)
         /\ counter' = counter /\ sole
         /\ writers' = writers /\ call' = call /\ got' = got /\ last' = last
         /\ pc[d] = "walk" /\ Kind(d) = kind /\ Kind(d)' = kind /\ pc'[d] = next
         /\ \A i \in DOMAIN reader'[d].buf :
              \A m \in LinksOf(reader'[d].buf[i]) : Settled(m)
<1>1. /\ UNCHANGED <<entries, counter, inserted, writers, sole, call, got, last>>
      /\ pc[d] = "walk" /\ Kind(d) = kind /\ Kind(d)' = kind /\ pc'[d] = next
      /\ \/ reader'[d] = Buffered(reader[d])
         \/ reader'[d] = Closed
  BY DEF NoMore, bookVars, historyVars, Kind, TreeInv, ShapeInv
<1>2. /\ Around(d) /\ \A m : Settled(m) => Settled(m)'
      /\ writers' \subseteq Clients /\ \A b, c \in writers' : b = c
      /\ BookSettled' /\ OwnInv(d) /\ SettledInv(d)
  BY <1>1, SoleInside
<1>3. \A i \in DOMAIN reader'[d].buf :
        \A m \in LinksOf(reader'[d].buf[i]) : Settled(m)
  <2>1. CASE reader'[d] = Buffered(reader[d])
    BY <1>1, <2>1, BufferedSettled
  <2>2. CASE reader'[d] = Closed
    BY <2>2 DEF Closed
  <2> QED
    BY <1>1, <2>1, <2>2
<1> QED
  BY <1>1, <1>2, <1>3

\* insert_child has read all the children.
LEMMA SoleLastChild ==
  ASSUME TreeInv, TreeInv', SoleInv, sole', NEW d \in Clients, LastChild(d)
  PROVE  SoleInv'
<1> DEFINE item == IF got[d] = <<>>
                     THEN [held[d] EXCEPT !.entry.child = new[d]]
                     ELSE LinkedTo(Latest(d), new[d])
<1>1. /\ Acts(d) /\ NoMore(d, "child", "link") /\ new' = new
      /\ held'[d] = item
  BY DEF LastChild, Acts, Proceed, TreeInv, ShapeInv
<1>2. /\ Around(d) /\ \A m : Settled(m) => Settled(m)'
      /\ writers' \subseteq Clients /\ \A b, c \in writers' : b = c
      /\ BookSettled' /\ OwnInv(d) /\ SettledInv(d)
      /\ counter' = counter /\ sole
      /\ writers' = writers /\ call' = call /\ got' = got /\ last' = last
      /\ pc[d] = "walk" /\ Kind(d) = "child" /\ Kind(d)' = "child"
      /\ pc'[d] = "link"
      /\ \A i \in DOMAIN reader'[d].buf :
           \A m \in LinksOf(reader'[d].buf[i]) : Settled(m)
  BY <1>1, SoleNoMore
<1>3. new[d] \in Address /\ held[d] \in Item /\ Settled(new[d])
  BY <1>2 DEF TreeInv, ShapeInv, OwnInv, Settled
<1>4. \A m \in LinksOf(item.entry) : Settled(m)
  <2>1. CASE got[d] = <<>>
    <3>1. \A m \in LinksOf(held[d].entry) : Settled(m)
      BY <1>2 DEF SettledInv
    <3>2. item = [held[d] EXCEPT !.entry.child = new[d]]
      BY <2>1
    <3> HIDE DEF item
    <3> QED
      BY <1>3, <3>1, <3>2, ChildFacts
  <2>2. CASE got[d] # <<>>
    <3>1. PICK latest \in Item : latest = Latest(d)
      BY <2>2, LatestFacts
    <3>2. Len(got[d]) \in DOMAIN got[d]
      BY <2>2, EmptySeq, LenProperties DEF TreeInv, ShapeInv
    <3>3. \A m \in LinksOf(latest.entry) : Settled(m)
      BY <1>2, <3>1, <3>2 DEF SettledInv, Latest
    <3>4. item = LinkedTo(latest, new[d])
      BY <2>2, <3>1
    <3> HIDE DEF item
    <3> QED
      BY <1>3, <3>3, <3>4, SiblingFacts, SMTT(40)
  <2> QED
    BY <2>1, <2>2
<1> HIDE DEF item
<1>5. OwnInv(d)'
  BY <1>1, <1>2 DEF OwnInv, TakesNew, Writing, Opened
<1>6. SettledInv(d)'
  BY <1>1, <1>2, <1>4 DEF SettledInv
<1> QED
  BY <1>2, <1>5, <1>6, SoleOf

\* insert_sibling has read all the siblings: the address behind the last one is
\* free.
LEMMA SoleLastSibling ==
  ASSUME TreeInv, TreeInv', SoleInv, sole', NEW d \in Clients, LastSibling(d)
  PROVE  SoleInv'
<1> DEFINE next == last[d] + 1
           item == LinkedTo(Latest(d), next)
<1>1. /\ Acts(d) /\ NoMore(d, "sibling", "write") /\ got[d] # <<>>
      /\ new'[d] = next /\ held'[d] = item
  BY DEF LastSibling, Acts, Proceed, TreeInv, ShapeInv
<1>2. /\ Around(d) /\ \A m : Settled(m) => Settled(m)'
      /\ writers' \subseteq Clients /\ \A b, c \in writers' : b = c
      /\ BookSettled' /\ OwnInv(d) /\ SettledInv(d)
      /\ counter' = counter /\ sole
      /\ writers' = writers /\ call' = call /\ got' = got /\ last' = last
      /\ pc[d] = "walk" /\ Kind(d) = "sibling" /\ Kind(d)' = "sibling"
      /\ pc'[d] = "write"
      /\ \A i \in DOMAIN reader'[d].buf :
           \A m \in LinksOf(reader'[d].buf[i]) : Settled(m)
  BY <1>1, SoleNoMore
<1>3. next > Opened(counter)
  <2>1. d \in writers /\ writers \subseteq {d}
    BY <1>2 DEF OwnInv, Writing
  <2>2. last[d] >= Opened(counter)
    BY <1>2, <2>1 DEF OwnInv
  <2>3. last[d] \in Nat /\ Opened(counter) \in Nat
    BY CounterFacts
  <2> QED
    BY <2>2, <2>3
<1>4. next \in Address
  BY <1>1 DEF TreeInv, ShapeInv
<1> HIDE DEF next
<1>5. \A m \in LinksOf(item.entry) : Settled(m) \/ m = next
  <2>1. PICK latest \in Item : latest = Latest(d)
    BY <1>1, LatestFacts
  <2>2. Len(got[d]) \in DOMAIN got[d]
    BY <1>1, EmptySeq, LenProperties DEF TreeInv, ShapeInv
  <2>3. \A m \in LinksOf(latest.entry) : Settled(m)
    BY <1>2, <2>1, <2>2 DEF SettledInv, Latest
  <2>4. item = LinkedTo(latest, next)
    BY <2>1
  <2> HIDE DEF item
  <2> QED
    BY <1>4, <2>3, <2>4, SiblingFacts
<1> HIDE DEF item
<1>6. OwnInv(d)'
  BY <1>1, <1>2, <1>3 DEF OwnInv, TakesNew, Writing, Opened
<1>7. SettledInv(d)'
  BY <1>1, <1>2, <1>5 DEF SettledInv
<1> QED
  BY <1>2, <1>6, <1>7, SoleOf

\* insert_sibling has read nothing: it goes to its own argument.
LEMMA SoleNoSibling ==
  ASSUME TreeInv, TreeInv', SoleInv, sole', NEW d \in Clients, NoSibling(d)
  PROVE  SoleInv'
<1>1. /\ Acts(d) /\ NoMore(d, "sibling", "place") /\ held' = held
      /\ new'[d] = call[d].at
  BY DEF NoSibling, Acts, Proceed, TreeInv, ShapeInv
<1>2. /\ Around(d) /\ \A m : Settled(m) => Settled(m)'
      /\ writers' \subseteq Clients /\ \A b, c \in writers' : b = c
      /\ BookSettled' /\ OwnInv(d) /\ SettledInv(d)
      /\ counter' = counter /\ sole
      /\ writers' = writers /\ call' = call /\ got' = got /\ last' = last
      /\ pc[d] = "walk" /\ Kind(d) = "sibling" /\ Kind(d)' = "sibling"
      /\ pc'[d] = "place"
      /\ \A i \in DOMAIN reader'[d].buf :
           \A m \in LinksOf(reader'[d].buf[i]) : Settled(m)
  BY <1>1, SoleNoMore
<1>3. OwnInv(d)'
  BY <1>1, <1>2 DEF OwnInv, TakesNew, Writing, Opened
<1>4. SettledInv(d)'
  BY <1>1, <1>2 DEF SettledInv
<1> QED
  BY <1>2, <1>3, <1>4, SoleOf

\* A client has read to the end.
LEMMA SoleEndOfRead ==
  ASSUME TreeInv, TreeInv', SoleInv, sole', NEW d \in Clients, EndOfRead(d)
  PROVE  SoleInv'
<1>1. /\ Acts(d) /\ NoMore(d, "read", "idle") /\ UNCHANGED <<new, held>>
  BY DEF EndOfRead, Acts, Proceed
<1>2. /\ Around(d) /\ \A m : Settled(m) => Settled(m)'
      /\ writers' \subseteq Clients /\ \A b, c \in writers' : b = c
      /\ BookSettled' /\ OwnInv(d) /\ SettledInv(d)
      /\ counter' = counter /\ sole
      /\ writers' = writers /\ call' = call /\ got' = got /\ last' = last
      /\ pc[d] = "walk" /\ Kind(d) = "read" /\ Kind(d)' = "read"
      /\ pc'[d] = "idle"
      /\ \A i \in DOMAIN reader'[d].buf :
           \A m \in LinksOf(reader'[d].buf[i]) : Settled(m)
  BY <1>1, SoleNoMore
<1>3. OwnInv(d)'
  BY <1>1, <1>2 DEF OwnInv, TakesNew, Writing, Opened
<1>4. SettledInv(d)'
  BY <1>1, <1>2 DEF SettledInv
<1> QED
  BY <1>2, <1>3, <1>4, SoleOf

\* A reader returns an entry.
LEMMA SoleStep ==
  ASSUME TreeInv, TreeInv', SoleInv, sole', NEW d \in Clients, Step(d)
  PROVE  SoleInv'
<1> DEFINE r    == Buffered(reader[d])
           item == [at |-> r.offset, entry |-> EntryAt(r)]
<1>1. /\ Acts(d) /\ pc[d] = "walk"
      /\ UNCHANGED <<entries, counter, inserted, writers, sole, last, pc, call,
                     new, held>>
      /\ reader'[d].buf = r.buf
      /\ got'[d] = Append(got[d], item)
  <2>1. r \in Reader
    BY BufferedFacts
  <2>2. /\ Acts(d) /\ pc[d] = "walk"
        /\ UNCHANGED <<entries, counter, inserted, writers, sole, last, pc,
                       call, new, held>>
        /\ reader'[d] = [r EXCEPT !.offset = NextOffset(d, r)]
        /\ got'[d] = Append(got[d], item)
    BY DEF Step, Acts, Proceed, bookVars, historyVars, TreeInv, ShapeInv
  <2> HIDE DEF r
  <2> QED
    BY <2>1, <2>2 DEF Reader
<1>2. /\ Around(d) /\ \A m : Settled(m) => Settled(m)'
      /\ writers' \subseteq Clients /\ \A b, c \in writers' : b = c
      /\ BookSettled' /\ OwnInv(d) /\ SettledInv(d)
  BY <1>1, SoleInside
<1>3. \A i \in DOMAIN r.buf : \A m \in LinksOf(r.buf[i]) : Settled(m)
  BY <1>1, BufferedSettled
<1>4. \A m \in LinksOf(item.entry) : Settled(m)
  <2>1. r.offset - r.from + 1 \in DOMAIN r.buf
    BY BufferedFacts
  <2>2. item.entry = r.buf[r.offset - r.from + 1]
    BY DEF EntryAt
  <2> HIDE DEF r, item
  <2> QED
    BY <1>3, <2>1, <2>2
<1> HIDE DEF r, item
<1>5. \A i \in DOMAIN got'[d] : \A m \in LinksOf(got'[d][i].entry) : Settled(m)
  <2>1. got[d] \in Seq(Item)
    BY DEF TreeInv, ShapeInv
  <2>2. \A i \in DOMAIN got[d] : \A m \in LinksOf(got[d][i].entry) : Settled(m)
    BY <1>2 DEF SettledInv
  <2>3. \A i \in DOMAIN Append(got[d], item) :
          \/ i \in DOMAIN got[d] /\ Append(got[d], item)[i] = got[d][i]
          \/ Append(got[d], item)[i] = item
    BY <2>1
  <2> QED
    BY <1>1, <1>4, <2>2, <2>3
<1>6. OwnInv(d)'
  BY <1>1, <1>2 DEF OwnInv, TakesNew, Writing, Opened, Kind
<1>7. SettledInv(d)'
  BY <1>1, <1>2, <1>3, <1>5 DEF SettledInv, Kind
<1> QED
  BY <1>1, <1>2, <1>6, <1>7, SoleOf

\* insert_child finds that the parent has no child, or reads its children.
LEMMA SoleAttach ==
  ASSUME TreeInv, TreeInv', SoleInv, sole', NEW d \in Clients, Attach(d)
  PROVE  SoleInv'
<1> DEFINE child == held[d].entry.child
           item  == [held[d] EXCEPT !.entry.child = new[d]]
<1>1. /\ Acts(d) /\ pc[d] = "attach"
      /\ UNCHANGED <<entries, counter, inserted, writers, sole, last, call, new>>
  BY DEF Attach, Acts, Proceed, bookVars, historyVars
<1>2. /\ Around(d) /\ \A m : Settled(m) => Settled(m)'
      /\ writers' \subseteq Clients /\ \A b, c \in writers' : b = c
      /\ BookSettled' /\ OwnInv(d) /\ SettledInv(d)
  BY <1>1, SoleInside
<1>3. Kind(d) = "child" /\ Kind(d)' = "child"
  BY <1>1 DEF TreeInv, CallInv, KindInv, Kind
<1>4. new[d] \in Address /\ held[d] \in Item /\ Settled(new[d])
  BY <1>1, <1>2, <1>3 DEF TreeInv, ShapeInv, OwnInv, Settled
<1>5. \A m \in LinksOf(held[d].entry) : Settled(m)
  BY <1>2, <1>3 DEF SettledInv
<1>6. CASE child = 0
  <2>1. held'[d] = item /\ pc'[d] = "link" /\ UNCHANGED <<reader, got>>
    BY <1>6 DEF Attach, walkVars, TreeInv, ShapeInv
  <2>2. \A m \in LinksOf(item.entry) : Settled(m)
    BY <1>4, <1>5, ChildFacts
  <2> HIDE DEF item
  <2>3. OwnInv(d)'
    BY <1>1, <1>2, <1>3, <2>1 DEF OwnInv, TakesNew, Writing, Opened
  <2>4. SettledInv(d)'
    BY <1>2, <2>1, <2>2 DEF SettledInv
  <2> QED
    BY <1>1, <1>2, <2>3, <2>4, SoleOf
<1>7. CASE child # 0
  <2>1. OpenReader(d, child) /\ pc'[d] = "walk" /\ UNCHANGED held
    BY <1>7 DEF Attach, TreeInv, ShapeInv
  <2>2. child \in Address
    BY <1>4, <1>7 DEF Item, Entry, Target
  <2> HIDE DEF child
  <2>3. reader'[d].buf = <<>> /\ got'[d] = <<>>
    BY <2>1, <2>2, OpenReaderFacts DEF TreeInv
  <2>4. OwnInv(d)'
    BY <1>1, <1>2, <1>3, <2>1 DEF OwnInv, TakesNew, Writing, Opened
  <2>5. SettledInv(d)'
    BY <1>2, <1>5, <2>1, <2>3 DEF SettledInv
  <2> QED
    BY <1>1, <1>2, <2>4, <2>5, SoleOf
<1> QED
  BY <1>6, <1>7

-----------------------------------------------------------------------------
(***************************************************************************)
(* The writes.                                                             *)
(***************************************************************************)

\* A write of an entry with links to what is taken, or soon counted.
LEMMA SoleStore ==
  ASSUME TreeInv, SoleInv, sole, NEW d \in Clients, Acts(d),
         NEW n \in Address, NEW e, Store(d, n, e), pc[d] # "count",
         \A m \in LinksOf(e) : Settled(m) \/ Settled(m)',
         \A m \in inserted' : m \in inserted \/ m <= Opened(counter)
  PROVE  /\ Around(d) /\ \A m : Settled(m) => Settled(m)'
         /\ writers' \subseteq Clients /\ \A b, c \in writers' : b = c
         /\ BookSettled' /\ OwnInv(d) /\ SettledInv(d)
         /\ UNCHANGED <<counter, new, call, got, writers>>
<1>1. UNCHANGED <<counter, new, call, got, writers>>
  BY DEF Store, historyVars
<1>2. Around(d) /\ \A m : Settled(m) => Settled(m)'
  BY <1>1, AroundActs
<1>3. \A k \in Address : LinksOf(entries[k])' = LinksOf(e)
                         \/ LinksOf(entries[k])' = LinksOf(entries[k])
  BY DEF Store, LinksOf, TreeInv, ShapeInv
<1>4. \A k \in Address : \A m \in LinksOf(entries[k])' : Settled(m)'
  BY <1>2, <1>3 DEF SoleInv, BookSettled
<1>5. \A m \in inserted' : m <= Opened(counter)'
  BY <1>1 DEF SoleInv, BookSettled, Opened
<1> QED
  BY <1>1, <1>2, <1>4, <1>5 DEF SoleInv, BookSettled

\* The new entry is written to a free address.
LEMMA SoleWriteEntry ==
  ASSUME TreeInv, TreeInv', SoleInv, sole', NEW d \in Clients, WriteEntry(d)
  PROVE  SoleInv'
<1> DEFINE e    == NewEntry(call[d].name)
           next == IF Kind(d) = "child" THEN "count" ELSE "link"
<1>1. /\ Acts(d) /\ pc[d] = "write" /\ Store(d, new[d], e) /\ GoOn(d, next)
      /\ UNCHANGED <<last, held, reader>> /\ sole
  BY DEF WriteEntry, Acts, Proceed, Kind, Store, historyVars
<1>2. Kind(d) \in {"child", "sibling"} /\ call[d].name \in Names
  BY <1>1 DEF TreeInv, CallInv, KindInv
<1>3. LinksOf(e) = {} /\ new[d] \in Address
  BY <1>2, EntryFacts DEF TreeInv, ShapeInv
<1>4. next \in {"count", "link"} /\ (next = "link" <=> Kind(d) = "sibling")
  BY <1>2
<1> HIDE DEF e, next
<1>5. pc'[d] = next /\ inserted' = inserted
  BY <1>1, <1>4 DEF GoOn, TreeInv, ShapeInv
<1>6. /\ Around(d) /\ \A m : Settled(m) => Settled(m)'
      /\ writers' \subseteq Clients /\ \A b, c \in writers' : b = c
      /\ BookSettled' /\ OwnInv(d) /\ SettledInv(d)
      /\ UNCHANGED <<counter, new, call, got, writers>>
  BY <1>1, <1>3, <1>5, SoleStore
<1>7. OwnInv(d)'
  BY <1>1, <1>2, <1>4, <1>5, <1>6 DEF OwnInv, TakesNew, Writing, Opened, Kind
<1>8. SettledInv(d)'
  BY <1>1, <1>2, <1>4, <1>5, <1>6 DEF SettledInv, Kind
<1> QED
  BY <1>6, <1>7, <1>8, SoleOf

\* The entry with the new link is written back.
LEMMA SoleLink ==
  ASSUME TreeInv, TreeInv', SoleInv, sole', NEW d \in Clients, Link(d)
  PROVE  SoleInv'
<1> DEFINE n    == held[d].at
           e    == held[d].entry
           next == IF Kind(d) = "sibling" THEN "count" ELSE "idle"
<1>1. /\ Acts(d) /\ pc[d] = "link" /\ Store(d, n, e) /\ GoOn(d, next)
      /\ held'[d].entry = Empty /\ UNCHANGED <<last, reader, new, call>> /\ sole
  BY DEF Link, Acts, Proceed, Kind, Store, historyVars, Nobody, TreeInv, ShapeInv
<1>2. Kind(d) \in {"child", "sibling", "edit"} /\ OwnInv(d) /\ SettledInv(d)
  BY <1>1 DEF TreeInv, CallInv, KindInv, SoleInv
<1>3. n \in Address
  BY DEF TreeInv, ShapeInv, Item
<1>4. pc'[d] = next
  BY <1>1 DEF GoOn, TreeInv, ShapeInv
<1>5. \A m \in LinksOf(e) : Settled(m) \/ Settled(m)'
  <2> SUFFICES ASSUME NEW m, m = new[d], Kind(d) = "sibling"
               PROVE  Settled(m)'
    BY <1>2 DEF SettledInv
  <2> QED
    BY <1>1, <1>4 DEF Settled, Pending, Kind, TreeInv, ShapeInv
<1>6. \A m \in inserted' : m \in inserted \/ m <= Opened(counter)
  BY <1>1, <1>2 DEF GoOn, OwnInv, Kind
<1>7. next \in {"count", "idle"} /\ (next = "count" <=> Kind(d) = "sibling")
  OBVIOUS
<1> HIDE DEF n, e, next
<1>8. /\ Around(d) /\ \A m : Settled(m) => Settled(m)'
      /\ writers' \subseteq Clients /\ \A b, c \in writers' : b = c
      /\ BookSettled'
      /\ UNCHANGED <<counter, new, call, got, writers>>
  BY <1>1, <1>3, <1>5, <1>6, SoleStore
<1>9. OwnInv(d)'
  BY <1>1, <1>2, <1>4, <1>7, <1>8 DEF OwnInv, TakesNew, Writing, Opened, Kind
<1>10. SettledInv(d)'
  BY <1>1, <1>2, <1>8, EntryFacts DEF SettledInv
<1> QED
  BY <1>8, <1>9, <1>10, SoleOf

\* insert_sibling writes the entry to the offset it was given.
LEMMA SolePlace ==
  ASSUME TreeInv, TreeInv', SoleInv, sole', NEW d \in Clients, Place(d)
  PROVE  SoleInv'
<1> DEFINE e == NewEntry(call[d].name)
<1>1. /\ Acts(d) /\ pc[d] = "place" /\ Store(d, new[d], e) /\ GoOn(d, "idle")
      /\ UNCHANGED <<last, held, reader>> /\ sole
  BY DEF Place, Acts, Proceed, Store, historyVars
<1>2. Kind(d) = "sibling" /\ call[d].name \in Names /\ OwnInv(d)
  BY <1>1 DEF TreeInv, CallInv, KindInv, SoleInv
<1>3. LinksOf(e) = {} /\ new[d] \in Address
  BY <1>2, EntryFacts DEF TreeInv, ShapeInv
<1> HIDE DEF e
<1>4. pc'[d] = "idle" /\ \A m \in inserted' : m \in inserted \/ m <= Opened(counter)
  BY <1>1, <1>2 DEF GoOn, OwnInv, TreeInv, ShapeInv
<1>5. /\ Around(d) /\ \A m : Settled(m) => Settled(m)'
      /\ writers' \subseteq Clients /\ \A b, c \in writers' : b = c
      /\ BookSettled' /\ SettledInv(d)
      /\ UNCHANGED <<counter, new, call, got, writers>>
  BY <1>1, <1>3, <1>4, SoleStore
<1>6. OwnInv(d)'
  BY <1>1, <1>2, <1>4, <1>5 DEF OwnInv, TakesNew, Writing, Opened, Kind
<1>7. SettledInv(d)'
  BY <1>1, <1>4, <1>5 DEF SettledInv, Kind
<1> QED
  BY <1>5, <1>6, <1>7, SoleOf

\* The new entry is counted: its address is taken.
LEMMA SoleCount ==
  ASSUME TreeInv, TreeInv', SoleInv, sole', NEW d \in Clients, Count(d)
  PROVE  SoleInv'
<1> DEFINE next == IF Kind(d) = "child" THEN "attach" ELSE "idle"
<1>1. /\ Acts(d) /\ pc[d] = "count" /\ GoOn(d, next)
      /\ last'[d] = new[d] /\ counter' = new[d]
      /\ UNCHANGED <<entries, call, new, held, reader, got, writers, sole>>
  BY DEF Count, Acts, Proceed, Kind, walkVars, historyVars, TreeInv, ShapeInv
<1>2. /\ Kind(d) \in {"child", "sibling"} /\ Kind(d)' = Kind(d)
      /\ OwnInv(d) /\ SettledInv(d)
  BY <1>1 DEF TreeInv, CallInv, KindInv, SoleInv, Kind
<1>3. Writing(d) /\ d \in writers
  BY <1>1, <1>2 DEF OwnInv, Writing
<1>4. /\ next \in {"attach", "idle"} /\ (next = "attach" <=> Kind(d) = "child")
  OBVIOUS
<1> HIDE DEF next
<1>5. /\ new[d] \in Address /\ new[d] \in Nat /\ Opened(counter) \in Nat
      /\ Opened(counter') = new[d] /\ new[d] > Opened(counter)
  <2>1. new[d] \in Address
    BY DEF TreeInv, ShapeInv
  <2>2. new[d] > Opened(counter)
    BY <1>1, <1>2 DEF OwnInv, TakesNew
  <2> QED
    BY <1>1, <2>1, <2>2, CounterFacts
<1>6. \A m \in Address : m <= Opened(counter) => m <= Opened(counter')
  BY <1>5, CounterFacts
<1>7. \A c \in Clients : c # d =>
        /\ pc'[c] = pc[c] /\ call'[c] = call[c] /\ new'[c] = new[c]
        /\ last'[c] = last[c] /\ held'[c] = held[c]
        /\ reader'[c] = reader[c] /\ got'[c] = got[c]
  BY <1>1, OthersSee
<1>8. ASSUME NEW m, Settled(m)
      PROVE  Settled(m)'
  <2>1. CASE m <= Opened(counter)
    BY <1>6, <1>8, <2>1 DEF Settled, Opened
  <2>2. CASE Pending(m)
    <3>1. PICK c \in Clients :
            pc[c] = "count" /\ Kind(c) = "sibling" /\ m = new[c]
      BY <2>2 DEF Pending
    <3>2. c = d
      BY <1>1, <1>3, <3>1 DEF SoleInv, OwnInv, Writing
    <3>3. m <= Opened(counter')
      BY <1>5, <3>1, <3>2
    <3> QED
      BY <1>8, <3>3 DEF Settled, Opened
  <2> QED
    BY <1>8, <2>1, <2>2 DEF Settled
<1>9. Around(d)
  <2>1. counter' \in Address /\ counter' >= Opened(counter)
    BY <1>1, <1>5
  <2> QED
    BY <1>1, <1>3, <1>7, <1>8, <2>1 DEF Around
<1>10. BookSettled'
  <2>1. \A k \in Address : \A m \in LinksOf(entries[k])' : Settled(m)'
    BY <1>1, <1>8 DEF SoleInv, BookSettled, LinksOf
  <2>2. \A m \in inserted' : m \in inserted \/ m = new[d]
    BY <1>1 DEF GoOn
  <2>3. \A m \in inserted : m \in Address /\ m <= Opened(counter)
    BY <1>1 DEF SoleInv, BookSettled, TreeInv, ShapeInv
  <2>4. \A m \in inserted' : m <= Opened(counter')
    BY <1>5, <1>6, <2>2, <2>3
  <2> QED
    BY <2>1, <2>4 DEF BookSettled, Opened
<1>11. pc'[d] = next /\ last'[d] = new[d] /\ new'[d] = new[d]
  BY <1>1 DEF GoOn, TreeInv, ShapeInv
<1>12. OwnInv(d)'
  <2>1. Kind(d) = "sibling" => call[d].at <= Opened(counter')
    <3>1. Kind(d) = "sibling" => call[d].at <= Opened(counter)
      BY <1>2 DEF OwnInv
    <3>2. call[d].at \in Address
      BY DEF TreeInv, ShapeInv, Call
    <3> QED
      BY <1>6, <3>1, <3>2
  <2>2. new[d] <= Opened(counter') /\ new[d] >= Opened(counter')
    BY <1>5
  <2>3. Writing(d)' => d \in writers'
    BY <1>1, <1>3
  <2>4. ~ TakesNew(d)' /\ pc'[d] # "place"
    BY <1>4, <1>11 DEF TakesNew
  <2> QED
    BY <1>1, <1>2, <1>11, <2>1, <2>2, <2>3, <2>4 DEF OwnInv, Opened
<1>13. SettledInv(d)'
  BY <1>1, <1>2, <1>8 DEF SettledInv
<1>14. writers' \subseteq Clients /\ \A b, c \in writers' : b = c
  BY <1>1 DEF SoleInv
<1> QED
  BY <1>9, <1>10, <1>12, <1>13, <1>14, SoleOf

-----------------------------------------------------------------------------
\* The book is opened again: nothing is linked that is not counted.
LEMMA SoleCrash ==
  ASSUME TreeInv, TreeInv', SoleInv, sole', Crash
  PROVE  SoleInv'
<1> DEFINE opened == Opened(counter)
<1>1. /\ UNCHANGED <<entries, counter>> /\ inserted' = {} /\ writers' = {}
      /\ sole /\ \A c \in Clients : ~ (pc[c] = "count" /\ Kind(c) = "sibling")
      /\ last' = [c \in Clients |-> opened]
      /\ pc' = [c \in Clients |-> "idle"]
      /\ call' = [c \in Clients |-> Idle]
      /\ held' = [c \in Clients |-> Nobody]
      /\ reader' = [c \in Clients |-> Closed]
      /\ got' = [c \in Clients |-> <<>>]
  BY DEF Crash, bookVars, Kind
<1> HIDE DEF opened
<1>2. Opened(counter)' = opened /\ opened \in Nat
  BY <1>1, CounterFacts DEF opened, Opened
<1>3. \A m : Settled(m) => Settled(m)'
  BY <1>1 DEF Settled, Pending, Opened
<1>4. BookSettled'
  <2>1. \A k \in Address : \A m \in LinksOf(entries[k])' : Settled(m)'
    BY <1>1, <1>3 DEF SoleInv, BookSettled, LinksOf
  <2> QED
    BY <1>1, <2>1 DEF BookSettled
<1>5. ASSUME NEW c \in Clients
      PROVE  OwnInv(c)' /\ SettledInv(c)'
  <2>1. /\ pc'[c] = "idle" /\ Kind(c)' = "none" /\ last'[c] = opened
        /\ reader'[c].buf = <<>> /\ got'[c] = <<>> /\ held'[c].entry = Empty
    BY <1>1 DEF Kind, Idle, Closed, Nobody
  <2>2. OwnInv(c)'
    BY <1>2, <2>1 DEF OwnInv, Writing, TakesNew
  <2>3. SettledInv(c)'
    BY <2>1, EntryFacts DEF SettledInv
  <2> QED
    BY <2>2, <2>3
<1> QED
  BY <1>1, <1>4, <1>5 DEF SoleInv

\* Nothing happens but in the pages of the book.
LEMMA SoleSame ==
  ASSUME SoleInv, UNCHANGED <<entries, counter, last, pc, call, new, held, reader,
                              got, inserted, writers, sole>>
  PROVE  SoleInv'
<1>1. \A m : Settled(m)' <=> Settled(m)
  BY DEF Settled, Pending, Kind, Opened
<1>2. \A c \in Clients : OwnInv(c) => OwnInv(c)'
  BY DEF OwnInv, Writing, TakesNew, Kind, Opened
<1>3. \A c \in Clients : SettledInv(c) => SettledInv(c)'
  BY <1>1 DEF SettledInv, LinksOf, Kind
<1>4. BookSettled => BookSettled'
  BY <1>1 DEF BookSettled, LinksOf, Opened
<1> QED
  BY <1>2, <1>3, <1>4 DEF SoleInv

LEMMA SoleStutter ==
  ASSUME SoleInv, UNCHANGED vars
  PROVE  SoleInv'
BY SoleSame DEF vars, bookVars, walkVars, historyVars

\* A page is found missing, or added where none was.
LEMMA SoleGrow ==
  ASSUME TreeInv, EdgeInv, SoleInv, NEW c \in Clients, Missing(c) \/ Extend(c),
         ~ raced'
  PROVE  SoleInv'
BY GrowEntries, SoleSame DEF TreeInv, Missing, Extend, bookVars, walkVars, historyVars

\* The invariant, until a page is unlinked.
SolePagedInv == raced \/ SoleInv

\* Every step keeps it.
LEMMA SoleStepInv ==
  ASSUME PagedInv, PagedInv', SolePagedInv, [Next]_vars
  PROVE  SolePagedInv'
<1>1. CASE raced' \/ ~ sole'
  BY <1>1 DEF SolePagedInv, SoleInv
<1>2. CASE ~ raced' /\ sole' /\ UNCHANGED vars
  BY <1>2, SoleStutter DEF SolePagedInv, vars, pageVars
<1>3. CASE ~ raced' /\ sole' /\ Next
  <2>1. SoleInv /\ TreeInv /\ TreeInv' /\ EdgeInv
    BY <1>3, NextIsActs DEF SolePagedInv, PagedInv
  <2>2. ASSUME NEW d \in Clients, NEW n \in Known, BeginCall(d, n)
        PROVE  SoleInv'
    BY <1>3, <2>1, <2>2, SoleInsertChild, SoleInsertSibling, SoleEdit, SoleRead
       DEF BeginCall
  <2>3. ASSUME NEW d \in Clients, Proceed(d)
        PROVE  SoleInv'
    BY <1>3, <2>1, <2>3, SoleStep, SoleLastChild, SoleLastSibling, SoleNoSibling,
       SoleEndOfRead, SoleWriteEntry, SoleCount, SoleAttach, SoleLink,
       SolePlace DEF Proceed
  <2>4. ASSUME Crash
        PROVE  SoleInv'
    BY <1>3, <2>1, <2>4, SoleCrash
  <2>5. ASSUME NEW d \in Clients, Missing(d) \/ Extend(d)
        PROVE  SoleInv'
    BY <1>3, <2>1, <2>5, SoleGrow
  <2> QED
    BY <1>3, <2>2, <2>3, <2>4, <2>5, NextIsActs DEF SolePagedInv, Acts
<1> QED
  BY <1>1, <1>2, <1>3

\* The new address that an insertion takes is of no entry in the tree, also after
\* a crash and the next opening, as long as one clone alone is written through,
\* no crash comes between the link and the counter of insert_sibling and no
\* page is unlinked.  What insert_sibling writes without a new address is
\* another matter.
THEOREM NewEntriesAreNew == Spec => []NewEntryIsNew
<1>1. PagedInv /\ SolePagedInv => NewEntryIsNew
  <2> SUFFICES ASSUME TreeInv, SoleInv, sole, NEW c \in Clients, pc[c] = "write",
                      NEW n \in Address, new[c] \in Linked(n)
               PROVE  FALSE
    BY DEF NewEntryIsNew, PagedInv, SolePagedInv
  <2>1. OwnInv(c) /\ KindInv(c) /\ Settled(new[c])
    BY DEF SoleInv, BookSettled, TreeInv, CallInv, Linked, LinksOf
  <2>2. c \in writers /\ new[c] > Opened(counter)
    BY <2>1 DEF OwnInv, KindInv, Writing, TakesNew
  <2>3. ~ (new[c] <= Opened(counter))
    BY <2>2, CounterFacts
  <2>4. PICK d \in Clients : pc[d] = "count" /\ Kind(d) = "sibling"
    BY <2>1, <2>3 DEF Settled, Pending
  <2>5. d \in writers
    BY <2>4 DEF SoleInv, OwnInv, Writing
  <2> QED
    BY <2>2, <2>4, <2>5 DEF SoleInv
<1>2. Init => SolePagedInv
  BY SoleInitInv DEF SolePagedInv
<1> QED
  BY <1>1, <1>2, SoleStepInv, PagedAlwaysInv, PTL DEF Spec

=============================================================================
