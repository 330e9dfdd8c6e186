------------------------------ MODULE EntryTree ------------------------------
(***************************************************************************)
(* The tree of filesystem entries (src/filesystem/entry.rs), kept in a     *)
(* Book: the address of the last entry, then the entries one behind the    *)
(* other, each with a link to its next sibling and one to its first child. *)
(*                                                                         *)
(* Clients hold clones of one FilesystemTree.  A step is one read or write *)
(* of the book with the straight code behind it, as long as it stays on    *)
(* pages that are linked.  One that goes beyond them, a read as well as a  *)
(* write, first finds the next page missing and then links a new one       *)
(* (Page::create_next_page), and other clones come in between.  Addresses  *)
(* are counted in entries: entry k lies at offset 8 + 32 * (k - 1), and 0  *)
(* is no address.                                                          *)
(***************************************************************************)
EXTENDS Naturals, Sequences, FiniteSets

CONSTANTS
  Clients,    \* threads that hold a clone of the tree
  Kinds,      \* the calls they make: "child", "sibling", "edit", "read"
  Names,      \* hashes of names
  NoName,     \* the hash 0
  BufEntries, \* entries that a reader reads from the book at once: BUF_SIZE / 32
  PageEntries, \* entries to a page; one that lies on two belongs to the second
  MaxCalls,   \* bound: calls
  MaxCrashes  \* bound: crashes of the process

ASSUME EntryTreeAssumption ==
  /\ NoName \notin Names
  /\ BufEntries \in Nat \ {0}
  /\ PageEntries \in Nat \ {0}
  /\ MaxCalls \in Nat
  /\ MaxCrashes \in Nat

VARIABLES
  entries,  \* book: the entries
  counter,  \* book: the address of the last entry, 0 when it was never written
  edge,     \* book: the last address on its linked pages
  growing,  \* the edge behind which a client's call has found no next page, or 0
  raced,    \* history: a page was unlinked by a second one for the same place
  last,     \* last_entry_addr of each clone
  pc,       \* what a client's call does next
  call,     \* the call and its arguments
  new,      \* the address the inserted entry gets
  held,     \* the entry that is to be written back, and its address
  reader,   \* the reader: offset, buf_offset and buf
  got,      \* what the reader has returned
  quiet,    \* history: no entry was written since the reader was made
  inserted, \* history: addresses that insertions have returned since the opening
  writers,  \* history: clones that have been written through since the opening
  sole,     \* history: they were never two, and no crash left an entry linked
            \*          and not counted
  calls, crashes

bookVars    == <<entries, counter>>
pageVars    == <<edge, growing, raced>>
walkVars    == <<reader, got>>
historyVars == <<writers, sole, calls, crashes>>
vars == <<bookVars, pageVars, last, pc, call, new, held, walkVars, quiet, inserted, historyVars>>

Root == 1

\* Every call takes one new address at most.
Address == 1 .. MaxCalls + 1

NewEntry(name) == [name |-> name, sibling |-> 0, child |-> 0]

\* FilesystemEntry::is_empty, and what a book holds where nothing was written.
Empty == NewEntry(NoName)

\* Mutant of Opened: a new tree starts from the counter it does not have yet.
OpenedAtCounter(n) == n

\* FilesystemTree::open
Opened(n) == IF n = 0 THEN Root ELSE n

Idle   == [kind |-> "none", at |-> Root, name |-> NoName, mode |-> "sibling"]
Closed == [offset |-> Root, from |-> Root, buf |-> <<>>]
Nobody == [at |-> Root, entry |-> Empty]

Init ==
  /\ entries = [n \in Address |-> Empty]
  /\ counter = 0
  /\ edge = PageEntries
  /\ growing = [c \in Clients |-> 0]
  /\ raced = FALSE
  /\ last = [c \in Clients |-> Opened(counter)]
  /\ pc = [c \in Clients |-> "idle"]
  /\ call = [c \in Clients |-> Idle]
  /\ new = [c \in Clients |-> Root]
  /\ held = [c \in Clients |-> Nobody]
  /\ reader = [c \in Clients |-> Closed]
  /\ got = [c \in Clients |-> <<>>]
  /\ quiet = [c \in Clients |-> TRUE]
  /\ inserted = {}
  /\ writers = {}
  /\ sole = TRUE
  /\ calls = 0
  /\ crashes = 0

-----------------------------------------------------------------------------
(***************************************************************************)
(* The calls, up to their first access to the book.                        *)
(***************************************************************************)

\* Mutant of Successor: the two links are swapped.
SuccessorSwapped(e, mode) == IF mode = "child" THEN e.sibling ELSE e.child

\* The link that a reader of the given mode follows.
Successor(e, mode) == IF mode = "sibling" THEN e.sibling ELSE e.child

\* What is linked from n, through any number of links.
Linked(n) == {entries[n].sibling, entries[n].child} \ {0}

Reachable(n) ==
  LET within[d \in 0 .. MaxCalls + 1] ==
        IF d = 0 THEN {n}
        ELSE LET before == within[d - 1] IN
               before \cup UNION {Linked(m) : m \in before}
  IN  within[MaxCalls + 1]

\* The addresses that callers know: those that readers lead to, and those that
\* insertions have returned.
Known == Reachable(Root) \cup inserted

Begin(c, kind) ==
  /\ kind \in Kinds
  /\ pc[c] = "idle"
  /\ calls < MaxCalls
  /\ calls' = calls + 1
  /\ IF kind = "read" THEN UNCHANGED <<writers, sole>>
     ELSE /\ writers' = writers \cup {c}
          /\ sole' = (sole /\ writers \subseteq {c})
  /\ UNCHANGED <<bookVars, inserted, crashes>>

\* FilesystemTree::reader
OpenReader(c, n) ==
  /\ reader' = [reader EXCEPT ![c] = [Closed EXCEPT !.offset = n]]
  /\ got' = [got EXCEPT ![c] = <<>>]

\* Mutant of NextAddress: the address of the last entry is used again.
LastAddress(c) == last[c]

\* The address behind the last entry, as far as this clone knows.
NextAddress(c) == last[c] + 1

\* insert_child reads the parent and takes an address.
InsertChild(c, parent, name) ==
  /\ Begin(c, "child")
  /\ call' = [call EXCEPT ![c] = [Idle EXCEPT !.kind = "child", !.name = name]]
  /\ held' = [held EXCEPT ![c] = [at |-> parent, entry |-> entries[parent]]]
  /\ new' = [new EXCEPT ![c] = NextAddress(c)]
  /\ last' = [last EXCEPT ![c] = NextAddress(c)]
  /\ pc' = [pc EXCEPT ![c] = "write"]
  /\ UNCHANGED <<walkVars, quiet>>

\* insert_sibling makes a reader.
InsertSibling(c, n, name) ==
  /\ Begin(c, "sibling")
  /\ call' = [call EXCEPT ![c] =
                [Idle EXCEPT !.kind = "sibling", !.at = n, !.name = name]]
  /\ OpenReader(c, n)
  /\ pc' = [pc EXCEPT ![c] = "walk"]
  /\ UNCHANGED <<last, new, held, quiet>>

\* A client reads entry n to write it with m as its sibling (read and write are
\* public).  It is accurate not to create a cycle, as entry.rs:290 asks.
Edit(c, n, m) ==
  /\ n \notin Reachable(m)
  /\ Begin(c, "edit")
  /\ call' = [call EXCEPT ![c] = [Idle EXCEPT !.kind = "edit"]]
  /\ held' = [held EXCEPT ![c] =
                [at |-> n, entry |-> [entries[n] EXCEPT !.sibling = m]]]
  /\ pc' = [pc EXCEPT ![c] = "link"]
  /\ UNCHANGED <<last, new, walkVars, quiet>>

\* A client makes a reader to read it to its end.
Read(c, n, mode) ==
  /\ Begin(c, "read")
  /\ call' = [call EXCEPT ![c] =
                [Idle EXCEPT !.kind = "read", !.at = n, !.mode = mode]]
  /\ OpenReader(c, n)
  /\ quiet' = [quiet EXCEPT ![c] = TRUE]
  /\ pc' = [pc EXCEPT ![c] = "walk"]
  /\ UNCHANGED <<last, new, held>>

-----------------------------------------------------------------------------
(***************************************************************************)
(* FilesystemTreeReader::next, called until it returns None.               *)
(***************************************************************************)

\* A book reads as zeros where nothing was written.
FromBook(n) == IF n \in Address THEN entries[n] ELSE Empty

\* The offset is outside of what is buffered.
Outside(r) ==
  r.buf = <<>> \/ r.offset > r.from + BufEntries - 1 \/ r.from > r.offset

\* The reader once its buffer holds the entry at its offset.
Buffered(r) ==
  IF Outside(r)
    THEN [offset |-> r.offset, from |-> r.offset,
          buf |-> [i \in 1 .. BufEntries |-> FromBook(r.offset + i - 1)]]
    ELSE r

EntryAt(r) == r.buf[r.offset - r.from + 1]

\* The offset that next goes on with, 0 when it returns None.
NextOffset(c, r) ==
  IF EntryAt(r) = Empty THEN 0 ELSE Successor(EntryAt(r), call[c].mode)

\* Bound: the entries that a reader returns.  One that has returned as many as
\* there are addresses runs in a cycle, and the model holds it there.
MaxWalk == MaxCalls + 1

\* It returns an entry.
Step(c) ==
  /\ pc[c] = "walk"
  /\ Len(got[c]) < MaxWalk
  /\ LET r == Buffered(reader[c]) IN
       /\ NextOffset(c, r) # 0
       /\ reader' = [reader EXCEPT ![c] = [r EXCEPT !.offset = NextOffset(c, r)]]
       /\ got' = [got EXCEPT ![c] =
                    Append(@, [at |-> r.offset, entry |-> EntryAt(r)])]
  /\ UNCHANGED <<bookVars, last, pc, call, new, held, quiet, inserted, historyVars>>

\* It returns None, and the call whose kind this is goes on at next.
NoMore(c, kind, next) ==
  /\ pc[c] = "walk"
  /\ call[c].kind = kind
  /\ LET r == Buffered(reader[c]) IN
       /\ NextOffset(c, r) = 0
       /\ reader' = [reader EXCEPT ![c] = IF kind = "read" THEN r ELSE Closed]
  /\ pc' = [pc EXCEPT ![c] = next]
  /\ UNCHANGED <<bookVars, call, got, last, quiet, inserted, historyVars>>

\* Iterator::last: the last entry that the reader has returned.
Latest(c) == got[c][Len(got[c])]

\* The last entry, to be written back with a link to the new one at n.
LinkedTo(item, n) == [item EXCEPT !.entry.sibling = n]

\* insert_child has come to the last child, or to none: the new entry takes
\* the place of the parent's first child then.
LastChild(c) ==
  /\ NoMore(c, "child", "link")
  /\ held' = [held EXCEPT ![c] =
                IF got[c] = <<>> THEN [@ EXCEPT !.entry.child = new[c]]
                ELSE LinkedTo(Latest(c), new[c])]
  /\ UNCHANGED new

\* Mutant of FirstWrite: the link is written before the entry it leads to.
FirstWriteLinks == "link"

\* insert_sibling writes the entry before the link to it.
FirstWrite == "write"

\* insert_sibling has come to the last sibling.
LastSibling(c) ==
  /\ got[c] # <<>>
  /\ NoMore(c, "sibling", FirstWrite)
  /\ new' = [new EXCEPT ![c] = NextAddress(c)]
  /\ held' = [held EXCEPT ![c] = LinkedTo(Latest(c), NextAddress(c))]

\* insert_sibling has come to none: the new entry goes to its own argument.
NoSibling(c) ==
  /\ got[c] = <<>>
  /\ NoMore(c, "sibling", "place")
  /\ new' = [new EXCEPT ![c] = call[c].at]
  /\ UNCHANGED held

EndOfRead(c) == NoMore(c, "read", "idle") /\ UNCHANGED <<new, held>>

-----------------------------------------------------------------------------
(***************************************************************************)
(* The writes.                                                             *)
(***************************************************************************)

\* The call goes on at next, or returns, an insertion with its new address.
GoOn(c, next) ==
  /\ pc' = [pc EXCEPT ![c] = next]
  /\ inserted' = IF next = "idle" /\ call[c].kind # "edit"
                   THEN inserted \cup {new[c]} ELSE inserted

\* One book.write, of the entry e to address n.
Store(c, n, e) ==
  /\ entries' = [entries EXCEPT ![n] = e]
  /\ quiet' = [d \in Clients |-> FALSE]
  /\ UNCHANGED <<counter, new, call, got, historyVars>>

\* Mutant of AfterWrite: the counter is not written before the link.
NotCounted(c) == IF call[c].kind = "child" THEN "attach" ELSE "link"

\* insert_child counts the new entry before it links it, insert_sibling after.
AfterWrite(c) == IF call[c].kind = "child" THEN "count" ELSE "link"

WriteEntry(c) ==
  /\ pc[c] = "write"
  /\ Store(c, new[c], NewEntry(call[c].name))
  /\ GoOn(c, AfterWrite(c))
  /\ UNCHANGED <<last, held, reader>>

\* last_entry_addr, and the counter in the book.
Count(c) ==
  /\ pc[c] = "count"
  /\ last' = [last EXCEPT ![c] = new[c]]
  /\ counter' = new[c]
  /\ GoOn(c, IF call[c].kind = "child" THEN "attach" ELSE "idle")
  /\ UNCHANGED <<entries, call, new, held, walkVars, quiet, historyVars>>

\* insert_child: the parent has no child yet, or its children are read.
Attach(c) ==
  /\ pc[c] = "attach"
  /\ LET child == held[c].entry.child IN
       \/ /\ child = 0
          /\ held' = [held EXCEPT ![c].entry.child = new[c]]
          /\ pc' = [pc EXCEPT ![c] = "link"]
          /\ UNCHANGED walkVars
       \/ /\ child # 0
          /\ OpenReader(c, child)
          /\ pc' = [pc EXCEPT ![c] = "walk"]
          /\ UNCHANGED held
  /\ UNCHANGED <<bookVars, last, call, new, quiet, inserted, historyVars>>

\* The entry with the new link is written back.
Link(c) ==
  /\ pc[c] = "link"
  /\ Store(c, held[c].at, held[c].entry)
  /\ GoOn(c, IF call[c].kind = "sibling" THEN "count" ELSE "idle")
  /\ held' = [held EXCEPT ![c] = Nobody]
  /\ UNCHANGED <<last, reader>>

\* insert_sibling writes the entry to the offset it was given.
Place(c) ==
  /\ pc[c] = "place"
  /\ Store(c, new[c], NewEntry(call[c].name))
  /\ GoOn(c, "idle")
  /\ UNCHANGED <<last, held, reader>>

-----------------------------------------------------------------------------
(***************************************************************************)
(* The pages of the book.                                                  *)
(***************************************************************************)

\* The last address that the next access of a call needs; 0 is on the first page,
\* as the counter is.
Access(c) ==
  CASE pc[c] = "walk" ->
         IF Outside(reader[c]) THEN reader[c].offset + BufEntries - 1 ELSE 0
    [] pc[c] \in {"write", "place"} -> new[c]
    [] pc[c] = "link" -> held[c].at
    [] OTHER -> 0

\* read_next_page finds no page behind the last one.
Missing(c) ==
  /\ growing[c] = 0
  /\ Access(c) > edge
  /\ growing' = [growing EXCEPT ![c] = edge]
  /\ UNCHANGED <<edge, raced, bookVars, last, pc, call, new, held, walkVars,
                 quiet, inserted, historyVars>>

\* CreatePage and LinkPageForward: the new page is linked behind the one that was
\* last then, in place of any that is linked there now: what is on those is lost.
Extend(c) ==
  /\ growing[c] # 0
  /\ edge' = growing[c] + PageEntries
  /\ growing' = [growing EXCEPT ![c] = 0]
  /\ raced' = (edge > growing[c])
  /\ entries' = [n \in Address |->
                   IF n \in growing[c] + 1 .. edge THEN Empty ELSE entries[n]]
  /\ quiet' = [d \in Clients |-> quiet[d] /\ ~ raced']
  /\ UNCHANGED <<counter, last, pc, call, new, held, walkVars, inserted,
                 historyVars>>

-----------------------------------------------------------------------------

\* The process ends and the book is opened again.
Crash ==
  /\ crashes < MaxCrashes
  /\ crashes' = crashes + 1
  /\ sole' = (sole /\ \A c \in Clients :
                        ~ (pc[c] = "count" /\ call[c].kind = "sibling"))
  /\ inserted' = {}
  /\ writers' = {}
  /\ last' = [c \in Clients |-> Opened(counter)]
  /\ pc' = [c \in Clients |-> "idle"]
  /\ call' = [c \in Clients |-> Idle]
  /\ new' = [c \in Clients |-> Root]
  /\ held' = [c \in Clients |-> Nobody]
  /\ reader' = [c \in Clients |-> Closed]
  /\ got' = [c \in Clients |-> <<>>]
  /\ quiet' = [c \in Clients |-> TRUE]
  /\ growing' = [c \in Clients |-> 0]
  /\ UNCHANGED <<bookVars, edge, raced, calls>>

\* A call begins.
BeginCall(c, n) ==
  \/ \E name \in Names : InsertChild(c, n, name) \/ InsertSibling(c, n, name)
  \/ \E m \in Known \ {Root} : Edit(c, n, m)
  \/ \E mode \in {"sibling", "child"} : Read(c, n, mode)

\* A call goes on.
Proceed(c) ==
  \/ Step(c)       \/ LastChild(c) \/ LastSibling(c) \/ NoSibling(c)
  \/ EndOfRead(c)  \/ WriteEntry(c) \/ Count(c)      \/ Attach(c)
  \/ Link(c)       \/ Place(c)

\* Bound: the model ends when a page is unlinked.  How calls come to that
\* is the subject of BookClients!ReturnedIsLinked; those under way go on then on
\* pages that nobody else will read.
Going == ~ raced

ClientStep(c) ==
  /\ Going
  /\ \/ Missing(c) \/ Extend(c)
     \/ growing[c] = 0 /\ Access(c) <= edge /\ Proceed(c) /\ UNCHANGED pageVars

Next ==
  \/ Going /\ (\E c \in Clients, n \in Known : BeginCall(c, n)) /\ UNCHANGED pageVars
  \/ \E c \in Clients : ClientStep(c)
  \/ Going /\ Crash

Spec == Init /\ [][Next]_vars

\* A client that is inside a call goes on with it: reads and writes of a book
\* return (BookClients!EveryCallReturns), and the code between is straight.
FairSpec == Spec /\ \A c \in Clients : WF_vars(ClientStep(c))

-----------------------------------------------------------------------------
(***************************************************************************)
(* Properties.                                                             *)
(***************************************************************************)

Target == {0} \cup Address

\* Every address that is stored in the book or held by a call is one of the
\* entries, and no clone ever goes on from address 0 (entry.rs:222-226).
EntriesTypeOK ==
  /\ \A n \in Address : {entries[n].sibling, entries[n].child} \subseteq Target
  /\ counter \in Target
  /\ last \in [Clients -> Address]
  /\ new \in [Clients -> Address]
  /\ \A c \in Clients : held[c].at \in Address /\ reader[c].offset \in Address

\* A link never leads to an entry that was not written, nor does an address that
\* an insertion has returned, whichever clones write and wherever the process
\* ends (entry.rs:299 and 361 write the entry before the link to it), as long as
\* no two clones add a page to the book at the same time, for which it is enough
\* that one of them reads (book.rs:56-57, 69-70).
LinksLeadToEntries ==
  ~ raced => \A m \in (UNION {Linked(n) : n \in Address}) \cup inserted :
               entries[m] # Empty

\* The new address that an insertion takes, the one behind the last entry, is of
\* no entry in the tree, also after a crash and the next opening (entry.rs:295,
\* 357), as long as one clone alone is written through and no crash comes
\* between the link and the counter of insert_sibling.  This is not about the
\* arm that takes no new address (entry.rs:371-375), for which see EntriesStay.
NewEntryIsNew ==
  (sole /\ ~ raced) =>
    \A c \in Clients : pc[c] = "write" =>
      \A n \in Address : new[c] \notin Linked(n)

\* The link of entry n that a reader of c's mode is to follow, as the docs have it
\* (entry.rs:84, 110).
LinkFrom(c, n) ==
  IF call[c].mode = "sibling" THEN entries[n].sibling ELSE entries[n].child

\* A reader has come to its end, and nothing was written meanwhile.
UndisturbedEnd(c) == pc[c] = "idle" /\ call[c].kind = "read" /\ quiet[c]

\* A reader that nobody disturbs returns entries as they are in the book, the one
\* it was made for first and each other one where the link of the one before
\* leads, through its buffer and in both directions, and leaves out none but,
\* if any, the last of the chain (entry.rs:159-195).  Whether it may leave out
\* that one is not the question here: see EntriesStay for what comes of it.
ReadFollowsLinks ==
  \A c \in Clients : UndisturbedEnd(c) =>
    LET ats  == [i \in DOMAIN got[c] |-> got[c][i].at]
        rest == IF ats = <<>> THEN call[c].at ELSE LinkFrom(c, ats[Len(ats)])
    IN  /\ \A i \in DOMAIN ats :
             /\ got[c][i].entry = entries[ats[i]]
             /\ ats[i] = IF i = 1 THEN call[c].at ELSE LinkFrom(c, ats[i - 1])
        /\ rest = 0 \/ LinkFrom(c, rest) = 0

\* Every call returns, or the process ends, as long as one clone alone is
\* written through: no insertion closes a cycle of links for a reader to run in
\* (entry.rs:290, "be accurate to not to create cycle references").
CallsReturn ==
  \A c \in Clients : pc[c] # "idle" ~> (pc[c] = "idle" \/ ~ sole \/ raced)

\* What is in the tree stays in it, and keeps its name, whatever is inserted: a
\* new entry is linked to the last child or sibling there is (entry.rs:281-282,
\* 343-344), and is written only where "there's no entry" (entry.rs:371).
EntriesStay ==
  [][ \A n \in Reachable(Root) : entries[n] # Empty =>
        n \in Reachable(Root)' /\ entries'[n].name = entries[n].name ]_vars

=============================================================================
