-------------------------------- MODULE BTree --------------------------------
(***************************************************************************)
(* Insertion into the B-tree of src/btree (tree.rs and record.rs), by one  *)
(* client, task by task: the pages are those of PageTable.                 *)
(*                                                                         *)
(* A page body is a row of overlapping records.  A record is an address,   *)
(* its flags with key and value, and an address; the second address is the *)
(* first one of the record that follows.  Here an address takes one cell   *)
(* and the part between takes one, so RECORD_SIZE is 3 and RECORD_SHIFT 2. *)
(* An address cell does not say whether it is set: a flag of the record    *)
(* does, once for each side.                                               *)
(***************************************************************************)
EXTENDS PageTable, FiniteSets

CONSTANTS
  Trees,      \* a page size and the keys to insert, in order: one of them in a run
  Values,     \* values
  MaxPages    \* bound: pages the runaway insertions may create

ASSUME BTreeAssumption ==
  /\ Trees \subseteq [size : PageSizes, order : Seq(Nat)]
  /\ PageSizes \subseteq Nat \ {0, 1}
  /\ MaxPages \in Nat \ {0}
  /\ NoPage \notin Nat /\ Zero \notin Nat
  /\ Zero \notin [key : Nat \cup {NoPage}, value : Values \cup {NoPage},
                  left_set : BOOLEAN, right_set : BOOLEAN]

VARIABLES
  todo,       \* the keys still to insert
  pc,         \* what the call of insert does next
  key, value, \* its arguments
  curr_page,  \* the page it has come to
  at,         \* the offset i of the record at hand
  record,     \* that record
  side,       \* which of its addresses the new page goes to
  inserted,   \* history: the pairs of the calls that have returned, in order
  spoilt      \* history: the address of a neighbouring record was overwritten

treeVars == <<vars, todo, pc, key, value, curr_page, at, record, side,
              inserted, spoilt>>

RecordSize  == 3
RecordShift == 2

None == NoPage

\* Mutant of MaxRecords: the second address of the last record is forgotten.
MaxRecordsByShift(size) == size \div RecordShift

\* GenericBTree::max_records
MaxRecords(size) ==
  LET records == size \div RecordShift IN
    IF records * RecordShift + (RecordSize - RecordShift) <= size
      THEN records ELSE records - 1

\* A record as the code holds it: key = None when the flag is not set.
BlankRecord == [key |-> None, value |-> None, left |-> None, right |-> None]

NewRecord(k, v) == [BlankRecord EXCEPT !.key = k, !.value = v]

\* An address as bytes: page 0, and an address that is not set, are zeros.
AddrToCell(a) == IF a \in {None, 0} THEN Zero ELSE a
CellToAddr(c) == IF c = Zero THEN 0 ELSE c

\* GenericBTreeRecord::to_bytes
ToBytes(r) ==
  << AddrToCell(r.left),
     [key |-> r.key, value |-> r.value,
      left_set |-> r.left # None, right_set |-> r.right # None],
     AddrToCell(r.right) >>

\* GenericBTreeRecord::from_bytes on the bytes from offset i on.
FromBytes(body, i) ==
  LET core == body[i + 2] IN
    IF core = Zero THEN BlankRecord
    ELSE [key   |-> core.key,
          value |-> core.value,
          left  |-> IF core.left_set THEN CellToAddr(body[i + 1]) ELSE None,
          right |-> IF core.right_set THEN CellToAddr(body[i + 3]) ELSE None]

\* The offsets at which from_bytes finds enough bytes.
Offsets(body) ==
  {i \in 0 .. Len(body) : /\ i % RecordShift = 0
                          /\ i + RecordSize <= Len(body)}

\* Mutant of Stops: the scan goes past the record of the key itself.
StopsPastKey(body, k) ==
  {i \in Offsets(body) : LET r == FromBytes(body, i) IN
                           r.key = None \/ r.key > k}

\* The offsets of the records at which the scan of a page stops.
Stops(body, k) ==
  {i \in Offsets(body) : LET r == FromBytes(body, i) IN
                           r.key = None \/ r.key >= k}

First(S) == CHOOSE i \in S : \A j \in S : i <= j
Last(S)  == CHOOSE i \in S : \A j \in S : i >= j

-----------------------------------------------------------------------------

TreeInit ==
  /\ \E tree \in Trees : page_size = tree.size /\ todo = tree.order
  /\ pages = << [header |-> [prev |-> NoPage, next |-> NoPage],
                 body   |-> [i \in 1 .. page_size |-> Zero]] >>
  /\ whole = TRUE
  /\ reply = NoReply
  /\ pc = "idle"
  /\ key = None
  /\ value = None
  /\ curr_page = 0
  /\ at = 0
  /\ record = BlankRecord
  /\ side = "left"
  /\ inserted = <<>>
  /\ spoilt = FALSE

\* insert(key, value) is called.
Insert(v) ==
  /\ pc = "idle"
  /\ todo # <<>>
  /\ key' = Head(todo)
  /\ value' = v
  /\ todo' = Tail(todo)
  /\ curr_page' = 0
  /\ pc' = "read"
  /\ UNCHANGED <<at, record, side, inserted, spoilt>>
  /\ UNCHANGED vars

-----------------------------------------------------------------------------
(***************************************************************************)
(* One pass of insert's loop.  It starts with a ReadPage task for the      *)
(* whole body of curr_page, and what the scan of the body finds decides    *)
(* which task is next.                                                     *)
(***************************************************************************)

ReadBody ==
  /\ pc = "read"
  /\ Get(curr_page, 0, page_size)
  /\ UNCHANGED spoilt

Body == reply'.bytes

\* The call goes on with the record r at offset i.
With(i, r, next) ==
  /\ at' = i
  /\ record' = r
  /\ pc' = next
  /\ UNCHANGED <<todo, key, value, inserted>>

\* Mutant of JumpTo: the loop goes on without another page.
JumpNowhere(n) ==
  UNCHANGED <<todo, pc, key, value, curr_page, at, record, side, inserted>>

\* The call goes on with another page.
JumpTo(n) ==
  /\ curr_page' = n
  /\ UNCHANGED <<todo, pc, key, value, at, record, side, inserted>>

\* The scan stops at a record without a key, or the body is too small for a
\* record: the new one is written there.
FindRoom ==
  /\ ReadBody
  /\ \/ /\ Offsets(Body) = {}
        /\ With(0, NewRecord(key, value), "write")
     \/ /\ Stops(Body, key) # {}
        /\ LET i == First(Stops(Body, key)) IN
             /\ FromBytes(Body, i).key = None
             /\ With(i, NewRecord(key, value), "write")
  /\ UNCHANGED <<curr_page, side>>

\* Mutant of Revalued: the record is replaced, and its addresses with it.
RevaluedAnew(r) == NewRecord(key, value)

\* The record of the key, with its new value.
Revalued(r) == [r EXCEPT !.value = value]

\* The scan stops at the record of the key itself: its value is replaced.
FindKey ==
  /\ ReadBody
  /\ Stops(Body, key) # {}
  /\ LET i == First(Stops(Body, key))
         r == FromBytes(Body, i)
     IN  /\ r.key = key
         /\ With(i, Revalued(r), "write")
  /\ UNCHANGED <<curr_page, side>>

\* The scan stops at a greater key: the call goes to its left address, which
\* it may have to create.
FindGreater ==
  /\ ReadBody
  /\ Stops(Body, key) # {}
  /\ LET i == First(Stops(Body, key))
         r == FromBytes(Body, i)
     IN  /\ r.key # None
         /\ r.key > key
         /\ \/ r.left # None /\ JumpTo(r.left)
            \/ /\ r.left = None
               /\ With(i, r, "create")
               /\ side' = "left"
               /\ UNCHANGED curr_page

\* Mutant of RightOf: the page on the right is not found again.
RightForgotten(r) == None

\* The page on the right of the last record.
RightOf(r) == r.right

\* The test of tree.rs:174 finds no room behind the record at offset i.
FullAt(i) == i + RecordShift + RecordShift > page_size

\* All the keys are smaller.  The call goes to the right address of the last
\* record, or puts a new record behind it when it finds the body to have room
\* for one more, or creates a page on the right.
FindSmaller ==
  /\ ReadBody
  /\ Offsets(Body) # {}
  /\ Stops(Body, key) = {}
  /\ LET i == Last(Offsets(Body))
         r == FromBytes(Body, i)
     IN  \/ RightOf(r) # None /\ JumpTo(RightOf(r))
         \/ /\ RightOf(r) = None
            /\ ~ FullAt(i)
            /\ With(i + RecordShift, NewRecord(key, value), "write_behind")
            /\ UNCHANGED <<curr_page, side>>
         \/ /\ RightOf(r) = None
            /\ FullAt(i)
            /\ With(i, r, "create")
            /\ side' = "right"
            /\ UNCHANGED curr_page

\* The record behind the one at hand has a page on its left, and the record
\* at hand is written with another address, or none, in the bytes the two share.
Overwrites ==
  LET body   == pages[curr_page + 1].body
      behind == at + RecordShift
  IN  /\ behind \in Offsets(body)
      /\ FromBytes(body, behind).left \notin {None, record.right}

WriteRecord ==
  /\ Put(curr_page, at, ToBytes(record))
  /\ spoilt' = (spoilt \/ Overwrites)

\* The WritePage task after which insert returns.
Finish ==
  /\ pc = "write"
  /\ WriteRecord
  /\ pc' = "idle"
  /\ inserted' = Append(inserted, <<key, value>>)
  /\ UNCHANGED <<todo, key, value, curr_page, at, record, side>>

\* The WritePage task of tree.rs:180-187, after which the loop goes on.
WriteBehind ==
  /\ pc = "write_behind"
  /\ WriteRecord
  /\ pc' = "read"
  /\ UNCHANGED <<todo, key, value, curr_page, at, record, side, inserted>>

\* Mutant of Answered: pages are counted from 1.
AnsweredFromOne == reply'.page + 1

\* The page that CreatePage answers with.
Answered == reply'.page

\* The CreatePage task; its answer becomes an address of the record.
CreateChild ==
  /\ pc = "create"
  /\ Len(pages) < MaxPages
  /\ Create(NoPage)
  /\ record' = [record EXCEPT ![side] = Answered]
  /\ pc' = "link"
  /\ UNCHANGED <<todo, key, value, curr_page, at, side, inserted, spoilt>>

\* The WritePage task that stores the record with its new address.
LinkChild ==
  /\ pc = "link"
  /\ WriteRecord
  /\ curr_page' = record[side]
  /\ pc' = "read"
  /\ UNCHANGED <<todo, key, value, at, record, side, inserted>>

InsertStep ==
  \/ FindRoom \/ FindKey \/ FindGreater \/ FindSmaller
  \/ Finish \/ WriteBehind \/ CreateChild \/ LinkChild

TreeNext ==
  \/ \E v \in Values : Insert(v)
  \/ InsertStep

TreeSpec == TreeInit /\ [][TreeNext]_treeVars

\* A call goes on: its tasks are answered and the code between them is straight.
FairTreeSpec == TreeSpec /\ WF_treeVars(InsertStep)

-----------------------------------------------------------------------------
(***************************************************************************)
(* Properties.                                                             *)
(***************************************************************************)

RecordsOf(n) ==
  LET body == pages[n + 1].body IN
    {r \in {FromBytes(body, i) : i \in Offsets(body)} : r.key # None}

\* Where the search for k goes from page n: "either finding our one or going
\* to the address specified between two different records" (tree.rs:14-16).
Between(n, k) ==
  LET smaller == {r \in RecordsOf(n) : r.key < k}
      greater == {r \in RecordsOf(n) : r.key > k}
  IN  IF \E r \in RecordsOf(n) : r.key = k THEN None
      ELSE IF greater # {}
        THEN (CHOOSE r \in greater : \A s \in greater : r.key <= s.key).left
      ELSE IF smaller # {}
        THEN (CHOOSE r \in smaller : \A s \in smaller : r.key >= s.key).right
      ELSE None

\* The page the search for k has come to after d jumps, None if it has ended.
SearchPath(k) ==
  LET path[d \in 0 .. Len(pages)] ==
        IF d = 0 THEN 0
        ELSE IF path[d - 1] = None THEN None ELSE Between(path[d - 1], k)
  IN  path

Stored(k) ==
  UNION { {r.value : r \in {s \in RecordsOf(n) : s.key = k}} :
          n \in {SearchPath(k)[d] : d \in 0 .. Len(pages)} \ {None} }

\* The value of the last call for the key of the j-th one.
LatestValue(j) ==
  LET k == inserted[j][1] IN
    inserted[Last({i \in DOMAIN inserted : inserted[i][1] = k})][2]

TreeTypeOK ==
  /\ Len(pages) <= MaxPages
  /\ pc \in {"idle", "read", "write", "write_behind", "create", "link"}
  /\ curr_page \in Number
  /\ side \in {"left", "right"}
  /\ at \in 0 .. page_size

\* The search by key order finds every key whose insertion has returned, with
\* the value of its last insertion and no other (tree.rs:13-19).
EveryKeyIsFound ==
  \A j \in DOMAIN inserted : Stored(inserted[j][1]) = {LatestValue(j)}

\* After every task, also in the middle of a call that may never go on, and
\* whatever the order of the keys, every key is found as long as no record was
\* rewritten over the left address of the record behind it: the overlap of the
\* records (record.rs:19-32) is the only thing that can cut off a subtree or
\* lead a search astray in tree.rs:62-235.
FoundUnlessSpoilt == ~ spoilt => EveryKeyIsFound

\* No key is stored in two records of the tree, in the middle of a call or not.
EachKeyOnce ==
  \A m, n \in Number :
    \A r \in RecordsOf(m), s \in RecordsOf(n) : r.key = s.key => m = n /\ r = s

\* No search of insert goes astray, and so no key is inserted a second time, as
\* long as no record was rewritten over the left address of the one behind it
\* (tree.rs:82-138).
OnceUnlessSpoilt == ~ spoilt => EachKeyOnce

\* max_records is the number of records the scan of a page finds room for
\* (tree.rs:48-56).
MaxRecordsFit ==
  MaxRecords(page_size) = Cardinality(Offsets(pages[1].body))

\* Keys inserted in ascending order fill every page to max_records before the
\* next one is created, and in descending order each takes a page of its own
\* (tree.rs:280-296).
PagesUsed ==
  LET n         == Len(inserted)
      capacity  == MaxRecords(page_size)
      Sorted(R(_, _)) ==
        \A i, j \in 1 .. n : i < j => R(inserted[i][1], inserted[j][1])
      Less(a, b)    == a < b
      Greater(a, b) == a > b
  IN  (pc = "idle" /\ n > 0) =>
        /\ Sorted(Less) => Len(pages) = (n + capacity - 1) \div capacity
        /\ Sorted(Greater) => Len(pages) = n

\* The scan of a page and the test of tree.rs:174 agree on where the page ends.
SameEnd == page_size % RecordShift = RecordSize - RecordShift

\* A call of insert returns, in pages whose last record ends where the page
\* does and as long as no left address was overwritten: the walk down the tree
\* visits no page twice.  An overwritten address reads as page 0, from which
\* the walk may go round for ever ("infinite loop?", tree.rs:299).
InsertReturns == (pc # "idle" /\ SameEnd) ~> (pc = "idle" \/ spoilt)

\* Every call of insert returns, whatever the page size (tree.rs:58).
EveryInsertReturns == pc # "idle" ~> pc = "idle"

=============================================================================
