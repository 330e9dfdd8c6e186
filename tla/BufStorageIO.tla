----------------------------- MODULE BufStorageIO -----------------------------
(***************************************************************************)
(* The buffered storage (src/io/buf.rs): a file, and a copy of its first   *)
(* BufSize cells that answers reads without going to the file.  Every      *)
(* write goes to both.  With BufSize = 0 it is the file alone.             *)
(*                                                                         *)
(* A storage is a record [file, buf].                                      *)
(***************************************************************************)
EXTENDS StorageIO

CONSTANT BufSize

ASSUME BufSizeAssumption == BufSize \in Nat

\* The first n cells, or all if there are fewer.
Take(cells, n) == SubSeq(cells, 1, IF n < Len(cells) THEN n ELSE Len(cells))

\* BufStorageIO::new copies a file that is shorter than the buffer into a slice
\* of an empty vector, which panics unless there is nothing to copy.
BufOpens(file) == Len(file) >= BufSize \/ file = <<>>

\* BufStorageIO::new on a file that opens.
BufOpen(file) == [file |-> file, buf |-> Take(file, BufSize)]

\* BufStorageIO::read: from the buffer, from the buffer and then the file behind
\* it, or from the file.
BufRead(io, offset, length) ==
  LET n   == Len(io.buf)
      end == offset + length
  IN  IF offset >= n THEN IORead(io.file, offset, length)
      ELSE IF end <= n THEN SubSeq(io.buf, offset + 1, end)
      ELSE SubSeq(io.buf, offset + 1, n) \o IORead(io.file, n, end - n)

\* Mutant of Buffered: cells that are in the buffer already are not replaced.
BufferedBehind(buf, offset, cells) ==
  Take(buf \o SubSeq(cells, (Len(buf) + 1) - offset, Len(cells)), BufSize)

\* What BufStorageIO::write does to the buffer: it is overwritten, filled with
\* zeros up to offset where it is shorter, and never longer than BufSize.
Buffered(buf, offset, cells) ==
  IF offset < BufSize
    THEN Take(Overwritten(buf, offset, cells), BufSize)
    ELSE buf

\* BufStorageIO::write
BufWrite(io, offset, cells) ==
  [file |-> IOWrite(io.file, offset, cells),
   buf  |-> Buffered(io.buf, offset, cells)]

\* Mutant of Appended: the buffer grows beyond its size.
AppendedWhole(buf, cells) == buf \o cells

\* What BufStorageIO::append does to the buffer: it grows from its own end.
Appended(buf, cells) == buf \o Take(cells, BufSize - Len(buf))

\* BufStorageIO::append
BufAppend(io, cells) ==
  [file |-> IOAppend(io.file, cells), buf |-> Appended(io.buf, cells)]

\* BufStorageIO::len: an empty buffer stands for an empty file.
BufLen(io) == IF BufSize # 0 /\ io.buf = <<>> THEN 0 ELSE Len(io.file)

=============================================================================
