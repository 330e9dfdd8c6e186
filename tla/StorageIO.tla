------------------------------ MODULE StorageIO ------------------------------
(***************************************************************************)
(* The byte storage under the filesystem (src/io/storage.rs): a file that  *)
(* grows, read and written at byte offsets.                                *)
(*                                                                         *)
(* A file is a sequence of cells; the cell at offset o is f[o + 1].  One   *)
(* cell stands for one byte, or for a whole encoded header, which the code *)
(* always writes and reads in one call.  Zero is the cell of zero bytes.   *)
(***************************************************************************)
EXTENDS Naturals, Sequences

CONSTANT Zero

\* The larger of two lengths.
Longer(m, n) == IF m >= n THEN m ELSE n

\* vec![0; n]
Zeros(n) == [i \in 1 .. n |-> Zero]

\* StorageIO::read: exactly length cells, zeros where the file has ended.
IORead(f, offset, length) ==
  [i \in 1 .. length |->
     IF offset + i <= Len(f) THEN f[offset + i] ELSE Zero]

\* f with the cells from offset on replaced; what lies between the old end and
\* offset is zeros.
Overwritten(f, offset, cells) ==
  [i \in 1 .. Longer(Len(f), offset + Len(cells)) |->
     IF i \in (offset + 1) .. (offset + Len(cells))
       THEN cells[i - offset]
       ELSE IF i <= Len(f) THEN f[i] ELSE Zero]

\* StorageIO::write: overwrites in place and extends the file as needed.
\* Writing nothing leaves the file as it is, wherever the seek went.
IOWrite(f, offset, cells) ==
  IF cells = <<>> THEN f ELSE Overwritten(f, offset, cells)

\* StorageIO::append
IOAppend(f, cells) == f \o cells

=============================================================================
