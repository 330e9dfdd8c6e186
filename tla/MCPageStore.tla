----------------------------- MODULE MCPageStore -----------------------------
(***************************************************************************)
(* Instances of PageStore for TLC: two pages of at most two bytes, every   *)
(* offset and length that reaches the end of a page or just beyond it.     *)
(***************************************************************************)
EXTENDS PageStore, TLC

CONSTANT d1

MCPageNo == 0 .. MaxPages

\* Any bytes can be read as a page header; these are read as one that has
\* both flags set.
MCMisread == [prev |-> 0, next |-> 0]

MCHeaders == {[prev |-> NoPage, next |-> 0]}

Names(checksum, compression, level) ==
  [names_checksum |-> checksum, names_compression |-> compression,
   names_compression_level |-> level]

\* The default header, and one that differs in everything.
MCFsHeaders ==
  { [page_size |-> 2] @@ Names("Seahash", "None", "Auto"),
    [page_size |-> 1] @@ Names("Xxh3", "Brotli", "Max") }

\* One that fits in the larger page at both offsets, and one that fits at one
\* of them and never in the smaller page; its two bytes differ.
MCBytes == {<<d1>>, <<Zero, d1>>}

=============================================================================
