------------------------------- MODULE FsHeader -------------------------------
(***************************************************************************)
(* The filesystem header and its encoding (src/filesystem/header.rs).  The *)
(* three settings for names share one number, two bits each, in which zero *)
(* stands for the first compression and the first level but for no         *)
(* checksum: a header of zeros cannot be read.                             *)
(***************************************************************************)
EXTENDS Naturals

ChecksumFlag    == [Seahash |-> 1, Siphash |-> 2, Xxh3 |-> 3]
CompressionFlag == [None |-> 0, Lz4 |-> 4, Brotli |-> 8, Zstd |-> 12]
LevelFlag       == [Auto |-> 0, Fast |-> 16, Balanced |-> 32, Max |-> 48]

FilesystemHeader(PageSize) ==
  [page_size               : PageSize,
   names_checksum          : DOMAIN ChecksumFlag,
   names_compression       : DOMAIN CompressionFlag,
   names_compression_level : DOMAIN LevelFlag]

\* FilesystemHeader::to_bytes.  The bits are disjoint, so that adding them is
\* the code's bitwise or.
FsHeaderToCell(h) ==
  [page_size |-> h.page_size,
   flags     |-> (ChecksumFlag[h.names_checksum]
                  + CompressionFlag[h.names_compression])
                 + LevelFlag[h.names_compression_level]]

\* The setting that a masked number stands for.
Setting(flag, number) == CHOOSE s \in DOMAIN flag : flag[s] = number

\* FilesystemHeader::from_bytes of the cell of a header.
FsHeaderFromCell(c) ==
  [page_size               |-> c.page_size,
   names_checksum          |-> Setting(ChecksumFlag, c.flags % 4),
   names_compression       |-> Setting(CompressionFlag,
                                       (c.flags % 16) - (c.flags % 4)),
   names_compression_level |-> Setting(LevelFlag,
                                       (c.flags % 64) - (c.flags % 16))]

=============================================================================
