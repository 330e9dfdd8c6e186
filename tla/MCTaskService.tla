---------------------------- MODULE MCTaskService ----------------------------
(***************************************************************************)
(* An instance of TaskService for TLC: a page of one byte, requests whose  *)
(* answers tell in which order they were executed, and one that changes    *)
(* the page size under them.                                               *)
(***************************************************************************)
EXTENDS TaskService

CONSTANT d1

MCPageNo  == 0 .. MaxTasks
MCMisread == [prev |-> 0, next |-> 0]

WithPageSize(n) ==
  [page_size |-> n, names_checksum |-> "Seahash", names_compression |-> "None",
   names_compression_level |-> "Auto"]

MCHeader == WithPageSize(1)

MCRequests ==
  { [op |-> "CreatePage", parent |-> NoPage],
    [op |-> "WritePage", page |-> 0, offset |-> 0, bytes |-> <<d1>>],
    [op |-> "ReadPage", page |-> 0, offset |-> 0, length |-> 1],
    [op |-> "WriteFilesystemHeader", header |-> WithPageSize(2)] }

=============================================================================
