---------------------------- MODULE MCBookClients ----------------------------
(***************************************************************************)
(* Instances of BookClients for TLC.  Pages of one and of two bytes, a     *)
(* book of up to three pages, strings that end inside a page, at its end   *)
(* and beyond it.                                                          *)
(***************************************************************************)
EXTENDS BookClients

CONSTANTS d1, d2

MCBytes == {<<d1>>, <<d2, d1>>}

=============================================================================
