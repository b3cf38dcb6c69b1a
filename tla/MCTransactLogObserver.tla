------------------------ MODULE MCTransactLogObserver ------------------------
(***************************************************************************)
(* TransactLogObserver with up to three rows to begin with and up to four  *)
(* at a time.  What a run may do with four instructions is the same for    *)
(* the two kinds of query; the sorted one, whose results can come in every *)
(* order, is given three.                                                  *)
(***************************************************************************)
EXTENDS TransactLogObserver

MCMaxOps == [list |-> 4, query |-> 4, sorted |-> 3, linked |-> 5]

MCMaxOpsQuery == [query |-> 3]
=============================================================================
