----------------------------- MODULE MCOperations -----------------------------
(***************************************************************************)
(* A small instance of Operations: the second delta fills a batch by       *)
(* itself and does not fit behind the first, the fifth exceeds the output. *)
(***************************************************************************)
EXTENDS Operations

MCBytes == <<1, 3, 1, 1, 1>>
=============================================================================
