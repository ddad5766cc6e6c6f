----------------------------- MODULE MCSessionFeed -----------------------------
(***************************************************************************)
(* A small instance of SessionFeed: two sessions, and the fourth event of  *)
(* either is too large for a frame.                                        *)
(***************************************************************************)
EXTENDS SessionFeed

MCLarge == Sessions \X {4}
=============================================================================
