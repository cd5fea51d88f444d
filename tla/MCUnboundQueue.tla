--------------------------- MODULE MCUnboundQueue ---------------------------
(* UnboundQueue on a heap of a few cells.                                  *)
EXTENDS UnboundQueue
=============================================================================
