-------------------------- MODULE MCOrderingChannel --------------------------
(* OrderingChannel for TLC: with four indices around a window of two an index *)
(* can be stale, expected, inside the window and beyond it, and two payloads  *)
(* tell an index delivered with the wrong content from the right one.         *)
EXTENDS OrderingChannel
=============================================================================
