--------------------------- MODULE MCMessageQueue ---------------------------
(***************************************************************************)
(* A small instance of MessageQueue: two ordinary replies, the shutdown     *)
(* reply, one plain request and one request that drains the queue.         *)
(***************************************************************************)
EXTENDS MessageQueue

CONSTANTS a, b, last, q, d

MCMsg == {a, b, last, q, d}
MCReply == {a, b, last}
MCDrainer == {d}
=============================================================================
