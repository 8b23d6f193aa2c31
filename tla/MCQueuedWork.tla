---------------------------- MODULE MCQueuedWork -----------------------------
(***************************************************************************)
(* The work of two servers and two requests.                               *)
(***************************************************************************)
EXTENDS QueuedWork
=============================================================================
