-------------------------- MODULE MCBatchOperation --------------------------
(***************************************************************************)
(* Three services, and two requests that execute the batch.                *)
(***************************************************************************)
EXTENDS BatchOperation

CONSTANTS x1, x2
=============================================================================
