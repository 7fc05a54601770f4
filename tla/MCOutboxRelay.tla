---------------------------- MODULE MCOutboxRelay ----------------------------
(***************************************************************************)
(* Two rows, each published again after a fault, and three messages past  *)
(* the outbox, on a bus with two workers: enough to fill it.              *)
(***************************************************************************)
EXTENDS OutboxRelay
=============================================================================
