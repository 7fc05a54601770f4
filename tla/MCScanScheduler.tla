--------------------------- MODULE MCScanScheduler ---------------------------
(***************************************************************************)
(* One schedule with two runs, one manual scan that competes for the slot. *)
(***************************************************************************)
EXTENDS ScanScheduler

CONSTANTS s1, s2, m1, q1, e1, e2
=============================================================================
