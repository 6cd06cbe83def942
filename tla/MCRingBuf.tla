------------------------------ MODULE MCRingBuf -----------------------------
(* The ring buffer with a few slots and two byte values. *)
EXTENDS RingBuf

CONSTANTS v, w

=============================================================================
