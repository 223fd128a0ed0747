---------------------------- MODULE MCReadoutUnit ----------------------------
(* Small instances of ReadoutUnit. *)
EXTENDS ReadoutUnit

\* Two triggers, a resync, and one more.
MCShortRun == << 1, 2, 1 >>
=============================================================================
