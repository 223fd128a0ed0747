---------------------------- MODULE MCL1InfoHandler ----------------------------
(***************************************************************************)
(* Instances of L1InfoHandler for TLC.                                     *)
(***************************************************************************)
EXTENDS L1InfoHandler

\* A physics trigger with its bit and a random one.
MCTriggers == {[eventType |-> 1, bits |-> {"b"}], [eventType |-> 3, bits |-> {"b"}]}
MCLumiSections == {1, 3}
=============================================================================
