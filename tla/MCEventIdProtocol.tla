-------------------------- MODULE MCEventIdProtocol --------------------------
(* Small instances of EventIdProtocol: see the configurations. *)
EXTENDS EventIdProtocol
=============================================================================
