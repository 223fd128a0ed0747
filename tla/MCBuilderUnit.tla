---------------------------- MODULE MCBuilderUnit ----------------------------
(* Small instances of BuilderUnit. *)
EXTENDS BuilderUnit

\* Three events in the first lumi section; a second one, if any, is empty.
MCLumiSection == << 1, 1, 1 >>
\* The first RU sends two blocks for an event, the second one.
MCNbBlocks == ("ru0" :> 2) @@ ("ru1" :> 1)
MCOneBlock == "ru0" :> 1
=============================================================================
