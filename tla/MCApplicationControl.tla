------------------------- MODULE MCApplicationControl -------------------------
(***************************************************************************)
(* Values for the constants of ApplicationControl.                         *)
(***************************************************************************)
EXTENDS ApplicationControl

\* The BU's four loops make the largest state space: only its disk may fail, and it is only
\* stopped, never halted. The EVM's activities, loop and callbacks fail as those of the RU do.
MCMayFail ==
     "RU"  :> {"activity", "process", "callback"}
  @@ "EVM" :> {"sendOldMessages"}
  @@ "RUI" :> {"activity"}
  @@ "BU"  :> {"exit"}

MCSoapCommands ==
  [a \in Apps |-> {"Configure", "Enable", "Stop"}
                    \cup (IF a = "BU" THEN {} ELSE {"Halt", "Fail"})
                    \cup (IF a = "EVM" THEN {"Clear", "Blocked"} ELSE {})]

\* Four are a second run or a second configuration; in the RU's fifth, the second run ends.
MCMaxCommands == "RU" :> 5 @@ "EVM" :> 4 @@ "RUI" :> 4 @@ "BU" :> 4
=============================================================================
