----------------------------- MODULE MCMonitoring -----------------------------
(***************************************************************************)
(* Values for the constants of Monitoring.                                 *)
(***************************************************************************)
EXTENDS Monitoring

\* One event is enough for the long paths, two for the short ones.
MCMaxEvents == [a \in Apps |-> IF a \in {"RUI", "TA", "FU"} THEN 2 ELSE 1]

\* A second run meets what the first one left; the BU is taken there with its disk.
MCMaxRuns == [a \in Apps |-> IF a = "BU to FU" THEN 1 ELSE 2]
=============================================================================
