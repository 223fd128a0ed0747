------------------------------- MODULE MCTestRun -------------------------------
(* The whole system undisturbed, and smaller ones with each kind of trouble. *)
EXTENDS TestRun
MCSetups ==
  { << {"TA", "RUI", "FU"}, "none" >>, << {}, "none" >>,
    << {"TA"}, "memory" >>, << {"TA"}, "suspend" >>, << {"TA"}, "enable" >>,
    << {"RUI", "FU"}, "data" >>, << {"FU"}, "crash" >>, << {"FU"}, "enable" >> }
MCResources == 0 .. 1
===============================================================================
