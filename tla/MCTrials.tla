------------------------------ MODULE MCTrials ------------------------------
(* An instance of Trials for TLC.                                           *)
EXTENDS Trials

MCStatements == { <<>>, <<{}>>, << {"exact"} >>, << {"pattern", "exit"}, {"exact", "exit"} >> }
MCOutputs == { {}, {"exact", "pattern"}, {"pattern", "exit"}, {"exact", "pattern", "exit"} }
=============================================================================
