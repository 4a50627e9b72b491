-------------------------- MODULE MCParallelTasks --------------------------
(* A small instance of ParallelTasks for TLC.                               *)
EXTENDS ParallelTasks

MCTasks == {"hom", "details", "map", "bullets", "sound"}

MCBatches == {Batch(calc, level) : calc \in BOOLEAN, level \in Levels}

=============================================================================
