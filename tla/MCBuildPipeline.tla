-------------------------- MODULE MCBuildPipeline --------------------------
(* Model-checking instance of BuildPipeline: two faults are enough for an  *)
(* interruption in one run followed by a bad download or a second          *)
(* interruption in the run that recovers from it.                          *)
EXTENDS BuildPipeline

MCMaxFaults == 2

=============================================================================
