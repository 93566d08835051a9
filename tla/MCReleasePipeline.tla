-------------------------- MODULE MCReleasePipeline --------------------------
(***************************************************************************)
(* A small instance of ReleasePipeline, and a bound on how often tags are  *)
(* pushed and moved.                                                       *)
(***************************************************************************)
EXTENDS ReleasePipeline, FiniteSets

CONSTANT MaxWheels   \* bound: how many runs of wheels.yml are explored

WheelsBound == Cardinality({w \in Versions \X Commits : wheels[w] # None}) <= MaxWheels
=============================================================================
