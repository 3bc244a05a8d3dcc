----------------------------- MODULE MCTelemetry -----------------------------
(***************************************************************************)
(* A small instance of Telemetry for TLC.                                  *)
(***************************************************************************)
EXTENDS Telemetry

\* A force that drifts by less than the tolerance at a time, and past it in all.
ThreeForces == 0 .. 2
==============================================================================
