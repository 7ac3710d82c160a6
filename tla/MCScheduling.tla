---------------------------- MODULE MCScheduling ----------------------------
(* The values of Analysis' constants for TLC.                              *)
EXTENDS Analysis

CONSTANTS JobBursts, JobArrivals

MCJobs == [burst : JobBursts, arrival : JobArrivals]
\* -1 is a quantum that never runs out.
MCQuanta == {-1, 0, 1, 2}
=============================================================================
