---------------------------- MODULE MCUIUpdates -----------------------------
(* Small instances of UIUpdates for TLC.                                   *)
EXTENDS UIUpdates, TLC

CONSTANTS a, b, d1, d2, d3

DetectorSymmetry == Permutations(Detectors)
=============================================================================
