--------------------------- MODULE MCHeatingStatus ----------------------------
(* Event streams are interchangeable: nothing compares one with another, and *)
(* no property that is checked with the symmetry is a liveness property.     *)
EXTENDS HeatingStatus, TLC

Symmetry == Permutations(Sinks)
==============================================================================
