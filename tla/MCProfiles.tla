------------------------------ MODULE MCProfiles ------------------------------
(* Four profiles at two temperatures: two that can be applied, one with a     *)
(* step that is refused and one with a stop condition that is refused.       *)
EXTENDS Profiles, TLC

CONSTANTS good, other, badStep, badStop, warm, hot

MCTempOf == (good :> warm @@ other :> hot @@ badStep :> hot @@ badStop :> hot)
==============================================================================
