----------------------------- MODULE MCDispatcher -----------------------------
(* Two profiles at two temperatures, one of them refused for its steps.      *)
EXTENDS Dispatcher, TLC

CONSTANTS good, badStep, warm, hot

MCTempOf == (good :> warm @@ badStep :> hot)
==============================================================================
