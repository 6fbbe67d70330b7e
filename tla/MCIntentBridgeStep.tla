------------------------- MODULE MCIntentBridgeStep -------------------------
(* Small instances of the queue and its intent steps for TLC.                *)
EXTENDS IntentBridgeStep
=============================================================================
