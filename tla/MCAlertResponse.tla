-------------------------- MODULE MCAlertResponse --------------------------
(* Small instances of AlertResponse for TLC.                                *)
EXTENDS AlertResponse, TLC

CONSTANTS u1, u2, u3

\* u1 is assigned first; u2, then u3, are the layers behind.
ThreeLayers == <<{u2}, {u3}>>
TwoLayers == <<{u2}>>
=============================================================================
