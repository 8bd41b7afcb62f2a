----------------------------- MODULE MCEventBus -----------------------------
(* Three handlers and a publication of the event.                         *)
EXTENDS EventBus

CONSTANTS h1, h2, h3, e1

ThreeHandlers == {h1, h2, h3}
OnePublication == {e1}
=============================================================================
