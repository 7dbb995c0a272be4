-------------------------- MODULE MCBillingWorker --------------------------
(* Three events, so that a batch of two leaves one behind, and two threads *)
(* that flush and close.                                                   *)
EXTENDS BillingWorker

CONSTANTS e1, e2, e3, c1, c2
=============================================================================
