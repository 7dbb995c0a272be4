------------------------- MODULE MCServiceLifecycle -------------------------
(* One HTTP request and one gRPC call at a time, which come again, a key   *)
(* pair that is replaced, three faults, so that a start, a listener and a  *)
(* write of the keys can fail in one behaviour, and one order to stop.     *)
EXTENDS ServiceLifecycle

CONSTANTS q1, c1
=============================================================================
