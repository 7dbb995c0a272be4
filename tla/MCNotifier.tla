----------------------------- MODULE MCNotifier -----------------------------
(* One message: the goroutines that send share nothing but the client's    *)
(* settings, which do not change.                                          *)
EXTENDS Notifier

CONSTANT m1
=============================================================================
