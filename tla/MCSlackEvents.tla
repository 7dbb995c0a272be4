--------------------------- MODULE MCSlackEvents ---------------------------
(* One message of every kind, delivered twice, whose notifications are     *)
(* tried three times, and one crash: it can be delivered again before an   *)
(* earlier delivery arrives, while it is being handled and after it was    *)
(* answered, and a notification can be posted late, twice, or after the    *)
(* crash.  Messages share nothing but the crash, so a second one would     *)
(* only multiply the states.                                               *)
EXTENDS SlackEvents

CONSTANT m1
=============================================================================
